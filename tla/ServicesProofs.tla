--------------------------- MODULE ServicesProofs ---------------------------
(***************************************************************************)
(* What holds of each part by itself, and of each tool for any input, is   *)
(* brought together for the run of all of them.                            *)
(***************************************************************************)
EXTENDS MCServices, WorkspaceProofs, ToolsProofs, FiguresProofs

-----------------------------------------------------------------------------
(* The run of the services: what it chooses is finite, times and places    *)
(* are numbers, and a choice, once made, is kept.                          *)
ListsFit == input[1] = "lists" => IsFiniteSet(input[2]) /\ IsFiniteSet(input[3])

TripsFit == input[1] = "trips" => IsFiniteSet(input[3]) /\ \A d \in input[3] : d.time \in Int

ClassesFit == input[1] = "classes" => \A s \in input[2] : s.at \in Int

ByLayerFits == input[1] = "by layer" => AggregationFits(input[2])

ByGridFits == input[1] = "by grid" => GridFits(input[2])

FlowFits ==
  input[1] = "flows" =>
    IsFiniteSet(input[2]) /\ IsFiniteSet(input[3]) /\ \A m \in input[3] : m.weight \in Int

ToolsFit == ByLayerFits /\ ByGridFits /\ FlowFits

EdgeFits == input[1] = "edge" => AlongTheEdge(input[2])

NetworkFits == input[1] = "network" => ScenarioFits(input[2])

HeatLayerFits(l) ==
  /\ IsFiniteSet(Opportunities(l)) /\ l.n \in Nat /\ l.max_traveltime \in 3..5 /\ l.sensitivity \in 1..2
  /\ \A f \in Opportunities(l) : f.value \in Nat

HeatmapFits ==
  /\ input[1] = "opportunities" => IsFiniteSet(input[2]) /\ \A l \in input[2] : HeatLayerFits(l)
  /\ input[1] = "reference" => HeatLayerFits(input[2])

RequestsFit ==
  /\ input[1] \in {"request", "buffer"} => RequestFits(input[2], MCProject)
  /\ input[1] = "stations" =>
       input[2].tool = "nearby_station_access" /\ input[2].lat \in Nat /\ input[2].lon \in Nat
  /\ input[1] = "buffer" => input[2].tool = "buffer" /\ input[4] \in Kept(input[2])

InputsFit == ListsFit /\ TripsFit /\ ClassesFit /\ ToolsFit /\ EdgeFits /\ RequestsFit

LEMMA OneToTwo == ASSUME NEW n \in 0..2 PROVE IsFiniteSet(1..n)
BY FS_Interval

LEMMA SharedIsFinite ==
  /\ \A s \in SharedWith : IsFiniteSet(s)
  /\ \A s \in FewShared : IsFiniteSet(s)
<1>1. ASSUME NEW s \in SharedWith PROVE IsFiniteSet(s)
  <2> DEFINE row(f, i) == [row |-> i, content |-> f[i][1], to |-> f[i][2], role |-> f[i][3]]
             kinds == {"a", "c"} \X {"t1", "t2"} \X {"r1", "r2"}
  <2>1. PICK f \in UNION {[1..n -> kinds] : n \in 0..2} : s = {row(f, i) : i \in DOMAIN f}
    BY DEF SharedWith
  <2>2. PICK n \in 0..2 : f \in [1..n -> kinds]
    <3> HIDE DEF kinds
    <3> QED BY <2>1
  <2>3. s = {row(f, i) : i \in 1..n}
    <3> HIDE DEF kinds, row
    <3> QED BY <2>1, <2>2
  <2>4. IsFiniteSet(1..n)
    BY OneToTwo
  <2> DEFINE g == [k \in 1..n |-> row(f, k)]
  <2>5. IsFiniteSet({g[i] : i \in 1..n})
    <3> HIDE DEF g
    <3> QED BY ONLY <2>4, ImageIsFinite
  <2>6. s = {g[i] : i \in 1..n}
    <3> HIDE DEF row
    <3> QED BY <2>3
  <2> QED BY <2>5, <2>6
<1>2. ASSUME NEW s \in FewShared PROVE IsFiniteSet(s)
  <2> DEFINE row(i) == [row |-> i, content |-> "a", to |-> "t2", role |-> "r1"]
  <2>1. {row(i) : i \in 1..2} = {row(1), row(2)}
    <3>1. 1..2 = {1, 2}
      OBVIOUS
    <3> HIDE DEF row
    <3> QED BY <3>1
  <2>2. IsFiniteSet({row(1), row(2)})
    BY TwoAreFinite
  <2>3. IsFiniteSet({row(i) : i \in 1..2})
    <3> HIDE DEF row
    <3> QED BY <2>1, <2>2
  <2>4. IsFiniteSet({})
    BY FS_EmptySet
  <2>5. \A x : IsFiniteSet({x})
    BY FS_Singleton
  <2> DEFINE other == [row |-> 2, content |-> "c", to |-> "t1", role |-> "r2"]
             first == [row |-> 1, content |-> "a", to |-> "t1", role |-> "r1"]
  <2>6. s \in {{}, {first}, {row(i) : i \in 1..2}, {first, other}}
    BY DEF FewShared
  <2>7. IsFiniteSet({first, other})
    BY TwoAreFinite
  <2> HIDE DEF row, first, other
  <2> QED BY <2>3, <2>4, <2>5, <2>6, <2>7
<1> QED BY <1>1, <1>2

LEMMA ContentsAreFinite == IsFiniteSet(Contents)
BY ThreeAreFinite DEF Contents

LEMMA MCSourceIsFeature ==
  ASSUME NEW i, NEW at, NEW group, NEW value
  PROVE  /\ MCSource(i, at, group, value).row = i /\ MCSource(i, at, group, value).id = i
         /\ MCSource(i, at, group, value).at = at
         /\ MCSource(i, at, group, value).value = value
         /\ Feature(MCSource(i, at, group, value))
<1>1. MCSource(i, at, group, value) = [row |-> i, id |-> i, at |-> at, group |-> group, value |-> value]
  BY DEF MCSource
<1> QED BY <1>1 DEF Feature

LEMMA FewAreFinite ==
  IsFiniteSet({}) /\ (\A x : IsFiniteSet({x})) /\ \A x, y : IsFiniteSet({x, y})
<1>1. \A x, y : IsFiniteSet({x, y})
  BY TwoAreFinite
<1> QED BY <1>1, FS_EmptySet, FS_Singleton

LEMMA MCSourceFits ==
  ASSUME NEW i, NEW at \in Shapes \cup {{1, 2}, {1}}, NEW group, NEW value \in Int
  PROVE  Whole_feature(MCSource(i, at, group, value)) /\ at \in SUBSET (0..3)
<1>1. at # {} /\ at \in SUBSET (0..3)
  BY DEF Shapes
<1>2. IsFiniteSet(at)
  <2>1. IsFiniteSet(0..3)
    <3>1. 0 \in Int /\ 3 \in Int
      OBVIOUS
    <3> QED BY ONLY <3>1, FS_Interval
  <2> QED BY <1>1, <2>1, FS_Subset
<1> DEFINE f == MCSource(i, at, group, value)
<1>3. Feature(f) /\ f.at = at /\ f.value = value
  BY MCSourceIsFeature
<1>4. at \in SUBSET Int /\ at \in SUBSET DOMAIN HexOf
  BY <1>1, PlacesAssumption
<1> HIDE DEF f
<1>5. Whole_feature(f)
  BY <1>1, <1>2, <1>3, <1>4 DEF Whole_feature
<1> QED BY <1>1, <1>5 DEF f

LEMMA EditIs ==
  ASSUME NEW origin, NEW edit, NEW f
  PROVE  MCEdit(origin, edit, f).origin = origin /\ MCEdit(origin, edit, f).feature = f
BY DEF MCEdit

(* The sources the run chooses: two features, and edits of other rows.     *)
LEMMA SourcesFit ==
  ASSUME NEW l \in SourceLayers
  PROVE  /\ LayerFits(l)
         /\ \A f, g \in Overlaid(l.features, l.edits) : f.row = g.row => f = g
         /\ \A f \in Overlaid(l.features, l.edits) : f.at \in SUBSET (0..3)
<1>1. PICK a \in Shapes, b \in Shapes, e \in SourceEdits :
        l = [features |-> {MCSource(1, a, <<5, Null>>, 2), MCSource(2, b, <<Null, 6>>, 3)},
             hidden |-> {}, edits |-> e]
  BY DEF SourceLayers
<1> DEFINE first == MCSource(1, a, <<5, Null>>, 2)
           second == MCSource(2, b, <<Null, 6>>, 3)
<1>2. l.features = {first, second} /\ l.hidden = {} /\ l.edits = e
  BY <1>1
<1>3. /\ Whole_feature(first) /\ first.row = 1 /\ first.at \in SUBSET (0..3)
      /\ Whole_feature(second) /\ second.row = 2 /\ second.at \in SUBSET (0..3)
  <2>1. first.row = 1 /\ first.at = a /\ second.row = 2 /\ second.at = b
    BY MCSourceIsFeature
  <2>2. 2 \in Int /\ 3 \in Int
    OBVIOUS
  <2>3. a \in Shapes \cup {{1, 2}, {1}} /\ b \in Shapes \cup {{1, 2}, {1}}
    OBVIOUS
  <2>4. Whole_feature(first) /\ a \in SUBSET (0..3) /\ Whole_feature(second) /\ b \in SUBSET (0..3)
    BY <2>2, <2>3, MCSourceFits, Zenon
  <2> QED BY <2>1, <2>4, Zenon
<1>4. /\ IsFiniteSet(e)
      /\ \A d \in e : /\ Whole_feature(d.feature) /\ d.feature.row \in {8, 9}
                      /\ d.feature.at \in SUBSET (0..3)
      /\ \A d, n \in e : d.feature.row = n.feature.row => d = n
  <2> DEFINE s1 == MCSource(8, {3}, <<5>>, 2)
             s2 == MCSource(8, {3}, <<5, Null>>, 7)
             s3 == MCSource(8, {0}, <<5>>, 7)
             s4 == MCSource(9, {1}, <<5, Null>>, 3)
             d1 == MCEdit(1, "d", s1)
             d2 == MCEdit(1, "m", s2)
             d3 == MCEdit(Null, "n", s3)
             d4 == MCEdit(2, "m", s4)
  <2>1. \A s \in {s1, s2, s3, s4} : Whole_feature(s) /\ s.row \in {8, 9} /\ s.at \in SUBSET (0..3)
    <3>1. {3} \in Shapes /\ {0} \in Shapes
      BY DEF Shapes
    <3> QED BY <3>1, MCSourceFits, MCSourceIsFeature
  <2>2. s3.row = 8 /\ s4.row = 9
    BY MCSourceIsFeature
  <2>3. d1.feature = s1 /\ d2.feature = s2 /\ d3.feature = s3 /\ d4.feature = s4
    BY EditIs
  <2>4. e = {} \/ e = {d1} \/ e = {d2} \/ e = {d3, d4}
    BY Zenon DEF SourceEdits
  <2> HIDE DEF d1, d2, d3, d4, s1, s2, s3, s4
  <2>5. IsFiniteSet(e)
    BY Zenon, <2>4, FewAreFinite
  <2>6. \A d \in e : d \in {d1, d2, d3, d4} /\ d.feature \in {s1, s2, s3, s4}
    BY <2>3, <2>4
  <2>7. \A d, n \in e : d.feature.row = n.feature.row => d = n
    BY <2>2, <2>3, <2>4
  <2> QED BY <2>1, <2>5, <2>6, <2>7
<1>5. LayerFits(l)
  <2>1. IsFiniteSet({first, second}) /\ IsFiniteSet({})
    BY TwoAreFinite, FS_EmptySet
  <2> HIDE DEF first, second
  <2> QED BY <1>2, <1>3, <1>4, <2>1 DEF LayerFits
<1> HIDE DEF first, second
<1>6. ASSUME NEW f \in Overlaid(l.features, l.edits)
      PROVE  \/ f \in {first, second}
             \/ \E d \in e : /\ f = [d.feature EXCEPT !.id = d.origin]
                             /\ f.row = d.feature.row /\ f.at = d.feature.at
  <2>1. f \in {first, second} \/ \E d \in e : f = [d.feature EXCEPT !.id = d.origin]
    BY <1>2 DEF Overlaid
  <2>2. ASSUME NEW d \in e, f = [d.feature EXCEPT !.id = d.origin]
        PROVE  f.row = d.feature.row /\ f.at = d.feature.at
    <3>1. Feature(d.feature)
      BY <1>4 DEF Whole_feature
    <3> QED BY <2>2, <3>1, RenamedIsTheSame
  <2> QED BY <2>1, <2>2
<1>7. \A f \in Overlaid(l.features, l.edits) : f.at \in SUBSET (0..3)
  BY <1>3, <1>4, <1>6
<1>8. ASSUME NEW f \in Overlaid(l.features, l.edits), NEW g \in Overlaid(l.features, l.edits), f.row = g.row
      PROVE  f = g
  <2>1. CASE f \in {first, second} /\ g \in {first, second}
    BY <1>3, <1>8, <2>1
  <2>2. ASSUME NEW d \in e, f = [d.feature EXCEPT !.id = d.origin], f.row = d.feature.row PROVE f = g
    <3>1. PICK n \in e : g = [n.feature EXCEPT !.id = n.origin] /\ g.row = n.feature.row
      BY <1>3, <1>4, <1>6, <1>8, <2>2
    <3>2. n = d
      BY <1>4, <1>8, <2>2, <3>1
    <3> QED BY <2>2, <3>1, <3>2
  <2>3. ASSUME f \in {first, second}, NEW n \in e, g.row = n.feature.row PROVE FALSE
    BY <1>3, <1>4, <1>8, <2>3
  <2> QED BY <1>6, <2>1, <2>2, <2>3
<1> QED BY <1>5, <1>7, <1>8

LEMMA AreasFit ==
  ASSUME NEW l \in AreaLayers
  PROVE  LayerFits(l) /\ \A a, b \in l.features : a.id = b.id => a = b
<1>1. PICK h \in {{}, {MCSource(23, {0}, <<6>>, 0)}}, a \in {{0}, {1}, {1, 2}}, b \in {{1, 2, 3}, {2, 3}},
           e \in AreaEdits :
        l = [features |-> {MCSource(21, a, <<5>>, 0), MCSource(22, b, <<6>>, 0)}, hidden |-> h, edits |-> e]
  BY DEF AreaLayers
<1> DEFINE first == MCSource(21, a, <<5>>, 0)
           second == MCSource(22, b, <<6>>, 0)
           away == MCSource(23, {0}, <<6>>, 0)
           d1 == MCEdit(21, "m", MCSource(28, {3}, <<5>>, 2))
           d2 == MCEdit(Null, "n", MCSource(29, {1}, <<5>>, 2))
<1>2. l.features = {first, second} /\ l.hidden = h /\ l.edits = e
  BY <1>1
<1>3. /\ Whole_feature(first) /\ first.id = 21
      /\ Whole_feature(second) /\ second.id = 22
      /\ Whole_feature(away) /\ h \in {{}, {away}}
  <2>1. a \in Shapes \cup {{1, 2}, {1}} /\ {0} \in Shapes
    BY DEF Shapes
  <2>2. b \in Shapes
    BY DEF Shapes
  <2> QED BY <2>1, <2>2, MCSourceFits, MCSourceIsFeature
<1>4. d1.feature = MCSource(28, {3}, <<5>>, 2) /\ d2.feature = MCSource(29, {1}, <<5>>, 2)
  BY EditIs
<1>5. Whole_feature(d1.feature) /\ Whole_feature(d2.feature)
  <2>1. {3} \in Shapes
    BY DEF Shapes
  <2> HIDE DEF d1, d2
  <2> QED BY <1>4, <2>1, MCSourceFits
<1>6. e = {} \/ e = {d1, d2}
  BY Zenon DEF AreaEdits
<1>7. IsFiniteSet(h) /\ IsFiniteSet({first, second}) /\ IsFiniteSet(e)
  <2>1. IsFiniteSet({first, second})
    BY Zenon, FewAreFinite
  <2>2. IsFiniteSet(e)
    <3> HIDE DEF d1, d2
    <3>1. CASE e = {}
      BY ONLY <3>1, FewAreFinite
    <3>2. CASE e = {d1, d2}
      <4>1. IsFiniteSet({d1, d2})
        BY ONLY TwoAreFinite
      <4> QED BY ONLY <3>2, <4>1
    <3> QED BY ONLY <1>6, <3>1, <3>2
  <2>3. IsFiniteSet(h)
    <3>1. h = {} \/ h = {away}
      BY <1>3
    <3> HIDE DEF away
    <3> QED BY Zenon, <3>1, FewAreFinite
  <2> QED BY <2>1, <2>2, <2>3
<1> HIDE DEF first, second, away, d1, d2
<1>8. LayerFits(l)
  BY <1>2, <1>3, <1>5, <1>6, <1>7 DEF LayerFits
<1> QED BY <1>2, <1>3, <1>8

LEMMA PointsOnlyAreOne ==
  ASSUME NEW s \in SourceLayers, Points_only(s), NEW f \in Overlaid(s.features, s.edits),
         NEW q \in f.at, NEW r \in f.at
  PROVE  q = r
<1>1. LayerFits(s)
  BY SourcesFit
<1>2. Whole_feature(f)
  BY <1>1, OverlaidFit
<1>3. \E d \in s.features \cup {e.feature : e \in s.edits} : f.at = d.at
  <2>1. CASE f \in s.features
    BY <2>1
  <2>2. CASE f \in Renamed(s.edits)
    <3>1. PICK e \in s.edits : f = [e.feature EXCEPT !.id = e.origin]
      BY <2>2 DEF Renamed
    <3>2. Whole_feature(e.feature)
      BY <1>1 DEF LayerFits
    <3>3. f.at = e.feature.at
      BY <3>1, <3>2, RenamedIsTheSame DEF Whole_feature
    <3> QED BY <3>3
  <2> QED BY <2>1, <2>2 DEF Overlaid, Renamed
<1>4. Cardinality(f.at) = 1
  BY <1>3 DEF Points_only
<1> QED BY <1>2, <1>4, AtMostOne DEF Whole_feature

LEMMA AggregationIs ==
  ASSUME NEW s, NEW a, NEW op, NEW w, NEW g, NEW p
  PROVE  /\ Aggregation(s, a, op, w, g, p).source = s
         /\ Aggregation(s, a, op, w, g, p).areas = a
         /\ Aggregation(s, a, op, w, g, p).points = p
BY DEF Aggregation

LEMMA ToolChoicesFit == ASSUME ChooseTool PROVE ToolsFit'
<1> USE DEF ToolsFit, ByLayerFits, ByGridFits, FlowFits
<1>1. ASSUME NEW s \in SourceLayers, NEW a \in AreaLayers, NEW op, NEW w \in BOOLEAN, NEW p \in BOOLEAN,
             p => Points_only(s), p => w = FALSE,
             input' = <<"by layer", Aggregation(s, a, op, w, TRUE, p)>>
      PROVE  ToolsFit'
  <2> DEFINE c == Aggregation(s, a, op, w, TRUE, p)
  <2>1. c.source = s /\ c.areas = a /\ c.points = p
    BY DEF Aggregation
  <2>2. input'[1] = "by layer" /\ input'[2] = c
    BY <1>1
  <2>3. p => ~c.weighted
    <3> SUFFICES ASSUME p PROVE ~c.weighted
      OBVIOUS
    <3>1. w = FALSE
      BY <1>1
    <3>2. c = Aggregation(s, a, op, FALSE, TRUE, p)
      BY <3>1, Zenon
    <3>3. c.weighted = FALSE
      BY <3>2 DEF Aggregation
    <3> QED BY <3>3
  <2> HIDE DEF c
  <2>4. Sources(c) = Overlaid(s.features, s.edits)
    BY <2>1 DEF Sources
  <2>5. c.points => ~c.weighted /\ Points_only(s)
    BY <1>1, <2>1, <2>3
  <2>6. c.points => \A f \in Sources(c) : \A q, r \in f.at : q = r
    BY <2>4, <2>5, PointsOnlyAreOne, Zenon
  <2>7. /\ LayerFits(c.source) /\ LayerFits(c.areas)
        /\ \A f, g \in Sources(c) : f.row = g.row => f = g
        /\ \A x, y \in c.areas.features : x.id = y.id => x = y
    BY <2>1, <2>4, SourcesFit, AreasFit
  <2>8. AggregationFits(c)
    BY <2>5, <2>6, <2>7, Zenon DEF AggregationFits
  <2> QED BY <2>2, <2>8
<1>2. ASSUME NEW s \in SourceLayers, NEW op, NEW w, NEW g, NEW p \in BOOLEAN, p => Points_only(s),
             input' = <<"by grid", Aggregation(s, NoAreas, op, w, g, p)>>
      PROVE  ToolsFit'
  <2> DEFINE c == Aggregation(s, NoAreas, op, w, g, p)
  <2>1. c.source = s /\ c.points = p
    BY AggregationIs
  <2>2. input'[1] = "by grid" /\ input'[2] = c
    BY <1>2
  <2> HIDE DEF c
  <2>3. Sources(c) = Overlaid(s.features, s.edits)
    BY <2>1 DEF Sources
  <2>4. GridFits(c)
    BY <1>2, <2>1, <2>3, SourcesFit, PointsOnlyAreOne DEF GridFits
  <2> QED BY <2>2, <2>4
<1>3. ASSUME NEW t, NEW j, NEW op, input' = <<"join", t, j, op>>
      PROVE  ToolsFit'
  <2>1. input'[1] = "join"
    BY <1>3
  <2> QED BY <2>1
<1>4. ASSUME NEW g \in Geometries, NEW m, NEW n,
             m \in [row : {1}, from : 1..2, to : 1..3, weight : {4, 5}],
             n \in [row : {1}, from : 1..2, to : 1..3, weight : {4, 5}],
             input' = <<"flows", g, {m, [n EXCEPT !.row = 2]}>>
      PROVE  ToolsFit'
  <2> DEFINE o == [n EXCEPT !.row = 2]
  <2>1. m.weight \in Int /\ o.weight \in Int
    BY <1>4
  <2>2. input'[1] = "flows" /\ input'[2] = g /\ input'[3] = {m, o}
    BY <1>4
  <2>3. \A x, y, z : IsFiniteSet({x, y, z})
    BY ThreeAreFinite
  <2>4. IsFiniteSet(g)
    <3>1. PICK i2 \in 1..2, i3 \in 2..3, t2 \in 1..2, t3 \in {1, 3} :
            g = {MCPoint(1, 1, 1), MCPoint(2, i2, t2), MCPoint(3, i3, t3)}
      BY <1>4 DEF Geometries
    <3> QED BY <2>3, <3>1
  <2> HIDE DEF o
  <2>5. IsFiniteSet({m, o})
    BY TwoAreFinite
  <2> QED BY <2>1, <2>2, <2>4, <2>5
<1>5. \/ \E s \in SourceLayers, a \in AreaLayers, w, p \in BOOLEAN : \E op :
           (p => Points_only(s)) /\ (p => w = FALSE) /\ input' = <<"by layer", Aggregation(s, a, op, w, TRUE, p)>>
      \/ \E s \in SourceLayers, p \in BOOLEAN : \E op, w, g :
           (p => Points_only(s)) /\ input' = <<"by grid", Aggregation(s, NoAreas, op, w, g, p)>>
      \/ \E t, j, op : input' = <<"join", t, j, op>>
      \/ \E g \in Geometries, m, n \in [row : {1}, from : 1..2, to : 1..3, weight : {4, 5}] :
           input' = <<"flows", g, {m, [n EXCEPT !.row = 2]}>>
  <2>1. CASE \E s \in SourceLayers, a \in AreaLayers, op \in {"count", "max"}, w, p \in BOOLEAN :
               /\ p => Points_only(s) /\ ~w
               /\ input' = <<"by layer", Aggregation(s, a, op, w, TRUE, p)>>
    <3>1. PICK s \in SourceLayers, a \in AreaLayers, op \in {"count", "max"}, w \in BOOLEAN, p \in BOOLEAN :
            (p => Points_only(s) /\ ~w) /\ input' = <<"by layer", Aggregation(s, a, op, w, TRUE, p)>>
      BY <2>1, Zenon
    <3>2. p => w = FALSE
      BY <3>1
    <3> QED BY <3>1, <3>2, Zenon
  <2>2. CASE \E s \in SourceLayers, op \in {"count", "sum", "min"}, w, g, p \in BOOLEAN :
               /\ p => Points_only(s) /\ ~w
               /\ input' = <<"by grid", Aggregation(s, NoAreas, op, w, g, p)>>
    BY <2>2, Zenon
  <2>3. CASE \E t \in Targets, j \in SUBSET [row : 1..2, key : 1..2, value : {2}], op \in {"count", "sum"} :
               input' = <<"join", t, j, op>>
    BY <2>3, Zenon
  <2>4. CASE \E g \in Geometries, m, n \in [row : {1}, from : 1..2, to : 1..3, weight : {4, 5}] :
               input' = <<"flows", g, {m, [n EXCEPT !.row = 2]}>>
    BY <2>4, Zenon
  <2> QED BY <2>1, <2>2, <2>3, <2>4, Zenon DEF ChooseTool
<1>6. CASE \E s \in SourceLayers, a \in AreaLayers, w, p \in BOOLEAN : \E op :
             (p => Points_only(s)) /\ (p => w = FALSE) /\ input' = <<"by layer", Aggregation(s, a, op, w, TRUE, p)>>
  BY <1>1, <1>6, Zenon
<1>7. CASE \E s \in SourceLayers, p \in BOOLEAN : \E op, w, g :
             (p => Points_only(s)) /\ input' = <<"by grid", Aggregation(s, NoAreas, op, w, g, p)>>
  BY <1>2, <1>7, Zenon
<1> QED BY <1>3, <1>4, <1>5, <1>6, <1>7, Zenon

LEMMA TripsChosen ==
  ASSUME NEW area, NEW routes, NEW x, NEW y, NEW z, x.time \in Int, y.time \in Int, z.time \in Int,
         input' = <<"trips", area, {x, y, z}, routes>>
  PROVE  InputsFit'
<1>1. input'[1] = "trips" /\ input'[3] = {x, y, z}
  OBVIOUS
<1>2. \A d \in input'[3] : d.time \in Int
  BY <1>1
<1>3. IsFiniteSet(input'[3])
  BY <1>1, ThreeAreFinite
<1> QED BY <1>1, <1>2, <1>3 DEF InputsFit, ListsFit, TripsFit, ClassesFit, ToolsFit, ByLayerFits, ByGridFits, FlowFits, EdgeFits, RequestsFit

LEMMA PlacesAreOrdered == \A p \in Ordered_places : AlongTheEdge(p)
<1> TAKE p \in Ordered_places
<1>1. PICK n \in 1..4 : p \in [1..n -> 0..Whole]
  BY DEF Ordered_places
<1>2. n \in Nat /\ n # 0
  BY <1>1
<1>3. p \in Seq(0..Whole)
  BY <1>1, <1>2, SeqDef
<1>4. Len(p) = n
  <2>1. DOMAIN p = 1..n /\ DOMAIN p = 1..Len(p) /\ Len(p) \in Nat
    BY <1>1, <1>3
  <2> QED BY <1>2, <2>1
<1>5. p # <<>>
  BY <1>2, <1>4
<1>6. \A i, k \in DOMAIN p : i <= k => p[i] <= p[k]
  BY DEF Ordered_places
<1> QED BY <1>3, <1>5, <1>6 DEF AlongTheEdge

(* The project of the run. *)
LEMMA ProjectLayerFits ==
  ASSUME NEW k, NEW f, IsFiniteSet(f), NEW h, IsFiniteSet(h), NEW e, IsFiniteSet(e)
  PROVE  OfProject(ProjectLayer(k, f, h, e))
BY DEF OfProject, ProjectLayer

LEMMA ThreeAre == IsFiniteSet(Three)
<1>1. 0..2 = {0, 1, 2}
  OBVIOUS
<1>2. Three = {MCSource(i, {i}, <<5>>, i) : i \in {0, 1, 2}}
  BY <1>1 DEF Three
<1>3. Three = {MCSource(0, {0}, <<5>>, 0), MCSource(1, {1}, <<5>>, 1), MCSource(2, {2}, <<5>>, 2)}
  BY <1>2
<1> QED BY <1>3, ThreeAreFinite

LEMMA ProjectFits == \A n \in DOMAIN MCProject : OfProject(MCProject[n])
<1>1. IsFiniteSet(Three) /\ IsFiniteSet({}) /\ \A x : IsFiniteSet({x})
  BY ThreeAre, FewAreFinite
<1>2. \A x, y : IsFiniteSet({x, y})
  BY FewAreFinite
<1>3. OfProject(Points)
  <2>1. IsFiniteSet({f \in Three : f.id # 2})
    BY <1>1, FS_Subset
  <2> QED BY <1>1, <2>1, ProjectLayerFits DEF Points
<1>4. OfProject(Areas)
  BY <1>1, <1>2, ProjectLayerFits DEF Areas
<1>5. /\ OfProject(ProjectLayer("point", Three, {}, {}))
      /\ OfProject(ProjectLayer("point", {}, Three, {}))
      /\ OfProject(ProjectLayer("polygon", {MCSource(6, {1}, <<5>>, 4)}, {}, {}))
      /\ OfProject(ProjectLayer("polygon", {MCSource(6, {0, 1, 2, 3}, <<5>>, 4)}, {}, {}))
      /\ OfProject(ProjectLayer("line", {MCSource(7, {0, 1}, <<5>>, 4)}, {}, {}))
      /\ OfProject(ProjectLayer("table", {MCSource(7, {}, <<5>>, 4)}, {}, {}))
  BY <1>1, ProjectLayerFits
<1> DEFINE names == {"points", "crowd", "hidden", "areas", "plot", "wide", "lines", "table"}
<1>6. DOMAIN MCProject = names
  BY DEF MCProject
<1>7. \A n \in names :
        MCProject[n] \in {Points, Areas, ProjectLayer("point", Three, {}, {}),
                          ProjectLayer("point", {}, Three, {}),
                          ProjectLayer("polygon", {MCSource(6, {1}, <<5>>, 4)}, {}, {}),
                          ProjectLayer("polygon", {MCSource(6, {0, 1, 2, 3}, <<5>>, 4)}, {}, {}),
                          ProjectLayer("line", {MCSource(7, {0, 1}, <<5>>, 4)}, {}, {}),
                          ProjectLayer("table", {MCSource(7, {}, <<5>>, 4)}, {}, {})}
  BY DEF MCProject
<1> HIDE DEF names
<1> QED BY <1>3, <1>4, <1>5, <1>6, <1>7

OfTheProject(named) == \A p \in DOMAIN named : named[p] \in DOMAIN MCProject

LEMMA NamedIs ==
  ASSUME NEW parameters, NEW named \in Named(parameters)
  PROVE  DOMAIN named \subseteq parameters /\ OfTheProject(named)
<1>1. PICK s \in SUBSET parameters : named \in [s -> DOMAIN MCProject]
  BY DEF Named
<1> QED BY <1>1 DEF OfTheProject

LEMMA OneOfFive ==
  \A a, b, c, y, z : \A x \in (UNION {a, b, c}) \cup {y, z} : x \in a \/ x \in b \/ x \in c \/ x = y \/ x = z
OBVIOUS

LEMMA FewNamedAre ==
  ASSUME NEW named \in FewNamed
  PROVE  DOMAIN named \subseteq {"layer_project_id"} \cup DOMAIN StreetNetworkTypes /\ OfTheProject(named)
<1>1. DOMAIN MCProject = {"points", "crowd", "hidden", "areas", "plot", "wide", "lines", "table"}
  BY DEF MCProject
<1>2. CASE named \in [{"layer_project_id"} -> {"points", "crowd", "hidden"}]
  BY <1>1, <1>2 DEF OfTheProject
<1>3. CASE named \in [{"edge_layer_project_id"} -> {"lines"}]
  BY <1>1, <1>3, StreetsAre DEF OfTheProject
<1>4. CASE named \in [{"node_layer_project_id"} -> {"points"}]
  BY <1>1, <1>4, StreetsAre DEF OfTheProject
<1>5. CASE named = <<>>
  <2>1. DOMAIN named = {}
    BY <1>5
  <2> QED BY <2>1 DEF OfTheProject
<1>6. CASE named = [p \in {"layer_project_id", "edge_layer_project_id"} |->
                       IF p = "layer_project_id" THEN "points" ELSE "wide"]
  BY <1>1, <1>6, StreetsAre DEF OfTheProject
<1>7. \/ named \in [{"layer_project_id"} -> {"points", "crowd", "hidden"}]
      \/ named \in [{"edge_layer_project_id"} -> {"lines"}]
      \/ named \in [{"node_layer_project_id"} -> {"points"}]
      \/ named = <<>>
      \/ named = [p \in {"layer_project_id", "edge_layer_project_id"} |->
                     IF p = "layer_project_id" THEN "points" ELSE "wide"]
  <2> DEFINE points_only == [{"layer_project_id"} -> {"points", "crowd", "hidden"}]
             edges_only == [{"edge_layer_project_id"} -> {"lines"}]
             nodes_only == [{"node_layer_project_id"} -> {"points"}]
             both == [p \in {"layer_project_id", "edge_layer_project_id"} |->
                       IF p = "layer_project_id" THEN "points" ELSE "wide"]
  <2>1. FewNamed = (UNION {points_only, edges_only, nodes_only}) \cup {<<>>, both}
    BY DEF FewNamed
  <2> HIDE DEF points_only, edges_only, nodes_only, both
  <2>2. \/ named \in points_only \/ named \in edges_only \/ named \in nodes_only
        \/ named = <<>> \/ named = both
    BY <2>1, OneOfFive, Zenon
  <2> QED BY <2>2 DEF points_only, edges_only, nodes_only, both
<1> QED BY <1>2, <1>3, <1>4, <1>5, <1>6, <1>7, Zenon

LEMMA LayersOfTheProjectFit ==
  ASSUME NEW named, OfTheProject(named)
  PROVE  \A p \in DOMAIN named : OfProject(MCProject[named[p]])
BY ProjectFits DEF OfTheProject

LEMMA ToolsAreLimited ==
  ASSUME NEW t \in Tools_limited
  PROVE  t \in DOMAIN MaxFeatureCnt
BY LimitsAssumption

LEMMA OtherToolsFit ==
  ASSUME NEW r, r.tool \in Tools_limited \ (Catchments \cup HeatmapsOfOpportunities), OfTheProject(r.layers)
  PROVE  RequestFits(r, MCProject)
BY ToolsAreLimited, LayersOfTheProjectFit DEF RequestFits

LEMMA CatchmentsFit ==
  ASSUME NEW r \in CatchmentRequests
  PROVE  RequestFits(r, MCProject)
<1>1. r.tool \in Catchments /\ r.layers \in FewNamed /\ r.lat \in 0..3 /\ r.lon \in {0, 2}
  BY DEF CatchmentRequests
<1>2. r.tool \notin HeatmapsOfOpportunities
  BY <1>1 DEF Catchments, HeatmapsOfOpportunities
<1>3. r.lat \in Nat /\ r.lon \in Nat
  BY <1>1
<1>4. r.tool \in DOMAIN MaxFeatureCnt
  BY <1>1, ToolsAreLimited DEF Tools_limited
<1> QED BY <1>1, <1>2, <1>3, <1>4, FewNamedAre, LayersOfTheProjectFit DEF RequestFits

LEMMA AggregationsFit ==
  ASSUME NEW r \in AggregationRequests
  PROVE  RequestFits(r, MCProject)
<1>1. r.tool \in Aggregations /\ r.layers \in Named({"source_layer_project_id", "aggregation_layer_project_id"})
  BY DEF AggregationRequests
<1>2. r.tool \in Tools_limited \ (Catchments \cup HeatmapsOfOpportunities)
  BY <1>1 DEF Tools_limited, Aggregations, Catchments, HeatmapsOfOpportunities
<1> QED BY <1>1, <1>2, NamedIs, OtherToolsFit

LEMMA HeatmapsFit ==
  ASSUME NEW r \in HeatmapRequests
  PROVE  RequestFits(r, MCProject)
<1> DEFINE ofOpportunities ==
             [tool : HeatmapsOfOpportunities, layers : Named({"opportunity_geofence_layer_project_id"}),
              opportunities : {{[layer |-> l, max_traveltime |-> t], [layer |-> "points", max_traveltime |-> 30]} :
                                 l \in DOMAIN MCProject, t \in {30, 31}},
              routing_type : {"walking", "car"}]
           ofReference ==
             [tool : {"heatmap_connectivity"}, layers : Named({"reference_area_layer_project_id"}),
              max : {30, 31, 61}, routing_type : {"walking", "car"}]
<1>1. CASE r \in ofOpportunities
  <2>1. /\ r.tool \in HeatmapsOfOpportunities /\ r.layers \in Named({"opportunity_geofence_layer_project_id"})
        /\ r.opportunities \in {{[layer |-> l, max_traveltime |-> t], [layer |-> "points", max_traveltime |-> 30]} :
                                  l \in DOMAIN MCProject, t \in {30, 31}}
    BY <1>1
  <2>2. \A o \in r.opportunities : o.layer \in DOMAIN MCProject
    <3>1. PICK l \in DOMAIN MCProject, t \in {30, 31} :
            r.opportunities = {[layer |-> l, max_traveltime |-> t], [layer |-> "points", max_traveltime |-> 30]}
      BY <2>1
    <3>2. "points" \in DOMAIN MCProject
      BY DEF MCProject
    <3> QED BY <3>1, <3>2
  <2>3. \A l \in Opportunity_layers(r, MCProject) : OfProject(l)
    BY <2>2, ProjectFits DEF Opportunity_layers
  <2>4. r.tool \notin Catchments /\ r.tool \in DOMAIN MaxFeatureCnt
    <3>1. r.tool \in Tools_limited /\ r.tool \notin Catchments
      BY <2>1 DEF Catchments, HeatmapsOfOpportunities, Heatmaps, Tools_limited
    <3> QED BY <3>1, ToolsAreLimited
  <2>5. DOMAIN r.layers \subseteq {"opportunity_geofence_layer_project_id"} /\ OfTheProject(r.layers)
    BY <2>1, NamedIs
  <2> QED BY <2>3, <2>4, <2>5, LayersOfTheProjectFit DEF RequestFits
<1>2. CASE r \in ofReference
  <2>1. r.tool = "heatmap_connectivity" /\ r.layers \in Named({"reference_area_layer_project_id"})
    BY <1>2
  <2>2. r.tool \in Tools_limited \ (Catchments \cup HeatmapsOfOpportunities)
    BY <2>1 DEF Tools_limited, Heatmaps, Catchments, HeatmapsOfOpportunities
  <2> QED BY <2>1, <2>2, NamedIs, OtherToolsFit
<1> QED BY <1>1, <1>2 DEF HeatmapRequests

LEMMA OthersFit ==
  ASSUME NEW r \in OtherRequests
  PROVE  RequestFits(r, MCProject)
<1>1. r.tool \in {"join", "origin_destination", "trip_count_station", "oev_gueteklasse"} /\ OfTheProject(r.layers)
  <2>1. CASE r \in [tool : {"join"}, layers : Named({"target_layer_project_id", "join_layer_project_id"})]
    BY <2>1, NamedIs
  <2>2. CASE r \in [tool : {"origin_destination"},
                    layers : Named({"geometry_layer_project_id", "origin_destination_matrix_layer_project_id"})]
    BY <2>2, NamedIs
  <2>3. CASE r \in [tool : {"trip_count_station"}, layers : Named({"reference_area_layer_project_id"})]
    BY <2>3, NamedIs
  <2>4. CASE r \in [tool : {"oev_gueteklasse"}, layers : Named({"reference_area_layer_project_id"}),
                    catchment_type : {"buffer", "network"}]
    BY <2>4, NamedIs
  <2> QED BY <2>1, <2>2, <2>3, <2>4 DEF OtherRequests
<1>2. r.tool \in Tools_limited \ (Catchments \cup HeatmapsOfOpportunities)
  BY <1>1 DEF Tools_limited, Catchments, HeatmapsOfOpportunities
<1> QED BY <1>1, <1>2, OtherToolsFit

LEMMA RequestChoicesFit == ASSUME ChooseRequest PROVE RequestsFit'
<1>1. CASE \E r \in CatchmentRequests \cup AggregationRequests \cup HeatmapRequests \cup OtherRequests :
             input' = <<"request", r>>
  <2>1. PICK r \in CatchmentRequests \cup AggregationRequests \cup HeatmapRequests \cup OtherRequests :
          input' = <<"request", r>>
    BY <1>1
  <2>2. input'[1] = "request" /\ input'[2] = r
    BY <2>1
  <2>3. RequestFits(r, MCProject)
    BY CatchmentsFit, AggregationsFit, HeatmapsFit, OthersFit
  <2> QED BY <2>2, <2>3 DEF RequestsFit
<1>2. CASE \E r \in StationRequests : input' = <<"stations", r>>
  <2>1. PICK r \in StationRequests : input' = <<"stations", r>>
    BY <1>2
  <2>2. input'[1] = "stations" /\ input'[2] = r
    BY <2>1
  <2>3. r.tool = "nearby_station_access" /\ r.lat \in Nat /\ r.lon \in Nat
    BY DEF StationRequests
  <2> QED BY <2>2, <2>3 DEF RequestsFit
<1>3. CASE \E r \in BufferRequests, id \in 1..2 : \E kept \in Kept(r) :
             input' = <<"buffer", r, {MCSource(1, {0}, <<5>>, 2), MCSource(id, {3}, <<5>>, 2)}, kept>>
  <2>1. PICK r \in BufferRequests, id \in 1..2 : \E kept \in Kept(r) :
             input' = <<"buffer", r, {MCSource(1, {0}, <<5>>, 2), MCSource(id, {3}, <<5>>, 2)}, kept>>
    BY <1>3
  <2>2. PICK kept \in Kept(r) :
             input' = <<"buffer", r, {MCSource(1, {0}, <<5>>, 2), MCSource(id, {3}, <<5>>, 2)}, kept>>
    BY <2>1
  <2>3. input'[1] = "buffer" /\ input'[2] = r /\ input'[4] = kept
    BY <2>2
  <2>4. r.tool = "buffer" /\ r.layers \in Named({"source_layer_project_id"})
    BY DEF BufferRequests
  <2>5. r.tool \in Tools_limited \ (Catchments \cup HeatmapsOfOpportunities)
    BY <2>4 DEF Tools_limited, Catchments, HeatmapsOfOpportunities
  <2>6. RequestFits(r, MCProject)
    BY <2>4, <2>5, NamedIs, OtherToolsFit
  <2> QED BY <2>3, <2>4, <2>6 DEF RequestsFit
<1> QED BY <1>1, <1>2, <1>3, Zenon DEF ChooseRequest

LEMMA ChoicesFit == ASSUME ChooseInput PROVE InputsFit'
<1>1. CASE ChooseStreets \/ ChooseTool \/ ChooseHeatmap \/ ChooseStatistics \/ ChooseRequest
  <2>1. CASE ChooseStreets
    <3>1. (\E s : input' = <<"network", s>>) \/ \E p \in Ordered_places : input' = <<"edge", p>>
      BY <2>1, Zenon DEF ChooseStreets
    <3>2. CASE \E s : input' = <<"network", s>>
      <4>1. input'[1] = "network"
        BY <3>2
      <4> QED BY <4>1 DEF InputsFit, ListsFit, TripsFit, ClassesFit, ToolsFit, ByLayerFits, ByGridFits, FlowFits, EdgeFits, RequestsFit
    <3>3. CASE \E p \in Ordered_places : input' = <<"edge", p>>
      <4>1. PICK p \in Ordered_places : input' = <<"edge", p>>
        BY <3>3
      <4>2. input'[1] = "edge" /\ input'[2] = p
        BY <4>1
      <4> QED BY <4>2, PlacesAreOrdered DEF InputsFit, ListsFit, TripsFit, ClassesFit, ToolsFit, ByLayerFits, ByGridFits, FlowFits, EdgeFits, RequestsFit
    <3> QED BY <3>1, <3>2, <3>3
  <2>2. CASE ChooseTool
    <3>1. \/ \E a : input' = <<"by layer", a>>
          \/ \E a : input' = <<"by grid", a>>
          \/ \E t, j, op : input' = <<"join", t, j, op>>
          \/ \E g, m : input' = <<"flows", g, m>>
      BY <2>2, Zenon DEF ChooseTool
    <3>2. /\ \A a : <<"by layer", a>>[1] = "by layer" /\ <<"by grid", a>>[1] = "by grid"
          /\ \A g, m : <<"flows", g, m>>[1] = "flows"
          /\ \A r, j, op : <<"join", r, j, op>>[1] = "join"
      OBVIOUS
    <3>3. input'[1] \in {"by layer", "by grid", "join", "flows"}
      BY <3>1, <3>2, Zenon
    <3>4. ListsFit' /\ TripsFit' /\ ClassesFit' /\ EdgeFits' /\ RequestsFit'
      BY <3>3 DEF ListsFit, TripsFit, ClassesFit, EdgeFits, RequestsFit
    <3> QED BY <2>2, <3>4, ToolChoicesFit DEF InputsFit
  <2>3. CASE ChooseHeatmap
    <3>1. (\E ls, fence : input' = <<"opportunities", ls, fence>>) \/ \E m : input' = <<"reference", m>>
      BY <2>3, Zenon DEF ChooseHeatmap
    <3>2. input'[1] \in {"opportunities", "reference"}
      BY <3>1
    <3> QED BY <3>2 DEF InputsFit, ListsFit, TripsFit, ClassesFit, ToolsFit, ByLayerFits, ByGridFits, FlowFits, EdgeFits, RequestsFit
  <2>4. CASE ChooseStatistics
    <3>1. \/ \E s, n, op, g, c : input' = <<"chart", s, n, op, g, c>>
          \/ \E v, g, op, o, n : input' = <<"values", v, g, op, o, n>>
          \/ \E v, n : input' = <<"breaks", v, n>>
      BY <2>4, Zenon DEF ChooseStatistics
    <3>2. input'[1] \in {"chart", "values", "breaks"}
      BY <3>1
    <3> QED BY <3>2 DEF InputsFit, ListsFit, TripsFit, ClassesFit, ToolsFit, ByLayerFits, ByGridFits, FlowFits, EdgeFits, RequestsFit
  <2>5. CASE ChooseRequest
    <3>1. \/ \E r : input' = <<"request", r>>
          \/ \E r : input' = <<"stations", r>>
          \/ \E r, s, k : input' = <<"buffer", r, s, k>>
      BY <2>5, Zenon DEF ChooseRequest
    <3>2. input'[1] \in {"request", "stations", "buffer"}
      BY <3>1
    <3> QED BY <2>5, <3>2, RequestChoicesFit DEF InputsFit, ListsFit, TripsFit, ClassesFit, ToolsFit, ByLayerFits, ByGridFits, FlowFits, EdgeFits
  <2> QED BY <1>1, <2>1, <2>2, <2>3, <2>4, <2>5
<1>2. CASE ChooseLists
  <2>1. PICK t \in SharedWith, o \in FewShared, r \in Requests : input' = <<"lists", t, o, r>>
    BY <1>2 DEF ChooseLists
  <2>2. input'[1] = "lists" /\ input'[2] = t /\ input'[3] = o
    BY <2>1
  <2> QED BY <2>2, SharedIsFinite DEF InputsFit, ListsFit, TripsFit, ClassesFit, ToolsFit, ByLayerFits, ByGridFits, FlowFits, EdgeFits, RequestsFit
<1>3. ASSUME NEW s \in Classified, NEW t \in Classified, NEW u \in Classified,
             NEW catchment \in {"buffer", "network"}, input' = <<"classes", {s, t, u}, catchment>>
      PROVE  InputsFit'
  <2>1. \A x \in Classified : x.at \in Int
    BY DEF Classified
  <2>2. input'[1] = "classes" /\ input'[2] = {s, t, u}
    BY <1>3
  <2> QED BY <2>1, <2>2 DEF InputsFit, ListsFit, TripsFit, ClassesFit, ToolsFit, ByLayerFits, ByGridFits, FlowFits, EdgeFits, RequestsFit
<1>4. ChooseStops => InputsFit'
  <2> SUFFICES ASSUME ChooseStops PROVE InputsFit'
    OBVIOUS
  <2>1. CASE \E s, t, u \in Classified, catchment \in {"buffer", "network"} :
                  input' = <<"classes", {s, t, u}, catchment>>
    BY <1>3, <2>1
  <2>2. ASSUME \E area \in {0..5, 0..3}, s1, s2, s3 \in {"a", "b", "c"}, k1, k2, k3 \in Trips,
                t1 \in {419, 420}, t2 \in {540, 541}, routes \in {{1}, {1, 2}} :
               input' = <<"trips", area, {Departure(1, s1, k1, t1), Departure(2, s2, k2, t2),
                                          Departure(3, s3, k3, 500)}, routes>>
        PROVE InputsFit'
    <3>1. PICK area \in {0..5, 0..3}, s1, s2, s3 \in {"a", "b", "c"}, k1, k2, k3 \in Trips,
               t1 \in {419, 420}, t2 \in {540, 541}, routes \in {{1}, {1, 2}} :
                 input' = <<"trips", area, {Departure(1, s1, k1, t1), Departure(2, s2, k2, t2),
                                            Departure(3, s3, k3, 500)}, routes>>
      BY <2>2, Zenon
    <3>2. \A n, s, k, t : Departure(n, s, k, t).time = t
      BY DEF Departure
    <3>3. t1 \in Int /\ t2 \in Int /\ 500 \in Int
      OBVIOUS
    <3> QED BY <3>1, <3>2, <3>3, TripsChosen
  <2> QED BY <2>1, <2>2, Zenon DEF ChooseStops
<1> QED BY <1>1, <1>2, <1>4 DEF ChooseInput

LEMMA InputsKeepFitting == Spec => []InputsFit
<1>1. Init => InputsFit
  BY DEF Init, InputsFit, ListsFit, TripsFit, ClassesFit, ToolsFit, ByLayerFits, ByGridFits, FlowFits, EdgeFits, RequestsFit
<1>2. ASSUME InputsFit, [Next]_<<part, input, scenarioVars, workspaceVars, catchmentVars, isolineVars, filesVars>>
      PROVE  InputsFit'
  <2>1. CASE input' = input
    BY <1>2, <2>1 DEF InputsFit, ListsFit, TripsFit, ClassesFit, ToolsFit, ByLayerFits, ByGridFits, FlowFits, EdgeFits, RequestsFit
  <2>2. ChooseInput \/ input' = input
    BY <1>2, Zenon DEF Next
  <2> QED BY <2>1, <2>2, ChoicesFit
<1> QED BY <1>1, <1>2, PTL DEF Spec

(* Features carry lines of points. *)
LEMMA ScenariosFit == ASSUME NEW fs \in MCScenarios PROVE ScenarioFits(fs)
<1>1. /\ \A a, b \in Nat \ {0} : Line(<<a, b>>)
      /\ \A a, b, c \in Nat \ {0} : Line(<<a, b, c>>)
  BY DEF Line
<1>2. \A p \in DrawnLines : Line(p)
  <2> TAKE p \in DrawnLines
  <2>1. \/ \E a, b \in 1..7 : p = <<a, b>>
        \/ \E a \in {1, 2, 7}, b \in {3, 4, 7}, c \in {2, 5, 6} : p = <<a, b, c>>
    BY DEF DrawnLines
  <2>2. \A x : x \in 1..7 \/ x \in {1, 2, 7} \/ x \in {3, 4, 7} \/ x \in {2, 5, 6} => x \in Nat \ {0}
    OBVIOUS
  <2> QED BY <1>1, <2>1, <2>2
<1>3. ASSUME NEW f, f \in FirstFeatures \cup SecondFeatures
      PROVE  f.edit \in {"n", "m", "d"} /\ Line(f.path)
  <2>1. \A i, original, edit, p : /\ MCFeature(i, original, edit, p).edit = edit
                                 /\ MCFeature(i, original, edit, p).path = p
    BY DEF MCFeature
  <2>2. \A s \in Streets : Line(s.path)
    BY StreetsAssumption
  <2>3. CASE \E p \in DrawnLines : f = MCFeature(1, Drawing, "n", p)
    BY <1>2, <2>1, <2>3
  <2>4. CASE \E s \in Streets, edit \in {"d", "m"} : f = MCFeature(1, s.id, edit, s.path)
    BY <2>1, <2>2, <2>4
  <2>5. CASE \E p \in {<<1, 7, 3>>, <<1, 7>>, <<1, 2, 7>>, <<1, 4>>} : f = MCFeature(1, e1, "m", p)
    <3>1. \A p \in {<<1, 7, 3>>, <<1, 7>>, <<1, 2, 7>>, <<1, 4>>} : Line(p)
      BY <1>1
    <3> QED BY <2>1, <2>5, <3>1
  <2>6. CASE \E p \in {<<2, 4>>, <<2, 7>>, <<3, 7, 4>>, <<2, 6>>, <<1, 3>>} : f = MCFeature(2, Drawing, "n", p)
    <3>1. \A p \in {<<2, 4>>, <<2, 7>>, <<3, 7, 4>>, <<2, 6>>, <<1, 3>>} : Line(p)
      BY <1>1
    <3> QED BY <2>1, <2>6, <3>1
  <2>7. CASE f \in {MCFeature(2, e1, "m", <<7, 2, 3>>), MCFeature(2, e2, "m", <<3, 4, 5>>),
                    MCFeature(2, e3, "d", <<3, 6>>)}
    BY <1>1, <2>1, <2>7
  <2> QED BY <1>3, <2>3, <2>4, <2>5, <2>6, <2>7 DEF FirstFeatures, SecondFeatures
<1>4. \A f \in fs : f \in FirstFeatures \cup SecondFeatures
  <2>1. CASE \E f \in FirstFeatures : fs = {f}
    BY <2>1
  <2>2. CASE \E x \in FirstFeatures \X SecondFeatures : fs = {x[1], x[2]}
    BY <2>2
  <2> QED BY <2>1, <2>2 DEF MCScenarios
<1> QED BY <1>3, <1>4 DEF ScenarioFits

(* Which kind of input each part chooses. *)
LEMMA KindsOfChoice ==
  ASSUME ChooseInput
  PROVE  /\ \/ ChooseStreets
            \/ input'[1] \in {"by layer", "by grid", "join", "flows"}
            \/ ChooseHeatmap
            \/ ChooseStatistics
            \/ input'[1] \in {"classes", "trips", "lists", "request", "stations", "buffer"}
         /\ ChooseStatistics => input'[1] \in {"chart", "values", "breaks"}
<1>1. ASSUME ChooseTool PROVE input'[1] \in {"by layer", "by grid", "join", "flows"}
  <2>1. \/ \E a : input' = <<"by layer", a>>
        \/ \E a : input' = <<"by grid", a>>
        \/ \E t, j, op : input' = <<"join", t, j, op>>
        \/ \E g, m : input' = <<"flows", g, m>>
    BY <1>1, Zenon DEF ChooseTool
  <2>2. /\ \A a : <<"by layer", a>>[1] = "by layer" /\ <<"by grid", a>>[1] = "by grid"
        /\ \A g, m : <<"flows", g, m>>[1] = "flows"
        /\ \A r, j, op : <<"join", r, j, op>>[1] = "join"
    OBVIOUS
  <2> QED BY <2>1, <2>2, Zenon
<1>2. ASSUME ChooseStops PROVE input'[1] \in {"classes", "trips"}
  <2>1. CASE \E s, t, u \in Classified, catchment \in {"buffer", "network"} :
                  input' = <<"classes", {s, t, u}, catchment>>
    BY <2>1
  <2>2. CASE \E area \in {0..5, 0..3}, s1, s2, s3 \in {"a", "b", "c"}, k1, k2, k3 \in Trips,
                t1 \in {419, 420}, t2 \in {540, 541}, routes \in {{1}, {1, 2}} :
               input' = <<"trips", area, {Departure(1, s1, k1, t1), Departure(2, s2, k2, t2),
                                          Departure(3, s3, k3, 500)}, routes>>
    BY <2>2
  <2> QED BY <1>2, <2>1, <2>2, Zenon DEF ChooseStops
<1>3. ASSUME ChooseLists PROVE input'[1] \in {"lists"}
  <2>1. \E t, o, r : input' = <<"lists", t, o, r>>
    BY <1>3, Zenon DEF ChooseLists
  <2> QED BY <2>1
<1>4. ASSUME ChooseStatistics PROVE input'[1] \in {"chart", "values", "breaks"}
  <2>1. \/ \E s, n, op, g, c : input' = <<"chart", s, n, op, g, c>>
        \/ \E v, g, op, o, n : input' = <<"values", v, g, op, o, n>>
        \/ \E v, n : input' = <<"breaks", v, n>>
    BY <1>4, Zenon DEF ChooseStatistics
  <2> QED BY <2>1
<1>5. ASSUME ChooseRequest PROVE input'[1] \in {"request", "stations", "buffer"}
  <2>1. \/ \E r : input' = <<"request", r>>
        \/ \E r : input' = <<"stations", r>>
        \/ \E r, s, k : input' = <<"buffer", r, s, k>>
    BY <1>5, Zenon DEF ChooseRequest
  <2> QED BY <2>1
<1>6. ChooseStreets \/ ChooseTool \/ ChooseHeatmap \/ ChooseStops \/ ChooseLists \/ ChooseStatistics \/ ChooseRequest
  BY DEF ChooseInput
<1> QED BY <1>1, <1>2, <1>3, <1>4, <1>5, <1>6

LEMMA KindsOfInput ==
  ASSUME ChooseInput
  PROVE  \/ ChooseStreets
         \/ input'[1] \in {"by layer", "by grid", "join", "flows"}
         \/ ChooseHeatmap
         \/ input'[1] \in {"classes", "trips", "lists", "chart", "values", "breaks", "request", "stations", "buffer"}
BY KindsOfChoice

LEMMA NetworkKeepsFitting == Spec => []NetworkFits
<1>1. Init => NetworkFits
  BY DEF Init, NetworkFits
<1>2. ASSUME ChooseInput PROVE NetworkFits'
  <2>1. CASE input'[1] # "network"
    BY <2>1 DEF NetworkFits
  <2>11. CASE \/ input'[1] \in {"by layer", "by grid", "join", "flows"}
              \/ input'[1] \in {"classes", "trips", "lists", "chart", "values", "breaks", "request", "stations", "buffer"}
    BY <2>1, <2>11
  <2>2. CASE ChooseStreets
    <3>1. (\E s \in MCScenarios : input' = <<"network", s>>) \/ \E p : input' = <<"edge", p>>
      BY <2>2, Zenon DEF ChooseStreets
    <3>2. CASE \E p : input' = <<"edge", p>>
      BY <2>1, <3>2
    <3>3. CASE \E s \in MCScenarios : input' = <<"network", s>>
      <4>1. PICK s \in MCScenarios : input' = <<"network", s>>
        BY <3>3
      <4>2. input'[2] = s
        BY <4>1
      <4> QED BY <4>2, ScenariosFit DEF NetworkFits
    <3> QED BY <3>1, <3>2, <3>3
  <2>3. CASE ChooseHeatmap
    <3>1. (\E ls, fence : input' = <<"opportunities", ls, fence>>) \/ \E m : input' = <<"reference", m>>
      BY <2>3, Zenon DEF ChooseHeatmap
    <3> QED BY <2>1, <3>1
  <2> QED BY <1>2, <2>11, <2>2, <2>3, KindsOfInput
<1>3. ASSUME NetworkFits, [Next]_<<part, input, scenarioVars, workspaceVars, catchmentVars, isolineVars, filesVars>>
      PROVE  NetworkFits'
  <2>1. CASE input' = input
    BY <1>3, <2>1 DEF NetworkFits
  <2>2. ChooseInput \/ input' = input
    BY <1>3, Zenon DEF Next
  <2> QED BY <1>2, <2>1, <2>2
<1> QED BY <1>1, <1>3, PTL DEF Spec

(* Layers of opportunities are small, and what they offer is a number.     *)
LEMMA PlacesAreValued ==
  ASSUME NEW l, IsFiniteSet(l.features), IsFiniteSet(l.edits), \A f \in l.features : f.value \in Nat,
         \A e \in l.edits : \E i \in Nat : \E at, whole, inside : e.feature = MCPlace(i, at, whole, inside)
  PROVE  IsFiniteSet(Opportunities(l)) /\ \A f \in Opportunities(l) : f.value \in Nat
<1> DEFINE kept == {f \in l.features : \A e \in l.edits : e.origin # f.id}
           made == {d \in l.edits : d.edit \in {"n", "m"}}
           as == [e \in made |-> [e.feature EXCEPT !.id = e.origin]]
           drawn == {as[e] : e \in made}
<1>1. Opportunities(l) = kept \cup drawn
  BY DEF Opportunities, Overlaid
<1>2. IsFiniteSet(kept) /\ IsFiniteSet(made)
  BY FS_Subset
<1>3. IsFiniteSet(drawn)
  <2> HIDE DEF as, made
  <2> QED BY <1>2, ImageIsFinite
<1>4. \A f \in kept : f.value \in Nat
  OBVIOUS
<1>5. ASSUME NEW e \in made PROVE as[e].value \in Nat
  <2>1. PICK i \in Nat : \E at, whole, inside : e.feature = MCPlace(i, at, whole, inside)
    OBVIOUS
  <2>2. PICK at, whole, inside : e.feature = MCPlace(i, at, whole, inside)
    BY <2>1
  <2>3. as[e] = [e.feature EXCEPT !.id = e.origin]
    OBVIOUS
  <2>4. \A o : [MCPlace(i, at, whole, inside) EXCEPT !.id = o].value = i
    BY DEF MCPlace
  <2> HIDE DEF as, made
  <2> QED BY <2>2, <2>3, <2>4
<1>6. \A f \in drawn : f.value \in Nat
  <2> HIDE DEF as, made
  <2> QED BY <1>5
<1>7. IsFiniteSet(kept \cup drawn)
  <2> HIDE DEF kept, drawn
  <2> QED BY <1>2, <1>3, FS_Union
<1> HIDE DEF kept, drawn
<1> QED BY <1>1, <1>4, <1>6, <1>7

LEMMA PointLayersFit == ASSUME NEW l \in PointLayers PROVE HeatLayerFits(l)
<1> DEFINE gone == MCPlace(8, {3}, {3}, {})
           new == MCPlace(8, {1}, {1}, {})
           d1 == MCEdit(1, "d", gone)
           d2 == MCEdit(Null, "n", new)
           of(p, q, limit, n, e) == MCLayer({MCPlace(1, {p}, {p}, {}), MCPlace(2, {q}, {q}, {})}, e, limit, n, 1, FALSE)
<1>1. PointLayers = {of(p, q, limit, n, e) : p \in {0, 1, 3}, q \in {0, 3}, limit \in {3, 5}, n \in 1..2,
                                             e \in {{}, {d1}, {d2}}}
  BY DEF PointLayers, MCPointAt
<1>2. d1.feature = gone /\ d2.feature = new
  BY EditIs
<1>3. \A i, at, whole, inside : MCPlace(i, at, whole, inside).value = i
  BY DEF MCPlace
<1> HIDE DEF of, d1, d2
<1>4. PICK p \in {0, 1, 3}, q \in {0, 3}, limit \in {3, 5}, n \in 1..2, e \in {{}, {d1}, {d2}} :
        l = of(p, q, limit, n, e)
  BY <1>1
<1>5. PICK first, second : first = MCPlace(1, {p}, {p}, {}) /\ second = MCPlace(2, {q}, {q}, {})
  OBVIOUS
<1>6. /\ l.features = {first, second} /\ l.edits = e
      /\ l.max_traveltime = limit /\ l.n = n /\ l.sensitivity = 1
  <2>1. PICK fs, one, no : fs = {first, second} /\ one = 1 /\ no = FALSE
    OBVIOUS
  <2>2. l = MCLayer(fs, e, limit, n, one, no)
    BY <1>4, <1>5, <2>1, Zenon DEF of
  <2>3. l.features = fs /\ l.edits = e /\ l.max_traveltime = limit /\ l.n = n /\ l.sensitivity = one
    BY ONLY <2>2 DEF MCLayer
  <2> QED BY <2>1, <2>3
<1>7. \A f \in l.features : f.value \in Nat
  BY <1>3, <1>5, <1>6
<1>8. \A d \in l.edits : \E i \in Nat : \E at, whole, inside : d.feature = MCPlace(i, at, whole, inside)
  <2>1. \A d \in l.edits : d.feature = gone \/ d.feature = new
    <3> HIDE DEF gone, new
    <3> QED BY <1>2, <1>6
  <2>2. 8 \in Nat
    OBVIOUS
  <2> QED BY <2>1, <2>2, Zenon
<1>9. IsFiniteSet(l.features) /\ IsFiniteSet(l.edits)
  <2>1. IsFiniteSet({first, second})
    BY ONLY TwoAreFinite
  <2>2. e = {} \/ e = {d1} \/ e = {d2}
    OBVIOUS
  <2>3. IsFiniteSet(e)
    BY Zenon, <2>2, FewAreFinite
  <2> QED BY <1>6, <2>1, <2>3
<1>10. IsFiniteSet(Opportunities(l)) /\ \A f \in Opportunities(l) : f.value \in Nat
  BY <1>7, <1>8, <1>9, PlacesAreValued
<1> QED BY <1>6, <1>10 DEF HeatLayerFits

LEMMA PolygonLayersFit == ASSUME NEW l \in PolygonLayers PROVE HeatLayerFits(l)
<1> DEFINE place(i, o) == MCPlace(i, o[1], o[2], o[3])
           one(o, n) == MCLayer({place(4, o)}, {}, 4, n, 2, TRUE)
           two(o, q) == MCLayer({place(4, o), place(5, q)}, {}, 4, 1, 2, TRUE)
<1>1. PolygonLayers = {one(o, n) : o \in Outlines, n \in {1, 3}} \cup {two(o, q) : o \in Outlines, q \in Outlines}
  BY DEF PolygonLayers
<1>2. \A i, o : place(i, o).value = i
  BY DEF MCPlace
<1>3. /\ \A o, n : /\ one(o, n).features = {place(4, o)} /\ one(o, n).edits = {}
                   /\ one(o, n).max_traveltime = 4 /\ one(o, n).n = n /\ one(o, n).sensitivity = 2
      /\ \A o, q : /\ two(o, q).features = {place(4, o), place(5, q)} /\ two(o, q).edits = {}
                   /\ two(o, q).max_traveltime = 4 /\ two(o, q).n = 1 /\ two(o, q).sensitivity = 2
  <2> HIDE DEF place
  <2>1. /\ \A o, n : one(o, n) = MCLayer({place(4, o)}, {}, 4, n, 2, TRUE)
        /\ \A o, q : two(o, q) = MCLayer({place(4, o), place(5, q)}, {}, 4, 1, 2, TRUE)
    OBVIOUS
  <2> HIDE DEF one, two
  <2>2. ASSUME NEW o, NEW n
        PROVE  /\ one(o, n).features = {place(4, o)} /\ one(o, n).edits = {}
               /\ one(o, n).max_traveltime = 4 /\ one(o, n).n = n /\ one(o, n).sensitivity = 2
    <3>1. PICK k, fs : k = one(o, n) /\ fs = {place(4, o)}
      OBVIOUS
    <3>2. k = MCLayer(fs, {}, 4, n, 2, TRUE)
      BY <2>1, <3>1, Zenon
    <3>3. k.features = fs /\ k.edits = {} /\ k.max_traveltime = 4 /\ k.n = n /\ k.sensitivity = 2
      BY ONLY <3>2 DEF MCLayer
    <3> QED BY ONLY <3>1, <3>3, Zenon
  <2>3. ASSUME NEW o, NEW q
        PROVE  /\ two(o, q).features = {place(4, o), place(5, q)} /\ two(o, q).edits = {}
               /\ two(o, q).max_traveltime = 4 /\ two(o, q).n = 1 /\ two(o, q).sensitivity = 2
    <3>1. PICK k, fs : k = two(o, q) /\ fs = {place(4, o), place(5, q)}
      OBVIOUS
    <3>2. k = MCLayer(fs, {}, 4, 1, 2, TRUE)
      BY <2>1, <3>1, Zenon
    <3>3. k.features = fs /\ k.edits = {} /\ k.max_traveltime = 4 /\ k.n = 1 /\ k.sensitivity = 2
      BY ONLY <3>2 DEF MCLayer
    <3> QED BY ONLY <3>1, <3>3, Zenon
  <2> QED BY <2>2, <2>3, Zenon
<1> HIDE DEF place, one, two
<1>4. /\ l.edits = {} /\ l.max_traveltime = 4 /\ l.n \in Nat /\ l.sensitivity = 2
      /\ \E o, q : l.features = {place(4, o)} \/ l.features = {place(4, o), place(5, q)}
  BY <1>1, <1>3
<1>5. PICK o, q : l.features = {place(4, o)} \/ l.features = {place(4, o), place(5, q)}
  BY <1>4
<1>6. \A f \in l.features : f.value \in Nat
  BY <1>2, <1>5
<1>7. IsFiniteSet(l.features) /\ IsFiniteSet(l.edits)
  <2>1. IsFiniteSet(l.features)
    BY Zenon, <1>5, FewAreFinite
  <2> QED BY <1>4, <2>1, FS_EmptySet
<1>8. IsFiniteSet(Opportunities(l)) /\ \A f \in Opportunities(l) : f.value \in Nat
  BY <1>4, <1>6, <1>7, PlacesAreValued
<1> QED BY <1>4, <1>8 DEF HeatLayerFits

LEMMA OffersOfTheRunFit ==
  ASSUME NEW sources, IsFiniteSet(sources), \A l \in sources : HeatLayerFits(l), NEW fence
  PROVE  OffersFit(sources, fence)
<1> SUFFICES ASSUME NEW d \in Range(HexOf), NEW x \in OpportunitiesOf(sources),
                    NEW v \in OfferOf(sources, fence, x, d)
             PROVE  v \in Nat
  BY DEF OffersFit, OfferOf
<1>1. x[1] \in sources /\ x[2] \in Opportunities(x[1])
  BY OfLayers
<1>2. /\ x[1].max_traveltime \in 3..5 /\ x[1].sensitivity \in 1..2 /\ x[2].value \in Nat
  BY <1>1 DEF HeatLayerFits
<1>3. PICK longest : longest = Longest(sources) /\ longest \in 3..5 /\ x[1].max_traveltime <= longest
  <2> DEFINE limit == [l \in sources |-> l.max_traveltime]
             limits == {limit[l] : l \in sources}
  <2>1. limits = {l.max_traveltime : l \in sources} /\ x[1].max_traveltime \in limits
    BY <1>1
  <2>2. limits \in SUBSET (3..5)
    BY DEF HeatLayerFits
  <2>3. IsFiniteSet(limits)
    <3> HIDE DEF limit
    <3> QED BY ImageIsFinite
  <2> HIDE DEF limits, limit
  <2>4. Max(limits) \in limits /\ \A y \in limits : y <= Max(limits)
    <3>1. limits \in SUBSET Int /\ limits # {}
      BY <2>1, <2>2
    <3> QED BY <2>3, <3>1, GreatestIs
  <2> QED BY <2>1, <2>2, <2>4 DEF Longest
<1>4. PICK t \in 0..5 : t <= longest /\ v = Worth(sources, t, x)
  <2>1. CASE x \in ReachedOf(sources, fence, d) /\ v = Worth(sources, TimeOf(x, fence, d), x)
    <3>1. x[2] \in Reached(x[1], fence, d)
      BY <2>1 DEF ReachedOf
    <3>2. TimeOf(x, fence, d) \in Nat /\ TimeOf(x, fence, d) <= x[1].max_traveltime
      BY <3>1, TimeToIs DEF TimeOf
    <3>3. PICK t : t = TimeOf(x, fence, d)
      OBVIOUS
    <3>4. t \in 0..5 /\ t <= longest
      BY <1>2, <1>3, <3>2, <3>3
    <3> QED BY <2>1, <3>3, <3>4
  <2>2. CASE v = Worth(sources, 1, x)
    <3>1. 1 \in 0..5 /\ 1 <= longest
      BY <1>3
    <3> QED BY <2>2, <3>1
  <2> QED BY <2>1, <2>2, OffersAre
<1>5. Impedance(t, x[1].sensitivity, longest) \in Nat
  BY <1>2, <1>3, <1>4, ImpedanceAssumption
<1>6. v = Impedance(t, x[1].sensitivity, longest) * x[2].value
  BY <1>3, <1>4 DEF Worth
<1>7. \A a, b \in Nat : a * b \in Nat
  OBVIOUS
<1> QED BY <1>2, <1>5, <1>6, <1>7

LEMMA HeatmapKeepsFitting == Spec => []HeatmapFits
<1>1. Init => HeatmapFits
  BY DEF Init, HeatmapFits
<1>2. ASSUME ChooseInput PROVE HeatmapFits'
  <2>1. CASE ChooseHeatmap
    <3>1. \/ \E l \in PointLayers, m \in PolygonLayers, fence \in Fences :
               \E ls \in {{l}, {m}, {l, m}} : input' = <<"opportunities", ls, fence>>
          \/ \E m \in PolygonLayers : input' = <<"reference", m>>
      BY <2>1, Zenon DEF ChooseHeatmap
    <3>2. CASE \E m \in PolygonLayers : input' = <<"reference", m>>
      <4>1. PICK m \in PolygonLayers : input' = <<"reference", m>>
        BY <3>2
      <4>2. input'[1] = "reference" /\ input'[2] = m
        BY <4>1
      <4> QED BY <4>2, PointLayersFit, PolygonLayersFit DEF HeatmapFits
    <3>3. CASE \E l \in PointLayers, m \in PolygonLayers, fence \in Fences :
                 \E ls \in {{l}, {m}, {l, m}} : input' = <<"opportunities", ls, fence>>
      <4>1. PICK l \in PointLayers, m \in PolygonLayers, fence \in Fences :
              \E ls \in {{l}, {m}, {l, m}} : input' = <<"opportunities", ls, fence>>
        BY <3>3
      <4>2. PICK ls \in {{l}, {m}, {l, m}} : input' = <<"opportunities", ls, fence>>
        BY <4>1
      <4>3. input'[1] = "opportunities" /\ input'[2] = ls
        BY <4>2
      <4>4. \A k \in ls : k = l \/ k = m
        OBVIOUS
      <4>5. IsFiniteSet(ls)
        <5>1. ls = {l} \/ ls = {m} \/ ls = {l, m}
          BY <4>2
        <5>2. IsFiniteSet({l}) /\ IsFiniteSet({m}) /\ IsFiniteSet({l, m})
          BY ONLY FewAreFinite, Zenon
        <5> QED BY ONLY <5>1, <5>2
      <4> QED BY <4>3, <4>4, <4>5, PointLayersFit, PolygonLayersFit DEF HeatmapFits
    <3> QED BY <3>1, <3>2, <3>3
  <2>2. CASE ChooseStreets
    <3>1. (\E s : input' = <<"network", s>>) \/ \E p : input' = <<"edge", p>>
      BY <2>2, Zenon DEF ChooseStreets
    <3>2. input'[1] \in {"network", "edge"}
      BY <3>1
    <3> QED BY <3>2 DEF HeatmapFits
  <2>3. CASE \/ input'[1] \in {"by layer", "by grid", "join", "flows"}
             \/ input'[1] \in {"classes", "trips", "lists", "chart", "values", "breaks", "request", "stations", "buffer"}
    BY <2>3 DEF HeatmapFits
  <2> QED BY <1>2, <2>1, <2>2, <2>3, KindsOfInput
<1>3. ASSUME HeatmapFits, [Next]_<<part, input, scenarioVars, workspaceVars, catchmentVars, isolineVars, filesVars>>
      PROVE  HeatmapFits'
  <2>1. CASE input' = input
    BY <1>3, <2>1 DEF HeatmapFits
  <2>2. ChooseInput \/ input' = input
    BY <1>3, Zenon DEF Next
  <2> QED BY <1>2, <2>1, <2>2
<1> QED BY <1>1, <1>3, PTL DEF Spec

(* What figures are asked of: columns of numbers and NULLs, and areas and  *)
(* sources that fit.                                                       *)
FiguresFit ==
  /\ input[1] = "chart" =>
       /\ ChartFits(ChartAreas, input[2], input[4])
       /\ input[5] \in BOOLEAN /\ input[6] \in BOOLEAN
  /\ input[1] = "values" =>
       /\ IsColumn(input[2]) /\ DOMAIN input[3] = DOMAIN input[2]
       /\ input[6] \in Nat \ {0}
  /\ input[1] = "breaks" => IsColumn(input[2]) /\ input[3] \in Nat \ {0}

LEMMA ChartInputsFit ==
  ASSUME NEW s \in ChartSources, NEW op \in {"sum", "max", "count"}
  PROVE  ChartFits(ChartAreas, s, op)
<1>1. IsFiniteSet(ChartAreas)
  BY ThreeAreFinite, Zenon DEF ChartAreas
<1>2. /\ \A a \in ChartAreas : a.x \in Int
      /\ \A a, b \in ChartAreas : a.id = b.id => a = b
  BY DEF ChartAreas
<1>3. PICK f \in UNION {[1..n -> {1, 2, 3} \X {"g", "h"} \X {1, 2}] : n \in 0..2} :
        s = {[row |-> i, area |-> f[i][1], group |-> f[i][2], value |-> f[i][3]] : i \in DOMAIN f}
  BY DEF ChartSources
<1>4. PICK n \in 0..2 : f \in [1..n -> {1, 2, 3} \X {"g", "h"} \X {1, 2}]
  BY <1>3
<1>5. DOMAIN f = 1..n /\ \A i \in 1..n : f[i] \in {1, 2, 3} \X {"g", "h"} \X {1, 2}
  BY <1>4
<1>6. PICK h : h = [i \in 1..n |-> [row |-> i, area |-> f[i][1], group |-> f[i][2], value |-> f[i][3]]]
  OBVIOUS
<1>7. s = {h[i] : i \in 1..n}
  BY ONLY <1>3, <1>5, <1>6
<1>8. IsFiniteSet(s)
  <2>1. PICK one : one = 1
    OBVIOUS
  <2>2. one \in Int /\ n \in Int
    BY <2>1
  <2>3. IsFiniteSet(one..n)
    BY ONLY <2>2, FS_Interval
  <2>4. IsFiniteSet(1..n)
    BY ONLY <2>1, <2>3
  <2> QED BY ONLY <1>7, <2>4, ImageIsFinite
<1>9. ASSUME NEW i \in 1..n PROVE h[i].value \in Int /\ h[i].group # "all"
  <2>1. f[i][2] \in {"g", "h"} /\ f[i][3] \in {1, 2}
    BY ONLY <1>5, i \in 1..n
  <2>2. h[i].group = f[i][2] /\ h[i].value = f[i][3]
    BY ONLY <1>6, i \in 1..n
  <2> QED BY <2>1, <2>2
<1>10. \A x \in s : x.value \in Int /\ x.group # "all"
  BY ONLY <1>7, <1>9
<1>11. op \in {"count", "sum", "min", "max"}
  OBVIOUS
<1> QED BY ONLY <1>1, <1>2, <1>8, <1>10, <1>11 DEF ChartFits

LEMMA ColumnsFit ==
  /\ \A v \in Columns : IsColumn(v)
  /\ \A v \in [1..3 -> {Null, 1, 2}] : IsColumn(v)
<1>1. ASSUME NEW n \in Nat, NEW values \in SUBSET (Int \cup {Null}), NEW v \in [1..n -> values]
      PROVE  IsColumn(v)
  <2>1. v \in [1..n -> Int \cup {Null}]
    OBVIOUS
  <2> QED BY <2>1 DEF IsColumn
<1>2. ASSUME NEW v \in Columns PROVE IsColumn(v)
  <2>1. PICK n \in 1..4 : v \in [1..n -> {Null, 0, 1, 3, 4}]
    BY DEF Columns
  <2>2. PICK values : values = {Null, 0, 1, 3, 4}
    OBVIOUS
  <2>3. n \in Nat /\ values \in SUBSET (Int \cup {Null}) /\ v \in [1..n -> values]
    BY <2>1, <2>2
  <2> QED BY ONLY <1>1, <2>3
<1>3. ASSUME NEW v \in [1..3 -> {Null, 1, 2}] PROVE IsColumn(v)
  <2>1. PICK n : n = 3
    OBVIOUS
  <2>2. PICK values : values = {Null, 1, 2}
    OBVIOUS
  <2>3. n \in Nat /\ values \in SUBSET (Int \cup {Null}) /\ v \in [1..n -> values]
    BY <2>1, <2>2
  <2> QED BY ONLY <1>1, <2>3
<1> QED BY <1>2, <1>3

LEMMA FiguresKeepFitting == Spec => []FiguresFit
<1>1. Init => FiguresFit
  BY DEF Init, FiguresFit
<1>2. ASSUME ChooseInput PROVE FiguresFit'
  <2>1. CASE ChooseStatistics
    <3>1. \/ \E s \in ChartSources, n \in {{}, {0}, {2}}, op \in {"sum", "max", "count"}, g, c \in BOOLEAN :
               input' = <<"chart", s, n, op, g, c>>
          \/ \E v \in [1..3 -> {Null, 1, 2}], g \in [1..3 -> {1, 2}], op \in {"sum", "max"},
                o \in {"descendent", "ascendent"}, n \in 1..2 :
               input' = <<"values", v, g, op, o, n>>
          \/ \E v \in Columns, n \in 1..3 : input' = <<"breaks", v, n>>
      BY <2>1, Zenon DEF ChooseStatistics
    <3>2. CASE \E s \in ChartSources, n \in {{}, {0}, {2}}, op \in {"sum", "max", "count"}, g, c \in BOOLEAN :
                 input' = <<"chart", s, n, op, g, c>>
      <4>1. PICK s \in ChartSources, n \in {{}, {0}, {2}}, op \in {"sum", "max", "count"}, g, c \in BOOLEAN :
              input' = <<"chart", s, n, op, g, c>>
        BY <3>2
      <4>2. /\ input'[1] = "chart" /\ input'[2] = s /\ input'[4] = op
            /\ input'[5] \in BOOLEAN /\ input'[6] \in BOOLEAN
        BY <4>1
      <4> QED BY <4>2, ChartInputsFit DEF FiguresFit
    <3>3. CASE \E v \in [1..3 -> {Null, 1, 2}], g \in [1..3 -> {1, 2}], op \in {"sum", "max"},
                 o \in {"descendent", "ascendent"}, n \in 1..2 :
                 input' = <<"values", v, g, op, o, n>>
      <4>1. PICK v \in [1..3 -> {Null, 1, 2}], g \in [1..3 -> {1, 2}], op \in {"sum", "max"},
              o \in {"descendent", "ascendent"}, n \in 1..2 :
              input' = <<"values", v, g, op, o, n>>
        BY <3>3
      <4>2. input'[1] = "values" /\ input'[2] = v /\ input'[3] = g /\ input'[6] = n
        BY <4>1
      <4>3. DOMAIN g = DOMAIN v /\ n \in Nat \ {0}
        OBVIOUS
      <4> QED BY <4>2, <4>3, ColumnsFit DEF FiguresFit
    <3>4. CASE \E v \in Columns, n \in 1..3 : input' = <<"breaks", v, n>>
      <4>1. PICK v \in Columns, n \in 1..3 : input' = <<"breaks", v, n>>
        BY <3>4
      <4>2. input'[1] = "breaks" /\ input'[2] = v /\ input'[3] = n
        BY <4>1
      <4> QED BY <4>2, ColumnsFit DEF FiguresFit
    <3> QED BY <3>1, <3>2, <3>3, <3>4
  <2>2. CASE ChooseStreets
    <3>1. (\E s : input' = <<"network", s>>) \/ \E p : input' = <<"edge", p>>
      BY <2>2, Zenon DEF ChooseStreets
    <3>2. input'[1] \in {"network", "edge"}
      BY <3>1
    <3> QED BY <3>2 DEF FiguresFit
  <2>3. CASE ChooseHeatmap
    <3>1. (\E ls, fence : input' = <<"opportunities", ls, fence>>) \/ \E m : input' = <<"reference", m>>
      BY <2>3, Zenon DEF ChooseHeatmap
    <3>2. input'[1] \in {"opportunities", "reference"}
      BY <3>1
    <3> QED BY <3>2 DEF FiguresFit
  <2>4. CASE input'[1] \in {"by layer", "by grid", "join", "flows", "classes", "trips", "lists",
                            "request", "stations", "buffer"}
    BY <2>4 DEF FiguresFit
  <2> QED BY <1>2, <2>1, <2>2, <2>3, <2>4, KindsOfChoice
<1>3. ASSUME FiguresFit, [Next]_<<part, input, scenarioVars, workspaceVars, catchmentVars, isolineVars, filesVars>>
      PROVE  FiguresFit'
  <2>1. CASE input' = input
    BY <1>3, <2>1 DEF FiguresFit
  <2>2. ChooseInput \/ input' = input
    BY <1>3, Zenon DEF Next
  <2> QED BY <1>2, <2>1, <2>2
<1> QED BY <1>1, <1>3, PTL DEF Spec

(* Whatever the run asks figures of, charts are of the sources, values and *)
(* groups are listed by rank, and classes and bins cover the values        *)
(* (core/chart.py, crud_layer.py and the *_breaks functions).              *)
THEOREM FiguresOfTheRunAreExact == Spec => []FiguresAreExact
<1>1. ASSUME FiguresFit PROVE FiguresAreExact
  <2>1. ASSUME input[1] = "chart"
        PROVE  ChartIsOfTheSources(ChartAreas, input[3], input[2], input[4], input[5], input[6])
    BY <1>1, <2>1, AnyChartIsOfTheSources DEF FiguresFit
  <2>2. ASSUME input[1] = "values"
        PROVE  ValuesAreRanked(input[2], input[3], input[4], input[5], input[6])
    BY <1>1, <2>2, AnyValuesAreRanked DEF FiguresFit
  <2>3. ASSUME input[1] = "breaks" PROVE BreaksSplitTheValues(input[2], input[3])
    BY <1>1, <2>3, AnyBreaksSplitTheValues DEF FiguresFit
  <2> QED BY <2>1, <2>2, <2>3 DEF FiguresAreExact
<1> QED BY <1>1, FiguresKeepFitting, PTL

(* The lists of core/content.py hold each content once, whatever is chosen.*)
THEOREM ListsOfTheRunAreExact == Spec => []ListsAreExact
<1>1. ASSUME InputsFit PROVE ListsAreExact
  BY <1>1, ContentsAreFinite, AnyListIsExact DEF InputsFit, ListsFit, ListsAreExact
<1> QED BY <1>1, InputsKeepFitting, PTL

(* Whatever the edits drawn in the run, the modified network of            *)
(* produce_network_modifications is what was left and drawn, and joined.   *)
THEOREM ModifiedNetworkOfTheRunIsDrawn == Spec => []ModifiedNetworkIsDrawn
<1>1. ASSUME NetworkFits PROVE ModifiedNetworkIsDrawn
  BY <1>1, AnyNetworkIsWhatWasDrawn, AnyNetworkIsConnected DEF NetworkFits, ModifiedNetworkIsDrawn
<1> QED BY <1>1, NetworkKeepsFitting, PTL

(* Whatever layers the run asks a heatmap of, each cell is worth what it   *)
(* can reach (crud_heatmap_*.py).                                          *)
THEOREM HeatmapsOfTheRunAreExact == Spec => []HeatmapIsExact
<1>1. ASSUME HeatmapFits PROVE HeatmapIsExact
  <2>1. CASE input[1] = "opportunities"
    <3>1. LayersFit(input[2])
      BY <1>1, <2>1 DEF HeatmapFits, HeatLayerFits, LayersFit
    <3>2. OffersFit(input[2], input[3])
      BY <1>1, <2>1, OffersOfTheRunFit DEF HeatmapFits
    <3> QED BY <2>1, <3>1, <3>2, AnyClosestAverageIsExact, AnyGravityIsBounded DEF HeatmapIsExact
  <2>2. CASE input[1] = "reference"
    <3>1. IsFiniteSet(Opportunities(input[2]))
      BY <1>1, <2>2 DEF HeatmapFits, HeatLayerFits
    <3> QED BY <2>2, <3>1, AnyConnectivityIsExact DEF HeatmapIsExact
  <2> QED BY <2>1, <2>2 DEF HeatmapIsExact
<1> QED BY <1>1, HeatmapKeepsFitting, PTL


(* What the run asks of the tools of crud_geoanalysis.py,                  *)
(* crud_data_management.py and of origin and destination: every feature    *)
(* counts once, and joined rows and flows are what the tables say.         *)
THEOREM ToolResultsOfTheRunAreExact == Spec => []ToolResultsAreExact
<1>1. ASSUME InputsFit PROVE ToolResultsAreExact
  <2>1. input[1] = "by layer" => AggregationByLayerIsExact(input[2])
    BY <1>1, AnyAggregationByLayerIsExact DEF InputsFit, ToolsFit, ByLayerFits
  <2>2. input[1] = "by grid" => AggregationByGridIsExact(input[2])
    BY <1>1, AnyAggregationByGridIsExact DEF InputsFit, ToolsFit, ByGridFits
  <2>3. JoinIsExact(input[2], input[3], input[4])
    BY AnyJoinIsExact
  <2>4. input[1] = "flows" => FlowsAreExact(input[2], input[3])
    BY <1>1, AnyFlowIsExact DEF InputsFit, ToolsFit, FlowFits
  <2> QED BY <2>1, <2>2, <2>3, <2>4, Zenon DEF ToolResultsAreExact
<1> QED BY <1>1, InputsKeepFitting, PTL

(* And the edges get_artificial_segments cuts follow.                      *)
THEOREM CutEdgesOfTheRunFollow == Spec => []CutEdgeFollows
<1>1. ASSUME InputsFit PROVE CutEdgeFollows
  BY <1>1, AnyCutEdgeFollows DEF InputsFit, EdgeFits, CutEdgeFollows
<1> QED BY <1>1, InputsKeepFitting, PTL

(* Accepted requests keep within the limits of their tool and, within      *)
(* them, are served; buffers reach as far as each step says (schemas,      *)
(* core/tool.py and crud_geoprocessing.py).                                *)
THEOREM RequestsOfTheRunAreServed == Spec => []AdmittedRequestsAreServed
<1>1. ASSUME InputsFit PROVE AdmittedRequestsAreServed
  <2>1. ASSUME input[1] = "request"
        PROVE  LimitsHold(input[2], MCProject) /\ WithinLimitsIsServed(input[2], MCProject)
    BY <1>1, <2>1, AnyAdmittedIsWithinLimits, AnyRequestWithinLimitsIsServed DEF InputsFit, RequestsFit
  <2>2. ASSUME input[1] = "stations" PROVE NearbyStationsAreAskedFor(input[2])
    BY <1>1, <2>2, AnyStationsAreAskedFor DEF InputsFit, RequestsFit
  <2>3. ASSUME input[1] = "buffer"
        PROVE  /\ LimitsHold(input[2], MCProject) /\ WithinLimitsIsServed(input[2], MCProject)
               /\ BuffersReachTheirStep(input[2], input[3], input[4])
    BY <1>1, <2>3, AnyAdmittedIsWithinLimits, AnyRequestWithinLimitsIsServed, AnyBufferReachesItsStep DEF InputsFit, RequestsFit
  <2> QED BY <2>1, <2>2, <2>3 DEF AdmittedRequestsAreServed
<1> QED BY <1>1, InputsKeepFitting, PTL

(* So are the departures of crud_trip_count_station.py.                    *)
THEOREM DeparturesOfTheRunAreCounted == Spec => []DeparturesAreCounted
<1>1. ASSUME InputsFit PROVE DeparturesAreCounted
  <2>1. TwoHours.from \in Int /\ TwoHours.to \in Int
    BY DEF TwoHours
  <2> QED BY <1>1, <2>1, AnyTripIsCounted DEF InputsFit, TripsFit, DeparturesAreCounted
<1> QED BY <1>1, InputsKeepFitting, PTL

LEMMA StopsOfTheRun == IsFiniteSet(MCStops) /\ StopsAreApart(MCStops)
<1>1. \A a, b, c, d : IsFiniteSet({a, b, c, d})
  <2> SUFFICES ASSUME NEW a, NEW b, NEW c, NEW d PROVE IsFiniteSet({a, b, c, d})
    OBVIOUS
  <2>1. IsFiniteSet({a, b, c} \cup {d})
    BY ThreeAreFinite, FS_AddElement, Zenon
  <2>2. {a, b, c, d} = {a, b, c} \cup {d}
    OBVIOUS
  <2> QED BY <2>1, <2>2
<1>2. IsFiniteSet(MCStops)
  BY <1>1, Zenon DEF MCStops
<1>3. StopsAreApart(MCStops)
  <2>1. Missing \notin {"p", "a", "b", "c"}
    BY MissingAssumption DEF MCStops
  <2> QED BY <2>1 DEF StopsAreApart, MCStops
<1> QED BY <1>2, <1>3

LEMMA ConfigOfTheRun ==
  /\ ConfigIsNumbers(MCConfig)
  /\ \A c \in DOMAIN MCConfig.classification : \A d \in DOMAIN MCConfig.classification[c] :
       d \in Int /\ MCConfig.classification[c][d] \in Nat
<1>1. ConfigIsNumbers(MCConfig)
  <2>1. MCConfig.groups = <<1, 1, 2>> /\ MCConfig.time_frequency = <<61, 121, 200>>
        /\ MCConfig.categories = <<<<1, 2>>, <<2, 3>>, <<3>>>>
    BY DEF MCConfig
  <2>2. IsFiniteSet(DOMAIN <<1, 1, 2>>)
    <3>1. DOMAIN <<1, 1, 2>> = {1, 2, 3}
      OBVIOUS
    <3> QED BY <3>1, ThreeAreFinite, Zenon
  <2>3. \A t \in DOMAIN MCConfig.groups : MCConfig.groups[t] \in Nat
    BY <2>1
  <2>4. /\ DOMAIN MCConfig.time_frequency \in SUBSET Nat
        /\ \A i \in DOMAIN MCConfig.time_frequency :
             MCConfig.time_frequency[i] \in Nat /\ i \in DOMAIN MCConfig.categories
    BY <2>1
  <2>5. \A i \in DOMAIN MCConfig.categories : \A g \in DOMAIN MCConfig.categories[i] :
          MCConfig.categories[i][g] \in 0..Worst
    <3>1. ASSUME NEW i \in 1..3 PROVE \A g \in DOMAIN MCConfig.categories[i] : MCConfig.categories[i][g] \in 0..Worst
      <4>1. i = 1 \/ i = 2 \/ i = 3
        OBVIOUS
      <4>2. MCConfig.categories[i] = <<1, 2>> \/ MCConfig.categories[i] = <<2, 3>> \/ MCConfig.categories[i] = <<3>>
        BY <2>1, <4>1
      <4> QED BY <4>2 DEF Worst
    <3>2. DOMAIN MCConfig.categories = 1..3
      BY <2>1
    <3> QED BY <3>1, <3>2
  <2> QED BY <2>1, <2>2, <2>3, <2>4, <2>5 DEF ConfigIsNumbers
<1>2. ASSUME NEW c \in DOMAIN MCConfig.classification, NEW d \in DOMAIN MCConfig.classification[c]
      PROVE  d \in Int /\ MCConfig.classification[c][d] \in Nat
  <2> DEFINE k1 == [e \in {100, 150} |-> IF e = 100 THEN 1 ELSE 2]
             k2 == [e \in {50, 100, 200} |-> IF e = 50 THEN 1 ELSE IF e = 100 THEN 2 ELSE 3]
             k3 == [e \in {50} |-> 2]
  <2>1. MCConfig.classification = <<k1, k2, k3>>
    BY DEF MCConfig
  <2>2. MCConfig.classification[c] = k1 \/ MCConfig.classification[c] = k2 \/ MCConfig.classification[c] = k3
    <3> HIDE DEF k1, k2, k3
    <3> QED BY <2>1
  <2>3. /\ \A e \in DOMAIN k1 : e \in Int /\ k1[e] \in Nat
        /\ \A e \in DOMAIN k2 : e \in Int /\ k2[e] \in Nat
        /\ \A e \in DOMAIN k3 : e \in Int /\ k3[e] \in Nat
    OBVIOUS
  <2> HIDE DEF k1, k2, k3
  <2> QED BY <2>2, <2>3
<1> QED BY <1>1, <1>2

(* No station gets a worse class from a trip more, and every place has the *)
(* best class offered to it (crud_oev_gueteklasse.py).                     *)
THEOREM BetterServiceOfTheRunWins == Spec => []BetterServiceWins
<1>1. ASSUME InputsFit, input[1] = "trips"
      PROVE  MoreTripsNeverHurt(input[2], MCStops, input[3], TwoHours, MCConfig)
  <2>1. TwoHours.from \in Int /\ TwoHours.to \in Int
    BY DEF TwoHours
  <2>2. IsFiniteSet(input[3])
    BY <1>1 DEF InputsFit, TripsFit
  <2> QED BY ONLY <2>1, <2>2, StopsOfTheRun, ConfigOfTheRun, AnyMoreTripsNeverHurt
<1>2. ASSUME InputsFit, input[1] = "classes"
      PROVE  PlacesGetTheirBestClass(input[2], MCConfig, input[3])
  <2>1. \A s \in input[2] : s.at \in Int
    BY <1>2 DEF InputsFit, ClassesFit
  <2>2. StepWidth \in Nat /\ Places \in SUBSET Int
    BY StationsAssumption
  <2> QED BY ONLY <2>1, <2>2, ConfigOfTheRun, AnyPlaceGetsItsBestClass
<1>3. InputsFit => BetterServiceWins
  BY <1>1, <1>2 DEF BetterServiceWins
<1> QED BY <1>3, InputsKeepFitting, PTL

-----------------------------------------------------------------------------
(* The services together.  A step of the run is a step of one part, and    *)
(* the others stand still: the run is a behaviour of each.                 *)
partsVars ==
  <<part, input, scenarioVars, workspaceVars, catchmentVars, isolineVars, filesVars>>

LEMMA OnePartMoves ==
  [Next]_partsVars =>
    /\ [ScenarioNext]_scenarioVars /\ [WorkspaceNext]_workspaceVars
    /\ [CatchmentNext]_catchmentVars /\ [IsolineNext]_isolineVars /\ [FilesNext]_filesVars
    /\ part' = part
BY DEF Next, ChooseInput, partsVars

(* MCServices: what holds of a part by itself holds of it in the run.      *)
THEOREM ServicesRunEachPart ==
  Spec => ScenarioSpec /\ WorkspaceSpec /\ CatchmentSpec /\ IsolineSpec /\ FilesSpec
<1>1. Init => ScenarioInit /\ WorkspaceInit /\ CatchmentInit /\ IsolineInit /\ FilesInit
  BY DEF Init
<1> QED BY <1>1, OnePartMoves, PTL
        DEF Spec, partsVars, ScenarioSpec, WorkspaceSpec, CatchmentSpec, IsolineSpec, FilesSpec

LEMMA InputsAreNamed == ChooseInput => input'[1] \in InputKinds
<1> SUFFICES ASSUME ChooseInput PROVE input'[1] \in InputKinds
  OBVIOUS
<1>1. CASE ChooseStreets
  <2>1. ASSUME NEW a, input' = <<"network", a>> PROVE input'[1] \in InputKinds
    BY <2>1 DEF InputKinds
  <2>2. ASSUME NEW a, input' = <<"edge", a>> PROVE input'[1] \in InputKinds
    BY <2>2 DEF InputKinds
  <2> QED BY <1>1, <2>1, <2>2 DEF ChooseStreets
<1>2. CASE ChooseTool
  <2>1. ASSUME NEW a, input' = <<"by layer", a>> PROVE input'[1] \in InputKinds
    BY <2>1 DEF InputKinds
  <2>2. ASSUME NEW a, input' = <<"by grid", a>> PROVE input'[1] \in InputKinds
    BY <2>2 DEF InputKinds
  <2>3. ASSUME NEW a, NEW b, NEW c, input' = <<"join", a, b, c>> PROVE input'[1] \in InputKinds
    BY <2>3 DEF InputKinds
  <2>4. ASSUME NEW a, NEW b, input' = <<"flows", a, b>> PROVE input'[1] \in InputKinds
    BY <2>4 DEF InputKinds
  <2> QED BY <1>2, <2>1, <2>2, <2>3, <2>4 DEF ChooseTool
<1>3. CASE ChooseHeatmap
  <2>1. ASSUME NEW a, NEW b, input' = <<"opportunities", a, b>> PROVE input'[1] \in InputKinds
    BY <2>1 DEF InputKinds
  <2>2. ASSUME NEW a, input' = <<"reference", a>> PROVE input'[1] \in InputKinds
    BY <2>2 DEF InputKinds
  <2> QED BY <1>3, <2>1, <2>2 DEF ChooseHeatmap
<1>4. CASE ChooseStops
  <2>1. ASSUME NEW a, NEW b, NEW c, input' = <<"trips", a, b, c>> PROVE input'[1] \in InputKinds
    BY <2>1 DEF InputKinds
  <2>2. ASSUME NEW a, NEW b, input' = <<"classes", a, b>> PROVE input'[1] \in InputKinds
    BY <2>2 DEF InputKinds
  <2> QED BY <1>4, <2>1, <2>2 DEF ChooseStops
<1>5. CASE ChooseLists
  <2>1. ASSUME NEW a, NEW b, NEW c, input' = <<"lists", a, b, c>> PROVE input'[1] \in InputKinds
    BY <2>1 DEF InputKinds
  <2> QED BY <1>5, <2>1 DEF ChooseLists
<1>6. CASE ChooseStatistics
  <2>1. ASSUME NEW a, NEW b, NEW c, NEW d, NEW e, input' = <<"chart", a, b, c, d, e>> PROVE input'[1] \in InputKinds
    BY <2>1 DEF InputKinds
  <2>2. ASSUME NEW a, NEW b, NEW c, NEW d, NEW e, input' = <<"values", a, b, c, d, e>> PROVE input'[1] \in InputKinds
    BY <2>2 DEF InputKinds
  <2>3. ASSUME NEW a, NEW b, input' = <<"breaks", a, b>> PROVE input'[1] \in InputKinds
    BY <2>3 DEF InputKinds
  <2> QED BY <1>6, <2>1, <2>2, <2>3 DEF ChooseStatistics
<1>7. CASE ChooseRequest
  <2>1. ASSUME NEW a, input' = <<"request", a>> PROVE input'[1] \in InputKinds
    BY <2>1 DEF InputKinds
  <2>2. ASSUME NEW a, input' = <<"stations", a>> PROVE input'[1] \in InputKinds
    BY <2>2 DEF InputKinds
  <2>3. ASSUME NEW a, NEW b, NEW c, input' = <<"buffer", a, b, c>> PROVE input'[1] \in InputKinds
    BY <2>3 DEF InputKinds
  <2> QED BY <1>7, <2>1, <2>2, <2>3 DEF ChooseRequest
<1>8. \/ ChooseStreets \/ ChooseTool \/ ChooseHeatmap \/ ChooseStops
      \/ ChooseLists \/ ChooseStatistics \/ ChooseRequest
  BY DEF ChooseInput
<1> QED BY <1>1, <1>2, <1>3, <1>4, <1>5, <1>6, <1>7, <1>8

(* Every part keeps its types in the run of all of them. *)
THEOREM ServicesAreTyped == Spec => []ServicesTypeOK
<1>1. Init => part \in Parts /\ input[1] \in InputKinds
  BY DEF Init, InputKinds
<1>2. part \in Parts /\ input[1] \in InputKinds /\ [Next]_partsVars => (part \in Parts /\ input[1] \in InputKinds)'
  <2> SUFFICES ASSUME part \in Parts, input[1] \in InputKinds, [Next]_partsVars
               PROVE  part' \in Parts /\ input'[1] \in InputKinds
    OBVIOUS
  <2>1. input' = input \/ ChooseInput
    BY DEF Next, partsVars
  <2>2. part' = part
    BY OnePartMoves
  <2> QED BY <2>1, <2>2, InputsAreNamed
<1>3. Spec => [](part \in Parts /\ input[1] \in InputKinds)
  BY <1>1, <1>2, PTL DEF Spec, partsVars
<1>4. Spec => []ScenarioTypeOK /\ []WorkspaceTypeOK /\ []CatchmentTypeOK /\ []IsolineTypeOK /\ []FilesTypeOK
  BY ServicesRunEachPart, ScenarioTypeCorrect, WorkspaceTypeCorrect, CatchmentTypeCorrect,
     IsolinesAreTyped, FilesAreTyped, PTL
<1>5. /\ ScenarioTypeOK /\ WorkspaceTypeOK /\ CatchmentTypeOK /\ IsolineTypeOK /\ FilesTypeOK
      /\ part \in Parts /\ input[1] \in InputKinds
      => ServicesTypeOK
  BY DEF ServicesTypeOK
<1> QED BY <1>3, <1>4, <1>5, PTL
=============================================================================
