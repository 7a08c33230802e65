------------------------------- MODULE Tools --------------------------------
(***************************************************************************)
(* What the tools that combine layers compute: aggregation of points or    *)
(* polygons, join, and origin-destination flows (crud_geoanalysis.py,      *)
(* crud_data_management.py, core/tool.py and the functions that distribute *)
(* a layer).  The queries keep no state: operators, checked over small     *)
(* layers.                                                                 *)
(*                                                                         *)
(* A geometry is the set of places it covers; places are numbers on a line *)
(* so that a bounding box is an interval.  Tables are sets of rows, each   *)
(* with a row key of its own: equal rows stay two rows.  The features of   *)
(* a layer are [row, id, at, group, value].                                *)
(***************************************************************************)
EXTENDS Integers, Sequences, FiniteSets, FiniteSetsExt

CONSTANTS ShardOf,      \* place -> cell of h3 resolution 3 it lies in
          HexOf,        \* place -> cell of the grid the user asked for
          AtBorder,     \* the places at the border of the cell they lie in
          Subdivided(_),\* the pieces ST_SUBDIVIDE makes of a shape
          Null,
          Unit          \* a whole, in the units shares of an area count in

(* A shape is cut into pieces that cover it and do not overlap; one of few *)
(* vertices is a piece of its own.                                         *)
ASSUME SubdivisionAssumption ==
  \A at \in SUBSET DOMAIN HexOf :
    /\ UNION Subdivided(at) = at
    /\ \A s, t \in Subdivided(at) : s # t => s \cap t = {}

-----------------------------------------------------------------------------
(* A layer of the project: [features, hidden, edits], the features the     *)
(* filter lets through, those it hides, and the edits of the scenario the  *)
(* tool is run with, as [origin, edit, feature].                           *)

Covered(features) == UNION {f.at : f \in features}

(* The extent of the table, whatever the filter lets through. *)
Extent(layer) ==
  LET places == Covered(layer.features \cup layer.hidden) IN Min(places)..Max(places)

(* Mutant: only features that lie within the other's box are kept. *)
spatial_filter_within(layer, other) ==
  {f \in layer.features : f.at \subseteq Extent(other)}

(* Each layer is limited to the bounding box of the other. *)
build_additional_spatial_filter(layer, other) ==
  {f \in layer.features : f.at \cap Extent(other) # {}}

(* The layer's rows the filter lets through and the scenario does not      *)
(* name, and the new and modified ones of the scenario, which no filter    *)
(* sees.  Their id is the feature they stand for, NULL for a new one.      *)
Overlaid(rows, edits) ==
  {f \in rows : \A e \in edits : e.origin # f.id}
    \cup {[e.feature EXCEPT !.id = e.origin] :
            e \in {d \in edits : d.edit \in {"n", "m"}}}

(* A piece that crosses no border but touches one is met by both halves of *)
(* the insert, the pieces cut at the borders and those within a shard.     *)
Doubled(piece) ==
  piece \cap AtBorder # {} /\ \A p, q \in piece : ShardOf[p] = ShardOf[q]

Copies(piece) == IF Doubled(piece) THEN {1, 2} ELSE {1}

(* Polygons are subdivided, and each piece is a row in every shard it      *)
(* reaches; points stay as they are.                                       *)
create_distributed_polygon_table(rows) ==
  UNION {UNION {{[f EXCEPT !.row = <<f.row, n>>, !.at = {p \in piece : ShardOf[p] = s}] :
                   s \in {ShardOf[p] : p \in piece}, n \in Copies(piece)} :
                  piece \in Subdivided(f.at)} : f \in rows}

temp_source(c, rows) == IF c.points THEN rows ELSE create_distributed_polygon_table(rows)

(* Pieces that meet lie in one shard, as the join on h3_3 asks. *)
Meet(a, b) == a.at \cap b.at # {}

-----------------------------------------------------------------------------
(* pairs are <<area or cell, source row>>. *)
get_statistics_sql(op, pairs) ==
  IF op = "count" THEN Cardinality(pairs)
  ELSE IF op = "sum" THEN MapThenSumSet(LAMBDA x : x[2].value, pairs)
  ELSE LET values == {x[2].value : x \in pairs}
       IN IF op = "min" THEN Min(values) ELSE Max(values)

(* ARRAY_TO_STRING leaves NULLs out of the name of a group. *)
GroupName(f) == SelectSeq(f.group, LAMBDA v : v # Null)

(* Of the groups with the same name one is kept. *)
Grouped(pairs) ==
  LET of(group) == {x \in pairs : x[2].group = group}
      groups == {x[2].group : x \in pairs}
      names == {GroupName(x[2]) : x \in pairs}
  IN [n \in names |-> of(CHOOSE g \in groups : \E x \in of(g) : GroupName(x[2]) = n)]

Share(a, b) == (Unit * Cardinality(a.at \cap b.at)) \div Cardinality(b.at)

(* With weights the statistic is multiplied by the sum of the shares.      *)
Weighted(c, pairs) ==
  get_statistics_sql(c.op, pairs)
    * (IF c.weighted THEN MapThenSumSet(LAMBDA x : Share(x[1], x[2]), pairs) ELSE 1)

Pairs(c) ==
  LET areas == create_distributed_polygon_table(Overlaid(
        build_additional_spatial_filter(c.areas, c.source), c.areas.edits))
      source == temp_source(c, Overlaid(
        build_additional_spatial_filter(c.source, c.areas), c.source.edits))
  IN {x \in areas \X source : Meet(x[1], x[2])}

(* Aggregation by a layer: the statistics by the id of the area, joined to *)
(* the rows of the layer's own table.                                      *)
aggregate_by_layer(c) ==
  LET pairs == Pairs(c)
      of(a) == {x \in pairs : x[1].id = a.id}
  IN {[area |-> a.id,
       total |-> IF of(a) = {} THEN Null ELSE Weighted(c, of(a)),
       groups |-> LET grouped == Grouped(of(a))
                  IN [g \in DOMAIN grouped |-> Weighted(c, grouped[g])]] :
        a \in build_additional_spatial_filter(c.areas, c.source)}

(* By the grid.  Points fall into the cell they lie in.  Polygons are      *)
(* grouped by cell and id first, which keeps one of the rows that share    *)
(* them, and a count becomes a sum of ones.                                *)
Cell(h) == [at |-> {p \in DOMAIN HexOf : HexOf[p] = h}]

(* Shares of a cell are whole numbers of units, as shares of an area are   *)
(* numbers that add up.                                                    *)
ASSUME UnitAssumption ==
  /\ IsFiniteSet(DOMAIN HexOf) /\ Unit \in Nat
  /\ \A p \in DOMAIN HexOf : Unit % Cardinality(Cell(HexOf[p]).at) = 0

Valued(c, h, row, rows) ==
  [row EXCEPT !.group = GroupName(row),
              !.value = (IF c.op = "count" THEN 1 ELSE @)
                          * (IF c.weighted
                             THEN MapThenSumSet(LAMBDA r : Share(r, Cell(h)), rows)
                             ELSE 1)]

GridPairs(c) ==
  LET source == temp_source(c, Overlaid(c.source.features, c.source.edits))
      met == UNION {{<<HexOf[p], f>> : p \in f.at} : f \in source}
      alike(x, y) == /\ x[1] = y[1] /\ x[2].id = y[2].id
                     /\ c.by_group => x[2].group = y[2].group
      same(x) == {y[2] : y \in {z \in met : alike(x, z)}}
  IN IF c.points THEN met
     ELSE {<<x[1], Valued(c, x[1], CHOOSE r \in same(x) : TRUE, same(x))>> : x \in met}

GridOp(c) == IF ~c.points /\ c.op = "count" THEN "sum" ELSE c.op

aggregate_by_grid(c) ==
  LET pairs == GridPairs(c)
      stat(p) == get_statistics_sql(GridOp(c), p)
      of(h) == {x \in pairs : x[1] = h}
      grouped(h) == IF c.by_group THEN Grouped(of(h)) ELSE <<>>
  IN {[area |-> h, total |-> stat(of(h)),
       groups |-> [g \in DOMAIN grouped(h) |-> stat(grouped(h)[g])]] :
        h \in {x[1] : x \in pairs}}

-----------------------------------------------------------------------------
(* What is asked for: the sources of the layer, as the scenario has them,  *)
(* that meet an area or a cell, each counted once.                         *)
Sources(c) == Overlaid(c.source.features, c.source.edits)

Once(place, c) == {<<place, f>> : f \in {g \in Sources(c) : g.at \cap place.at # {}}}

Uncut(f) == \A p, q \in f.at : ShardOf[p] = ShardOf[q]

Undivided(f) == Subdivided(f.at) = {f.at}

Undoubled(f) == \A piece \in Subdivided(f.at) : ~Doubled(piece)

(* Of these an area and a source that meet do so in one pair of rows: the  *)
(* source is a point, or one of them is a single row and the other has one *)
(* row in a shard.                                                         *)
MeetInOneRow(c, a, f) ==
  /\ Undoubled(a)
  /\ \/ c.points
     \/ Undoubled(f) /\ Undivided(a) /\ Undivided(f) /\ (Uncut(a) \/ Uncut(f))

NamesDiffer(pairs) ==
  \A x, y \in pairs : GroupName(x[2]) = GroupName(y[2]) => x[2].group = y[2].group

SumsUp(c, row, pairs) ==
  c.op \in {"count", "sum"} /\ NamesDiffer(pairs) =>
    MapThenSumSet(LAMBDA n : row.groups[n], DOMAIN row.groups) = row.total

(* Every area the sources' extent reaches is in the result with the        *)
(* statistic of the features that meet it, each taken once, and its groups *)
(* make up its total.  Claimed of areas the scenario leaves alone (an      *)
(* edited one keeps its old outline and a new one is missing), of features *)
(* that meet the area in one row (a polygon of many vertices is counted    *)
(* once for every piece, one across shards that an area covers in both     *)
(* twice, and so is one that touches a border), and with weights of a      *)
(* single feature (the sum is multiplied by all the shares, not each value *)
(* by its own).                                                            *)
AggregationByLayerIsExact(c) ==
  LET result == aggregate_by_layer(c)
  IN
  /\ {r.area : r \in result}
       = {a.id : a \in {b \in c.areas.features : b.at \cap Extent(c.source) # {}}}
  /\ \A r \in result, a \in c.areas.features :
       LET once == Once(a, c)
       IN /\ r.area = a.id
          /\ \A e \in c.areas.edits : e.origin # a.id
          /\ \A x \in once : MeetInOneRow(c, a, x[2])
          /\ c.weighted => Cardinality(once) = 1 /\ \A x \in once : Uncut(x[2])
          => IF once = {} THEN r.total = Null
             ELSE r.total = Weighted(c, once) /\ (~c.weighted => SumsUp(c, r, once))

(* The same of the cells of a grid: every cell a feature meets, no other,  *)
(* with each polygon once however it is cut, and weighted by its own share *)
(* of the cell.  Claimed where new polygons of a scenario do not share a   *)
(* cell (they have no id to tell them apart), and of weights where no      *)
(* piece is inserted twice.                                                *)
AggregationByGridIsExact(c) ==
  LET once(h) ==
        {IF c.points THEN x ELSE <<h, Valued(c, h, x[2], {x[2]})>> : x \in Once(Cell(h), c)}
      result == aggregate_by_grid(c)
  IN /\ {r.area : r \in result} = {HexOf[p] : p \in Covered(Sources(c))}
     /\ \A r \in result :
          /\ \A x, y \in Once(Cell(r.area), c) : x[2].id = y[2].id => x = y
          /\ c.weighted => \A x \in Once(Cell(r.area), c) : Undoubled(x[2])
          => /\ r.total = get_statistics_sql(GridOp(c), once(r.area))
             /\ c.by_group => SumsUp(c, r, once(r.area))

-----------------------------------------------------------------------------
(* Join: targets are [row, key, look], joined rows [row, key, value].  The *)
(* filter on the joined layer undoes the outer join, and the rows are      *)
(* grouped by all that the target's columns show.                          *)
join(targets, joined, op) ==
  LET pairs == {x \in targets \X joined : x[1].key = x[2].key}
  IN {[look |-> l, value |-> get_statistics_sql(op, {x \in pairs : x[1].look = l})] :
        l \in {x[1].look : x \in pairs}}

(* Every target with a partner is one row of the result with the statistic *)
(* of its partners; one without is left out.  Claimed when no two targets  *)
(* look the same: such targets become one row, which counts for both.      *)
JoinIsExact(targets, joined, op) ==
  (\A s, t \in targets : s.look = t.look => s = t) =>
    join(targets, joined, op) =
      {LET mine == {<<t, j>> : j \in {i \in joined : i.key = t.key}}
       IN [look |-> t.look, value |-> get_statistics_sql(op, mine)] :
         t \in {s \in targets : \E j \in joined : j.key = s.key}}

(* Flows: the matrix holds [row, from, to, weight], the geometry layer     *)
(* [row, id, text_attr2].                                                  *)
Weight(pairs) == MapThenSumSet(LAMBDA x : x[2].weight, pairs)

(* Mutant: a relation is given all the weight of its destination. *)
relations_by_destination(geometries, matrix) ==
  LET rows == {x \in (geometries \X geometries) \X matrix :
                 x[1][1].id = x[2].from /\ x[1][2].id = x[2].to}
      of(m) == {x \in rows : x[2].to = m.to}
  IN {[from |-> m.from, to |-> m.to, weight |-> Weight(of(m))] :
        m \in {x[2] : x \in rows}}

relations(geometries, matrix) ==
  LET rows == {x \in (geometries \X geometries) \X matrix :
                 x[1][1].id = x[2].from /\ x[1][2].id = x[2].to}
      of(m) == {x \in rows : x[2].from = m.from /\ x[2].to = m.to}
  IN {[from |-> m.from, to |-> m.to, weight |-> Weight(of(m))] :
        m \in {x[2] : x \in rows}}

(* Destinations are grouped by their id, and then by text_attr2, whatever  *)
(* the geometry layer keeps there.                                         *)
points(geometries, matrix) ==
  LET rows == {x \in geometries \X matrix : x[1].id = x[2].to}
      grouped == {[id |-> i, weight |-> Weight({x \in rows : x[1].id = i})] :
                    i \in {x[1].id : x \in rows}}
      both == {x \in geometries \X grouped : x[1].id = x[2].id}
  IN {[at |-> (CHOOSE x \in both : x[1].text_attr2 = k[1] /\ x[2].weight = k[2])[1].row,
       weight |-> k[2]] :
        k \in {<<x[1].text_attr2, x[2].weight>> : x \in both}}

(* A relation weighs what the matrix says of its pair, a destination what  *)
(* flows into it.  Claimed of a layer whose ids are unique, as the         *)
(* column's name promises (a repeated id multiplies the weights), and of   *)
(* destinations where text_attr2 is different: equal ones with the same    *)
(* weight are drawn as one point.                                          *)
FlowsAreExact(geometries, matrix) ==
  LET ids == {g.id : g \in geometries}
      sum(rows) == MapThenSumSet(LAMBDA m : m.weight, rows)
  IN (\A g, h \in geometries : g.id = h.id => g = h) =>
       /\ relations(geometries, matrix) =
            {[from |-> m.from, to |-> m.to,
              weight |-> sum({n \in matrix : n.from = m.from /\ n.to = m.to})] :
                m \in {n \in matrix : {n.from, n.to} \subseteq ids}}
       /\ (\A g, h \in geometries : g.text_attr2 = h.text_attr2 => g = h) =>
            points(geometries, matrix) =
              {[at |-> g.row, weight |-> sum({m \in matrix : m.to = g.id})] :
                 g \in {h \in geometries : \E m \in matrix : m.to = h.id}}
=============================================================================
