------------------------------ MODULE Heatmap -------------------------------
(***************************************************************************)
(* The three heatmaps: closest average, gravity and connectivity           *)
(* (crud_heatmap_*.py and the create_heatmap_* functions).  Operators,     *)
(* checked over small layers and a small travel-time matrix.               *)
(*                                                                         *)
(* The opportunities of a layer are features as in Tools, with "at" the    *)
(* places of a point or of a polygon's outline, "whole" the places all of  *)
(* it covers, and "inside" the cells a polygon fills.  A layer here is     *)
(* [features, edits, max_traveltime, n, sensitivity, areas], n the number  *)
(* of destinations.  A fence is the places of the geofence, widened by the *)
(* way one can go in the time of the layer: a function of that time, and   *)
(* everywhere if there is none.                                            *)
(***************************************************************************)
EXTENDS Tools, SequencesExt

CONSTANTS Matrix,       \* set of [h3_3, orig, dests, traveltime]
          Centre,       \* cell -> the place at its centre
          Impedance(_, _, _)  \* of a time, a sensitivity and the longest time

(* The matrix has one time from a cell to each it reaches.                 *)
ASSUME MatrixAssumption ==
  /\ IsFiniteSet(Matrix)
  /\ \A m \in Matrix :
       /\ m.traveltime \in Nat /\ IsFiniteSet(m.dests) /\ m.dests \subseteq Range(HexOf)
       /\ \A k \in Matrix : m.orig = k.orig => m = k \/ m.dests \cap k.dests = {}

Opportunities(layer) == Overlaid(layer.features, layer.edits)

OpportunitiesOf(layers) == UNION {{<<l, f>> : f \in Opportunities(l)} : l \in layers}

(* The rows of the opportunity table: a point gives the cell it lies in,   *)
(* an outline each cell a point of it lies in, inside the geofence.        *)
opportunity_table(layers, fence) ==
  UNION {{[id |-> x[1].id, h3_index |-> HexOf[x[2]], h3_3 |-> ShardOf[x[2]],
           max_traveltime |-> l.max_traveltime, n |-> l.n,
           sensitivity |-> l.sensitivity, potential |-> x[1].value] :
            x \in {y \in Opportunities(l) \X fence[l.max_traveltime] : y[2] \in y[1].at}} :
           l \in layers}

(* sub_matrix, one row for each destination of a matrix row. *)
sub_matrix(opportunities) ==
  UNION {{[of |-> x[1], dest |-> d, traveltime |-> x[2].traveltime] :
            d \in x[2].dests} :
           x \in {y \in opportunities \X Matrix :
                    /\ y[2].h3_3 = y[1].h3_3 /\ y[2].orig = y[1].h3_index
                    /\ y[2].traveltime <= y[1].max_traveltime}}

(* Mutant: every way to an opportunity counts. *)
EveryWay(rows) == rows

(* The fastest way from each opportunity to each cell; rows name the       *)
(* opportunity by what it is grouped by.                                   *)
Fastest(rows) ==
  LET same(r) == {s.traveltime : s \in {t \in rows : t.dest = r.dest /\ t.of = r.of}}
  IN {[r EXCEPT !.traveltime = Min(same(r))] : r \in rows}

-----------------------------------------------------------------------------
(* The n fastest opportunities, of all the layers that ask for n, averaged *)
(* over all the layers: a sum and a count.                                 *)
FirstN(n, rows) ==
  LET taken[k \in 0..Cardinality(rows)] ==
        IF k = 0 THEN {}
        ELSE LET left == rows \ taken[k - 1]
             IN taken[k - 1] \cup {CHOOSE r \in left : \A s \in left : r.traveltime <= s.traveltime}
  IN taken[Min({n, Cardinality(rows)})]

Total(rows) == SumFunction([r \in rows |-> r.traveltime])

closest_average(layers, fence) ==
  LET grouped == Fastest({[r EXCEPT !.of = [id |-> r.of.id, n |-> r.of.n]] :
                            r \in sub_matrix(opportunity_table(layers, fence))})
      first(d) == UNION {FirstN(n, {r \in grouped : r.dest = d /\ r.of.n = n}) :
                           n \in {r.of.n : r \in grouped}}
  IN {[cell |-> d, sum |-> Total(first(d)), count |-> Cardinality(first(d))] :
        d \in {r.dest : r \in grouped}}

(* Gravity: what the fastest way to each opportunity makes of it, summed;  *)
(* cells that polygons fill get their potential at one minute; the greater *)
(* of the two counts.                                                      *)
Longest(layers) == Max({l.max_traveltime : l \in layers})

Accessibility(layers, rows) ==
  SumFunction([r \in rows |->
                 Impedance(r.traveltime, r.of.sensitivity, Longest(layers)) * r.of.potential])

(* Mutant: the geofence is asked of the outline. *)
filler_cells_by_outline(layers, fence) ==
  UNION {{[of |-> [row |-> x[1].row, sensitivity |-> l.sensitivity, potential |-> x[1].value],
           dest |-> x[2], traveltime |-> 1] :
            x \in {y \in Opportunities(l) \X Range(HexOf) :
                     y[2] \in y[1].inside /\ y[1].at \cap fence[l.max_traveltime] # {}}} :
           l \in {k \in layers : k.areas}}

(* The geofence is asked of the whole polygon, not of its outline.         *)
filler_cells(layers, fence) ==
  UNION {{[of |-> [row |-> x[1].row, sensitivity |-> l.sensitivity, potential |-> x[1].value],
           dest |-> x[2], traveltime |-> 1] :
            x \in {y \in Opportunities(l) \X Range(HexOf) :
                     y[2] \in y[1].inside /\ y[1].whole \cap fence[l.max_traveltime] # {}}} :
           l \in {k \in layers : k.areas}}

gravity(layers, fence) ==
  LET grouped == Fastest({[r EXCEPT !.of = [id |-> r.of.id, sensitivity |-> r.of.sensitivity,
                                            potential |-> r.of.potential]] :
                            r \in sub_matrix(opportunity_table(layers, fence))})
      at(rows, d) == {r \in rows : r.dest = d}
      values(d) == {Accessibility(layers, at(rows, d)) :
                      rows \in {r \in {grouped, filler_cells(layers, fence)} : at(r, d) # {}}}
  IN {[cell |-> d, accessibility |-> Max(values(d))] :
        d \in {r.dest : r \in grouped \cup filler_cells(layers, fence)}}

(* Connectivity: every row of the reference table, one for each polygon    *)
(* and cell it fills, is joined with the matrix in the shard of the cell's *)
(* centre; sizes are in cells.                                             *)
connectivity(layer) ==
  LET reference == UNION {{[id |-> f.id, h3_index |-> h, h3_3 |-> ShardOf[Centre[h]]] :
                             h \in f.inside} : f \in Opportunities(layer)}
      rows == {x \in reference \X Matrix :
                 /\ x[2].h3_3 = x[1].h3_3 /\ x[2].orig = x[1].h3_index
                 /\ x[2].traveltime <= layer.max_traveltime}
  IN {[cell |-> h, accessibility |->
         SumFunction([x \in {y \in rows : y[2].orig = h} |-> Cardinality(x[2].dests)])] :
        h \in {x[2].orig : x \in rows}}

-----------------------------------------------------------------------------
(* What the matrix says of a way from one of the places to a cell. *)
Times(places, d, limit) ==
  {m.traveltime : m \in {k \in Matrix : /\ k.traveltime <= limit /\ d \in k.dests
                                        /\ \E p \in places : HexOf[p] = k.orig}}

Reached(l, fence, d) ==
  {f \in Opportunities(l) : Times(f.at \cap fence[l.max_traveltime], d, l.max_traveltime) # {}}

TimeTo(l, fence, f, d) ==
  Min(Times(f.at \cap fence[l.max_traveltime], d, l.max_traveltime))

(* Opportunities can be told apart by their ids, which new features of a   *)
(* scenario lack, and lie in the shard the matrix keeps their cell in.     *)
Known(layers) ==
  /\ \A l, k \in layers : \A f \in Opportunities(l), g \in Opportunities(k) :
       f.id = g.id => f = g /\ l = k
  /\ \A l \in layers : \A f \in Opportunities(l) : \A p \in f.at, m \in Matrix :
       m.orig = HexOf[p] => m.h3_3 = ShardOf[p]

(* The n opportunities of a layer that are nearest to a cell. *)
Nearest(l, fence, d) ==
  CHOOSE s \in SUBSET Reached(l, fence, d) :
    /\ Cardinality(s) = Min({l.n, Cardinality(Reached(l, fence, d))})
    /\ \A f \in s, g \in Reached(l, fence, d) \ s : TimeTo(l, fence, f, d) <= TimeTo(l, fence, g, d)

(* A cell is given the average time to the opportunities it can be reached *)
(* from in time, of each layer the n nearest, each counted once however    *)
(* many points its outline has.  Claimed of opportunities that are known,  *)
(* and layers that ask for different numbers: layers that ask for the same *)
(* number get that many together.                                          *)
ClosestAverageIsExact(layers, fence) ==
  /\ Known(layers)
  /\ \A l, k \in layers : l.n = k.n => l = k
  => closest_average(layers, fence) =
       {[cell |-> d,
         sum |-> SumFunction([l \in layers |->
                   SumFunction([f \in Nearest(l, fence, d) |-> TimeTo(l, fence, f, d)])]),
         count |-> SumFunction([l \in layers |-> Cardinality(Nearest(l, fence, d))])] :
          d \in {c \in Range(HexOf) : \E l \in layers : Reached(l, fence, c) # {}}}

(* What an opportunity offers a cell, by the matrix and by lying inside a  *)
(* polygon that the geofence reaches.                                      *)
Minutes(l, fence, f, d) ==
  {TimeTo(l, fence, g, d) : g \in {f} \cap Reached(l, fence, d)}
    \cup {t \in {1} : l.areas /\ d \in f.inside /\ f.whole \cap fence[l.max_traveltime] # {}}

Offer(layers, fence, l, f, d) ==
  {Impedance(t, l.sensitivity, Longest(layers)) * f.value : t \in Minutes(l, fence, f, d)}

Offered(layers, fence, d) ==
  {x \in OpportunitiesOf(layers) : Offer(layers, fence, x[1], x[2], d) # {}}

Best(layers, fence, x, d) == Max(Offer(layers, fence, x[1], x[2], d))

(* A cell is worth at least what any one opportunity offers it and at most *)
(* what they offer together; of points exactly that.  Claimed of           *)
(* opportunities that are known.                                           *)
GravityIsBounded(layers, fence) ==
  LET result == gravity(layers, fence)
  IN Known(layers) =>
       /\ {r.cell : r \in result} = {d \in Range(HexOf) : Offered(layers, fence, d) # {}}
       /\ \A r \in result :
            LET offered == Offered(layers, fence, r.cell)
                together == SumFunction([x \in offered |-> Best(layers, fence, x, r.cell)])
            IN /\ \A x \in offered : Best(layers, fence, x, r.cell) <= r.accessibility
               /\ r.accessibility <= together
               /\ (\A l \in layers : ~l.areas) => r.accessibility = together

(* A cell of the reference area is as connected as the number of cells it  *)
(* reaches in time.  Claimed of cells in one polygon of the reference      *)
(* layer (where polygons share a cell, at a common border for instance, it *)
(* counts for each), and that the matrix keeps in the shard of their       *)
(* centre.                                                                 *)
ConnectivityIsExact(layer) ==
  \A r \in connectivity(layer) :
    LET holders == {f \in Opportunities(layer) : r.cell \in f.inside}
        reach == {m \in Matrix : m.orig = r.cell /\ m.traveltime <= layer.max_traveltime}
    IN /\ Cardinality(holders) = 1
       /\ \A m \in Matrix : m.orig = r.cell => m.h3_3 = ShardOf[Centre[r.cell]]
       =>
         r.accessibility = Cardinality(UNION {m.dests : m \in reach})
=============================================================================
