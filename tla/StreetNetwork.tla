---------------------------- MODULE StreetNetwork ----------------------------
(***************************************************************************)
(* The street network a scenario is routed on.                             *)
(* produce_network_modifications turns a scenario's edits into edges to    *)
(* delete and edges to add; get_artificial_segments cuts the edge nearest  *)
(* to each starting point.  Both are SQL functions without state of their  *)
(* own: operators here, checked over every small input.                    *)
(*                                                                         *)
(* A line is the sequence of the points at which anything can touch it.    *)
(* Snapping makes points closer than the tolerance the same point, so two  *)
(* lines meet where they share one.  A new node or edge number is the      *)
(* greatest one plus a counter; here the counter is the point, a number.   *)
(***************************************************************************)
EXTENDS Naturals, Sequences, FiniteSets, SequencesExt

CONSTANTS Streets,      \* edges: [id, path, source, target]
          NodeAt,       \* point -> the node of the network that lies there
          MaxNode,      \* max(node_id) of the network's nodes
          Drawing       \* feature_id of a line drawn from nothing

(* A line has two points at least. *)
Line(path) == path \in Seq(Nat \ {0}) /\ Len(path) >= 2

PointsOf(path) == Range(path)

First(path) == path[1]

Final(path) == path[Len(path)]

Ends(path) == {First(path), Final(path)}

NewNode(p) == MaxNode + p

(* The edges have numbers of their own, and end at nodes.                  *)
ASSUME StreetsAssumption ==
  /\ MaxNode \in Nat
  /\ \A p \in DOMAIN NodeAt : NodeAt[p] \in 0..MaxNode
  /\ \A e \in Streets :
       /\ e.id # Drawing /\ \A s \in Streets : s.id = e.id => s = e
       /\ Line(e.path) /\ Ends(e.path) \subseteq DOMAIN NodeAt
       /\ e.source = NodeAt[First(e.path)] /\ e.target = NodeAt[Final(e.path)]

(* ST_Split: the pieces of a path between consecutive points of cuts. *)
Pieces(path, cuts) ==
  LET stop == {1, Len(path)} \cup {i \in DOMAIN path : path[i] \in cuts}
  IN {SubSeq(path, x[1], x[2]) : x \in
        {y \in stop \X stop : y[1] < y[2] /\ \A c \in stop : c <= y[1] \/ c >= y[2]}}

-----------------------------------------------------------------------------
(* A scenario here is a set of features [id, feature, edit, path].         *)

StreetOf(f) == CHOOSE e \in Streets : e.id = f.feature

(* drawn_features: new and modified lines. *)
Drawn_features(scenario) == {f \in scenario : f.edit \in {"n", "m"}}

(* The modified lines that kept their geometry. *)
modified_attributes_only(scenario) ==
  {f.feature : f \in {g \in scenario : g.edit = "m" /\ g.path = StreetOf(g).path}}

(* original_id of the lines that replace an edge. *)
Replaced(scenario) == {f.feature : f \in Drawn_features(scenario)} \ {Drawing}

(* The points at which a drawn line starts or ends on a node. *)
snapped_to_node(scenario) ==
  (UNION {Ends(f.path) : f \in Drawn_features(scenario)}) \cap DOMAIN NodeAt

(* Where drawn lines meet edges nothing replaces, except the nodes that    *)
(* some drawn line starts or ends at.                                      *)
intersection_existing_network(scenario) ==
  (UNION {PointsOf(f.path) \cap PointsOf(e.path) :
            f \in Drawn_features(scenario),
            e \in {s \in Streets : s.id \notin Replaced(scenario)}})
    \ snapped_to_node(scenario)

(* split_by_drawn_lines: drawn lines cut each other, once there are two. *)
split_drawn_features(scenario) ==
  UNION {{[did |-> f.id, original |-> f.feature, path |-> p] :
            p \in Pieces(f.path, UNION {PointsOf(g.path) :
                                   g \in Drawn_features(scenario) \ {f}})} :
           f \in Drawn_features(scenario)}

(* The pieces are cut once more, by the union of the cuts: without a cut   *)
(* that union is NULL, and joining with it leaves no piece at all.         *)
new_pieces(scenario) ==
  LET cuts == intersection_existing_network(scenario)
  IN IF cuts = {} THEN {}
     ELSE UNION {{[n EXCEPT !.path = p] : p \in Pieces(n.path, cuts)} :
                   n \in split_drawn_features(scenario)}

(* Mutant: every end gets a new node. *)
NewNodeOfPiece(scenario, n, p) == NewNode(p)

(* The end of a drawn line that lies on a node keeps that node; every      *)
(* other end of a piece gets a node of its own, one for each point.        *)
NodeOfPiece(scenario, n, p) ==
  IF p \in DOMAIN NodeAt /\ \E f \in Drawn_features(scenario) :
                              f.id = n.did /\ p \in Ends(f.path)
  THEN NodeAt[p] ELSE NewNode(p)

new_network(scenario) ==
  {[original |-> n.original, path |-> n.path,
    source |-> NodeOfPiece(scenario, n, First(n.path)),
    target |-> NodeOfPiece(scenario, n, Final(n.path))] :
     n \in new_pieces(scenario)}

new_vertices(scenario) ==
  {p \in UNION {Ends(n.path) : n \in new_pieces(scenario)} :
     \E n \in new_network(scenario) : NewNode(p) \in {n.source, n.target}}

(* The edges that are cut, in pieces; an end at a new node moves to it. *)
existing_network(scenario) ==
  LET cuts == intersection_existing_network(scenario)
      node(e, p) == IF p \in new_vertices(scenario) THEN NewNode(p)
                    ELSE IF p = First(e.path) THEN e.source ELSE e.target
  IN UNION {{[original |-> e.id, path |-> p,
              source |-> node(e, First(p)), target |-> node(e, Final(p))] :
               p \in Pieces(e.path, cuts)} :
              e \in {s \in Streets :
                       /\ PointsOf(s.path) \cap cuts # {}
                       /\ s.id \notin modified_attributes_only(scenario)}}

(* Mutant: an edge stays although a drawn line replaces it. *)
DeletionsButReplaced(scenario) ==
  {f.feature : f \in {g \in scenario : g.edit = "d"}}
    \cup {e.original : e \in existing_network(scenario)}

Deletions(scenario) ==
  {f.feature : f \in {g \in scenario : g.edit = "d"}}
    \cup {e.original : e \in existing_network(scenario)}
    \cup ({n.original : n \in new_network(scenario)} \ {Drawing})

Additions(scenario) ==
  {e \in existing_network(scenario) :
     \A n \in new_network(scenario) : n.original # e.original}
    \cup new_network(scenario)

(* The network everything reads: the edges no modification names, and the  *)
(* added ones.                                                             *)
Combined(scenario) ==
  {[original |-> e.id, path |-> e.path, source |-> e.source,
    target |-> e.target] :
     e \in {s \in Streets : s.id \notin Deletions(scenario)}}
    \cup Additions(scenario)

-----------------------------------------------------------------------------
Segments(path) == {{path[i], path[i + 1]} : i \in 1..(Len(path) - 1)}

SegmentsOf(edges) == UNION {Segments(e.path) : e \in edges}

EndNodes(edges) ==
  UNION {{<<First(e.path), e.source>>, <<Final(e.path), e.target>>} : e \in edges}

(* What the edits ask for: the streets that are neither deleted nor        *)
(* replaced, and the lines drawn.                                          *)
Wanted(scenario) ==
  SegmentsOf({e \in Streets : \A f \in scenario : f.feature # e.id})
    \cup SegmentsOf(Drawn_features(scenario))

CrossesDeleted(scenario) ==
  \E d \in scenario, f \in Drawn_features(scenario) :
    d.edit = "d" /\ PointsOf(StreetOf(d).path) \cap PointsOf(f.path) # {}

PassesSnapped(scenario) ==
  \E f, g \in Drawn_features(scenario) :
    f # g /\ \E p \in Ends(f.path) \cap DOMAIN NodeAt :
               p \in PointsOf(g.path) \ Ends(g.path)

(* The modified network runs along the streets the edits leave and along   *)
(* the lines they draw, and along nothing else.  Claimed of scenarios      *)
(* whose lines, if any, cut the network somewhere (without a cut they are  *)
(* lost) and cross no deleted street (its pieces are added back).          *)
NetworkIsWhatWasDrawn(scenario) ==
  /\ Drawn_features(scenario) = {} \/ intersection_existing_network(scenario) # {}
  /\ ~CrossesDeleted(scenario)
  => SegmentsOf(Combined(scenario)) = Wanted(scenario)

(* Edges that end at the same point end at the same node: a router can     *)
(* turn from each into the others.  Claimed of every scenario where no     *)
(* drawn line passes through a node another one ends at (the passing line  *)
(* gets a new node there, the other keeps the network's).                  *)
NetworkIsConnected(scenario) ==
  ~PassesSnapped(scenario)
  => \A a, b \in EndNodes(Combined(scenario)) : a[1] = b[1] => a = b

-----------------------------------------------------------------------------
(* get_artificial_segments, for one edge: points is the sequence of the    *)
(* places on it, in quarters of its length, nearest to the starting points *)
(* it serves, in order.  A connector leads from a starting point to the    *)
(* edge; con counts the junctions made.                                    *)

Whole == 4

Source == <<"source">>

Target == <<"target">>

Street(a, b, source, target) ==
  [connector |-> 0, from |-> a, to |-> b, source |-> source, target |-> target]

Connector(i, target) ==
  [connector |-> i, from |-> 0, to |-> 0, source |-> <<"start", i>>, target |-> target]

Emit(acc, seg) == [acc EXCEPT !.out = Append(@, seg)]

Junction(acc, seg) == [acc EXCEPT !.out = Append(@, seg), !.con = @ + 1]

Junct(k) == <<"junction", k>>

(* The edge up to the first point. *)
FirstSegment(points) ==
  LET acc == [out |-> <<>>, con |-> 1]
  IN IF points[1] = 0 THEN acc
     ELSE IF points[1] = Whole
     THEN Emit(acc, Street(0, Whole, Source, Target))
     ELSE Junction(acc, Street(0, points[1], Source, Junct(acc.con)))

(* Mutant: the next piece begins at the junction before the last one. *)
NextSegmentsFromEarlier(points, acc, i) ==
  LET last == points[i - 1]
      here == points[i]
      linked == Emit(acc, Connector(i - 1, Junct(acc.con - 1)))
  IN Junction(linked, Street(last, here, Junct(acc.con - 2), Junct(acc.con)))

(* The connector of point i - 1, then the edge from there to point i. *)
NextSegments(points, acc, i) ==
  LET last == points[i - 1]
      here == points[i]
      linked == Emit(acc, Connector(i - 1,
                  IF last = 0 THEN Source
                  ELSE IF here = Whole THEN Target
                  ELSE Junct(acc.con - 1)))
      source == IF last = 0 THEN Source ELSE Junct(acc.con - 1)
  IN IF here = last THEN linked
     ELSE IF here = Whole
     THEN Emit(linked, Street(last, here, source, Target))
     ELSE Junction(linked, Street(last, here, source, Junct(acc.con)))

(* The connector of the last point, then the rest of the edge. *)
LastSegments(points, acc) ==
  LET last == points[Len(points)]
      linked == Emit(acc, Connector(Len(points),
                  IF last = 0 THEN Source
                  ELSE IF last = Whole THEN Target
                  ELSE Junct(acc.con - 1)))
  IN IF last = Whole THEN linked
     ELSE Emit(linked, Street(last, Whole,
                 IF last = 0 THEN Source ELSE Junct(acc.con - 1), Target))

get_artificial_segments(points) ==
  LET upto[i \in 1..Len(points)] ==
        IF i = 1 THEN FirstSegment(points)
        ELSE NextSegments(points, upto[i - 1], i)
  IN LastSegments(points, upto[Len(points)]).out

(* The node of an edge that lies at a place on it, as the pieces tell. *)
NodesAt(segments, place) ==
  LET streets == {s \in Range(segments) : s.connector = 0}
  IN {s.source : s \in {t \in streets : t.from = place}}
       \cup {s.target : s \in {t \in streets : t.to = place}}

(* The pieces of an edge follow one another from its source to its target, *)
(* two meeting in one junction, different places in different ones; and    *)
(* each starting point is joined to the edge at its own place.  The latter *)
(* is claimed of a point unless the next one lies at the edge's end: then  *)
(* the code looks at the next point's place and joins this one to the end. *)
SegmentsFollow(points) ==
  LET segments == get_artificial_segments(points)
      places == {0, Whole} \cup Range(points)
      join(i) == {s.target : s \in {t \in Range(segments) : t.connector = i}}
  IN /\ NodesAt(segments, 0) = {Source} /\ NodesAt(segments, Whole) = {Target}
     /\ \A p, q \in places : /\ Cardinality(NodesAt(segments, p)) = 1
                             /\ p # q => NodesAt(segments, p) # NodesAt(segments, q)
     /\ \A i \in DOMAIN points :
          \/ join(i) = NodesAt(segments, points[i])
          \/ i < Len(points) /\ points[i + 1] = Whole
=============================================================================
