----------------------------- MODULE MCServices -----------------------------
(***************************************************************************)
(* One run for the services around the core: a behaviour is that of one    *)
(* part, chosen at the start, while the others rest.  Scenario, Workspace, *)
(* Catchment, Isolines and Files have states of their own; for the modules *)
(* of operators a step chooses an input, and the property speaks of it.    *)
(***************************************************************************)
EXTENDS Scenario, Workspace, Catchment, Isolines, StreetNetwork, Heatmap,
        Stations, Sharing, Statistics, Admission, Files

CONSTANTS e1, e2, e3        \* edges of the street network

VARIABLES part,             \* the part that runs
          input             \* of its operators

Actors == Permutations(Calls) \cup Permutations(Runs)

MCTableTypes == <<"point", "no_geometry">>

-----------------------------------------------------------------------------
(* Streets: 1 --2-- 3 --4-- 5, and 3 -- 6; at 2 and 4 there is no node.    *)
MCStreets ==
  {[id |-> e1, path |-> <<1, 2, 3>>, source |-> 1, target |-> 2],
   [id |-> e2, path |-> <<3, 4, 5>>, source |-> 2, target |-> 3],
   [id |-> e3, path |-> <<3, 6>>, source |-> 2, target |-> 4]}

MCNodeAt == (1 :> 1) @@ (3 :> 2) @@ (5 :> 3) @@ (6 :> 4)

(* Lines from anywhere to anywhere, with and without a bend, that do not   *)
(* run along a street.                                                     *)
DrawnLines ==
  {p \in {<<a, b>> : a, b \in 1..7} \cup {<<a, b, c>> : a \in {1, 2, 7}, b \in {3, 4, 7}, c \in {2, 5, 6}} :
     /\ IsInjective(p)
     /\ Segments(p) \cap SegmentsOf(Streets) = {}}

MCFeature(i, original, edit, p) ==
  [id |-> i, feature |-> original, edit |-> edit, path |-> p]

FirstFeatures ==
  {MCFeature(1, Drawing, "n", p) : p \in DrawnLines}
    \cup {MCFeature(1, s.id, edit, s.path) : s \in Streets, edit \in {"d", "m"}}
    \cup {MCFeature(1, e1, "m", p) : p \in {<<1, 7, 3>>, <<1, 7>>, <<1, 2, 7>>, <<1, 4>>}}

SecondFeatures ==
  {MCFeature(2, Drawing, "n", p) : p \in {<<2, 4>>, <<2, 7>>, <<3, 7, 4>>, <<2, 6>>, <<1, 3>>}}
    \cup {MCFeature(2, e1, "m", <<7, 2, 3>>), MCFeature(2, e2, "m", <<3, 4, 5>>)}
    \cup {MCFeature(2, e3, "d", <<3, 6>>)}

Apart(f, g) ==
  /\ f.feature = Drawing \/ f.feature # g.feature
  /\ f.edit = "d" \/ g.edit = "d" \/ Segments(f.path) \cap Segments(g.path) = {}

MCScenarios ==
  {{f} : f \in FirstFeatures}
    \cup {{x[1], x[2]} : x \in {y \in FirstFeatures \X SecondFeatures : Apart(y[1], y[2])}}

Ordered_places ==
  {p \in UNION {[1..n -> 0..Whole] : n \in 1..4} : \A i, k \in DOMAIN p : i <= k => p[i] <= p[k]}

ChooseStreets ==
  /\ part = "streets"
  /\ \/ \E s \in MCScenarios : input' = <<"network", s>>
     \/ \E p \in Ordered_places : input' = <<"edge", p>>

-----------------------------------------------------------------------------
(* Two shards, three cells, the last of two places. *)
MCShardOf == (0 :> 1) @@ (1 :> 1) @@ (2 :> 2) @@ (3 :> 2)

MCHexOf == (0 :> 10) @@ (1 :> 11) @@ (2 :> 12) @@ (3 :> 12)

ASSUME PlacesAssumption == 0..3 \subseteq DOMAIN HexOf

(* The second place of the first shard is at a border, and the shape of    *)
(* the two of the other has so many vertices that it is subdivided.        *)
MCAtBorder == {1}

MCSubdivided(at) == IF at = {2, 3} THEN {{2}, {3}} ELSE {at}

MCSource(id, at, group, value) ==
  [row |-> id, id |-> id, at |-> at, group |-> group, value |-> value]

MCEdit(origin, edit, f) == [origin |-> origin, edit |-> edit, feature |-> f]

SourceEdits ==
  {{}, {MCEdit(1, "d", MCSource(8, {3}, <<5>>, 2))},
   {MCEdit(1, "m", MCSource(8, {3}, <<5, Null>>, 7))},
   {MCEdit(Null, "n", MCSource(8, {0}, <<5>>, 7)), MCEdit(2, "m", MCSource(9, {1}, <<5, Null>>, 3))}}

AreaEdits ==
  {{}, {MCEdit(21, "m", MCSource(28, {3}, <<5>>, 2)), MCEdit(Null, "n", MCSource(29, {1}, <<5>>, 2))}}

Shapes == {{0}, {0, 1}, {1, 2, 3}, {3}, {2, 3}}

SourceLayers ==
  {[features |-> {MCSource(1, a, <<5, Null>>, 2), MCSource(2, b, <<Null, 6>>, 3)}, hidden |-> {}, edits |-> e] :
     a \in Shapes, b \in Shapes, e \in SourceEdits}

AreaLayers ==
  {[features |-> {MCSource(21, a, <<5>>, 0), MCSource(22, b, <<6>>, 0)}, hidden |-> h, edits |-> e] :
     h \in {{}, {MCSource(23, {0}, <<6>>, 0)}}, a \in {{0}, {1}, {1, 2}}, b \in {{1, 2, 3}, {2, 3}}, e \in AreaEdits}

NoAreas == [features |-> {}, hidden |-> {}, edits |-> {}]

Points_only(l) ==
  \A f \in l.features \cup {d.feature : d \in l.edits} : Cardinality(f.at) = 1

Aggregation(s, a, op, weighted, by_group, points_only) ==
  [source |-> s, areas |-> a, op |-> op, weighted |-> weighted, by_group |-> by_group,
   points |-> points_only]

Targets == {{[row |-> 1, key |-> k1, look |-> 1], [row |-> 2, key |-> k2, look |-> l2]} :
              k1 \in 1..2, k2 \in 1..3, l2 \in 1..2}

MCPoint(row, id, text) == [row |-> row, id |-> id, text_attr2 |-> text]

Geometries ==
  {{MCPoint(1, 1, 1), MCPoint(2, i2, t2), MCPoint(3, i3, t3)} :
     i2 \in 1..2, i3 \in 2..3, t2 \in 1..2, t3 \in {1, 3}}

ChooseTool ==
  /\ part = "tools"
  /\ \/ \E s \in SourceLayers, a \in AreaLayers, op \in {"count", "max"}, w, p \in BOOLEAN :
          /\ p => Points_only(s) /\ ~w
          /\ input' = <<"by layer", Aggregation(s, a, op, w, TRUE, p)>>
     \/ \E s \in SourceLayers, op \in {"count", "sum", "min"}, w, g, p \in BOOLEAN :
          /\ p => Points_only(s) /\ ~w
          /\ input' = <<"by grid", Aggregation(s, NoAreas, op, w, g, p)>>
     \/ \E t \in Targets, j \in SUBSET [row : 1..2, key : 1..2, value : {2}], op \in {"count", "sum"} :
          input' = <<"join", t, j, op>>
     \/ \E g \in Geometries, m, n \in [row : {1}, from : 1..2, to : 1..3, weight : {4, 5}] :
          input' = <<"flows", g, {m, [n EXCEPT !.row = 2]}>>

-----------------------------------------------------------------------------
MCRow(h, orig, dests, minutes) ==
  [h3_3 |-> h, orig |-> orig, dests |-> dests, traveltime |-> minutes]

MCMatrix ==
  {MCRow(1, 10, {10}, 1), MCRow(1, 10, {11}, 3), MCRow(1, 10, {12}, 5), MCRow(1, 11, {11}, 1),
   MCRow(1, 11, {10, 12}, 2), MCRow(2, 12, {12}, 1), MCRow(2, 12, {11}, 4)}

MCImpedance(t, sensitivity, longest) == longest - t + sensitivity

(* What is near enough is worth something, in whole numbers. *)
ASSUME ImpedanceAssumption ==
  \A t \in 0..5, sensitivity \in 1..2, longest \in 3..5 :
    t <= longest => Impedance(t, sensitivity, longest) \in Nat

MCCentre == (10 :> 0) @@ (11 :> 1) @@ (12 :> 3)

MCPlace(id, at, whole, inside) ==
  [row |-> id, id |-> id, at |-> at, whole |-> whole, inside |-> inside, value |-> id]

MCPointAt(id, p) == MCPlace(id, {p}, {p}, {})

MCLayer(fs, edits, limit, n, sensitivity, areas) ==
  [features |-> fs, edits |-> edits, max_traveltime |-> limit, n |-> n,
   sensitivity |-> sensitivity, areas |-> areas]

PointLayers ==
  {MCLayer({MCPointAt(1, p), MCPointAt(2, q)}, e, limit, n, 1, FALSE) :
     p \in {0, 1, 3}, q \in {0, 3}, limit \in {3, 5}, n \in 1..2,
     e \in {{}, {MCEdit(1, "d", MCPointAt(8, 3))}, {MCEdit(Null, "n", MCPointAt(8, 1))}}}

(* Outline, whole and cells; the last lies around the narrowest fence.     *)
Outlines ==
  {<<{0, 1}, {0, 1}, {11}>>, <<{0, 1}, {0, 1}, {10, 12}>>, <<{3}, {3}, {11}>>,
   <<{0, 3}, 0..3, {10, 11}>>}

PolygonLayers ==
  {MCLayer({MCPlace(4, o[1], o[2], o[3])}, {}, 4, n, 2, TRUE) : o \in Outlines, n \in {1, 3}}
    \cup {MCLayer({MCPlace(4, o[1], o[2], o[3]), MCPlace(5, q[1], q[2], q[3])}, {}, 4, 1, 2, TRUE) :
            o \in Outlines, q \in Outlines}

(* Fences of the times 3 to 5: all but a place, and one that grows.        *)
Fences == {[t \in 3..5 |-> {0, 1, 3}], [t \in 3..5 |-> IF t = 5 THEN {0, 1, 2} ELSE {1, 2}]}

ChooseHeatmap ==
  /\ part = "heatmap"
  /\ \/ \E l \in PointLayers, m \in PolygonLayers, fence \in Fences :
          \E ls \in {{l}, {m}, {l, m}} : input' = <<"opportunities", ls, fence>>
     \/ \E m \in PolygonLayers : input' = <<"reference", m>>

-----------------------------------------------------------------------------
(* Three stops, two of them of one station, and the modes of three types.  *)
MCModeOf == (1 :> "metro") @@ (2 :> "rail") @@ (3 :> "bus")

MCPTModes == <<"rail", "metro", "tram", "bus", "other">>

TwoHours == [from |-> 420, to |-> 540, weekday |-> 1]

MCStops ==
  {[id |-> "p", parent |-> Missing, at |-> 2, is_stop |-> FALSE],
   [id |-> "a", parent |-> "p", at |-> 1, is_stop |-> TRUE],
   [id |-> "b", parent |-> "p", at |-> 3, is_stop |-> TRUE],
   [id |-> "c", parent |-> Missing, at |-> 4, is_stop |-> TRUE]}

ASSUME MissingAssumption == \A s \in MCStops : s.id # Missing

(* A trip is <<type, route, weekdays>>; type 9 has no mode. *)
Trips == {<<1, 2, {1}>>, <<3, 1, {1}>>, <<9, 2, {1, 2}>>, <<3, 2, {2}>>}

Departure(n, stop, trip, time) ==
  [row |-> n, stop |-> stop, route |-> trip[2], type |-> trip[1], time |-> time, days |-> trip[3]]

MCConfig ==
  [groups |-> <<1, 1, 2>>, time_frequency |-> <<61, 121, 200>>,
   categories |-> <<<<1, 2>>, <<2, 3>>, <<3>>>>,
   classification |-> <<[d \in {100, 150} |-> IF d = 100 THEN 1 ELSE 2],
                        [d \in {50, 100, 200} |-> IF d = 50 THEN 1 ELSE IF d = 100 THEN 2 ELSE 3],
                        [d \in {50} |-> 2]>>]

Classified == {[at |-> p, id |-> p, class |-> c] : p \in {1, 3, 6}, c \in {1, 2, 3, Worst}}

ChooseStops ==
  /\ part = "stations"
  /\ \/ \E area \in {0..5, 0..3}, s1, s2, s3 \in {"a", "b", "c"}, k1, k2, k3 \in Trips,
           t1 \in {419, 420}, t2 \in {540, 541}, routes \in {{1}, {1, 2}} :
          input' = <<"trips", area, {Departure(1, s1, k1, t1), Departure(2, s2, k2, t2),
                                     Departure(3, s3, k3, 500)}, routes>>
     \/ \E s, t, u \in Classified, catchment \in {"buffer", "network"} :
          input' = <<"classes", {s, t, u}, catchment>>

-----------------------------------------------------------------------------
(* The answers of the routing engine: what is reached of nine pixels, in   *)
(* every way, and all around them out of reach; an island in a hole; and   *)
(* slopes, asked for in fewer and in more steps than minutes.              *)
Surface(w, h, Time(_)) ==
  [width |-> w, height |-> h, time |-> [p \in (0..(w - 1)) \X (0..(h - 1)) |-> Time(p)]]

Island(p) ==
  \/ p[1] \in {1, 7} \/ p[2] \in {1, 7}
  \/ p[1] \in 3..5 /\ p[2] \in 3..5 /\ p # <<4, 4>>

NothingReached == <<Surface(2, 2, LAMBDA p : 9), <<1, 1>>>>

MCAnswers ==
  {<<Surface(6, 5, LAMBDA p : IF p \in s THEN 0 ELSE 9), <<2, 1>>>> : s \in SUBSET ((1..3) \X (1..3))}
    \cup {NothingReached}
    \cup {<<Surface(9, 9, LAMBDA p : IF Island(p) THEN 0 ELSE 9), <<2, 1>>>>}
    \cup {<<Surface(5, 5, LAMBDA p : (p[1] * a + p[2]) % 4), r>> : a \in 0..3, r \in {<<2, 3>>, <<3, 2>>}}

-----------------------------------------------------------------------------
MCContent(id, user, folder, catalog) ==
  [id |-> id, user |-> user, folder |-> folder, catalog |-> catalog]

Contents == {MCContent("a", "u", "f", TRUE), MCContent("b", "u", "g", FALSE),
             MCContent("c", "v", "h", TRUE)}

SharedWith ==
  {{[row |-> i, content |-> f[i][1], to |-> f[i][2], role |-> f[i][3]] : i \in DOMAIN f} :
     f \in UNION {[1..n -> {"a", "c"} \X {"t1", "t2"} \X {"r1", "r2"}] : n \in 0..2}}

FewShared == {{}, {[row |-> 1, content |-> "a", to |-> "t1", role |-> "r1"]},
              {[row |-> i, content |-> "a", to |-> "t2", role |-> "r1"] : i \in 1..2},
              {[row |-> 1, content |-> "a", to |-> "t1", role |-> "r1"],
               [row |-> 2, content |-> "c", to |-> "t1", role |-> "r2"]}}

MCRequest(user, folder, team, organization, catalog) ==
  [user |-> user, folder |-> folder, team |-> team, organization |-> organization,
   catalog |-> catalog]

Requests ==
  {MCRequest("u", f, NotGiven, NotGiven, c) : f \in {NotGiven, "f"}, c \in {NotGiven, FALSE}}
    \cup {MCRequest("u", "f", "t1", NotGiven, c) : c \in {NotGiven, TRUE}}
    \cup {MCRequest("u", NotGiven, NotGiven, "t1", c) : c \in {NotGiven, TRUE}}

ChooseLists ==
  /\ part = "sharing"
  /\ \E t \in SharedWith, o \in FewShared, r \in Requests : input' = <<"lists", t, o, r>>

-----------------------------------------------------------------------------
Columns == UNION {[1..n -> {Null, 0, 1, 3, 4}] : n \in 1..4}

ChartAreas == {[id |-> 1, x |-> 1, old |-> 0], [id |-> 2, x |-> 2, old |-> 1],
               [id |-> 3, x |-> 1, old |-> 0]}

ChartSources ==
  {{[row |-> i, area |-> f[i][1], group |-> f[i][2], value |-> f[i][3]] : i \in DOMAIN f} :
     f \in UNION {[1..n -> {1, 2, 3} \X {"g", "h"} \X {1, 2}] : n \in 0..2}}

ChooseStatistics ==
  /\ part = "statistics"
  /\ \/ \E s \in ChartSources, n \in {{}, {0}, {2}}, op \in {"sum", "max", "count"}, g, c \in BOOLEAN :
          input' = <<"chart", s, n, op, g, c>>
     \/ \E v \in [1..3 -> {Null, 1, 2}], g \in [1..3 -> {1, 2}], op \in {"sum", "max"},
           o \in {"descendent", "ascendent"}, n \in 1..2 :
          input' = <<"values", v, g, op, o, n>>
     \/ \E v \in Columns, n \in 1..3 : input' = <<"breaks", v, n>>

-----------------------------------------------------------------------------
(* At most two features and two coordinates, one for public transport, and *)
(* three places of area, of which a network has a third.                   *)
MCMaxFeatureCnt == [t \in Tools_limited |-> 2]

MCMaxArea == [t \in {"oev_gueteklasse", "aggregate_polygon", "trip_count_station"} |-> 3]

MCMaxStartingPoints ==
  [t \in Catchments \cup {"nearby_station_access"} |-> IF t = "catchment_area_pt" THEN 1 ELSE 2]

MCMaxTraveltime == ("walking" :> 30) @@ ("car" :> 60)

(* What a parameter may name: layers of every kind, empty, hidden by their *)
(* filter, too large, and edited by a scenario.                            *)
ProjectLayer(kind, features, hidden, edits) ==
  [kind |-> kind, features |-> features, hidden |-> hidden, edits |-> edits]

Three == {MCSource(i, {i}, <<5>>, i) : i \in 0..2}

Points == ProjectLayer("point", {f \in Three : f.id # 2}, {}, {MCEdit(1, "m", MCSource(8, {3}, <<5>>, 2))})

Areas == ProjectLayer("polygon", {MCSource(4, {0, 1}, <<5>>, 4), MCSource(5, {3}, <<5>>, 4)}, {},
                      {MCEdit(Null, "n", MCSource(9, {2}, <<5>>, 2))})

MCProject ==
  [n \in {"points", "crowd", "hidden", "areas", "plot", "wide", "lines", "table"} |->
     CASE n = "points" -> Points
       [] n = "crowd" -> ProjectLayer("point", Three, {}, {})
       [] n = "hidden" -> ProjectLayer("point", {}, Three, {})
       [] n = "areas" -> Areas
       [] n = "plot" -> ProjectLayer("polygon", {MCSource(6, {1}, <<5>>, 4)}, {}, {})
       [] n = "wide" -> ProjectLayer("polygon", {MCSource(6, {0, 1, 2, 3}, <<5>>, 4)}, {}, {})
       [] n = "lines" -> ProjectLayer("line", {MCSource(7, {0, 1}, <<5>>, 4)}, {}, {})
       [] n = "table" -> ProjectLayer("table", {MCSource(7, {}, <<5>>, 4)}, {}, {})]

Named(parameters) == UNION {[s -> DOMAIN MCProject] : s \in SUBSET parameters}

FewNamed ==
  (UNION {[{"layer_project_id"} -> {"points", "crowd", "hidden"}], [{"edge_layer_project_id"} -> {"lines"}],
          [{"node_layer_project_id"} -> {"points"}]})
    \cup {<<>>, [p \in {"layer_project_id", "edge_layer_project_id"} |->
                  IF p = "layer_project_id" THEN "points" ELSE "wide"]}

CatchmentRequests ==
  [tool : Catchments, layers : FewNamed, lat : 0..3, lon : {0, 2}, cost : {"time", "distance"},
   max : {1, 46, 90, 91}, steps : {2, 46}, type : {"polygon", "network"}, difference : {"yes", NotSet}]

StationRequests ==
  [tool : {"nearby_station_access"}, layers : FewNamed, lat : 0..3, lon : {0, 2}, max : {1, 15, 16}]

AggregationRequests ==
  [tool : Aggregations, layers : Named({"source_layer_project_id", "aggregation_layer_project_id"}),
   area_type : {"feature", "h3_grid"}, h3_resolution : {8, 11, NotSet},
   operation : {"count", "sum"}, field : {"f", NotSet}]

HeatmapRequests ==
  [tool : HeatmapsOfOpportunities, layers : Named({"opportunity_geofence_layer_project_id"}),
   opportunities : {{[layer |-> l, max_traveltime |-> t], [layer |-> "points", max_traveltime |-> 30]} :
                      l \in DOMAIN MCProject, t \in {30, 31}},
   routing_type : {"walking", "car"}]
    \cup [tool : {"heatmap_connectivity"}, layers : Named({"reference_area_layer_project_id"}),
           max : {30, 31, 61}, routing_type : {"walking", "car"}]

OtherRequests ==
  UNION {[tool : {"join"}, layers : Named({"target_layer_project_id", "join_layer_project_id"})],
         [tool : {"origin_destination"},
          layers : Named({"geometry_layer_project_id", "origin_destination_matrix_layer_project_id"})],
         [tool : {"trip_count_station"}, layers : Named({"reference_area_layer_project_id"})],
         [tool : {"oev_gueteklasse"}, layers : Named({"reference_area_layer_project_id"}),
          catchment_type : {"buffer", "network"}]}

BufferRequests ==
  [tool : {"buffer"}, layers : Named({"source_layer_project_id"}), max_distance : 1..4,
   distance_step : 1..4, union : {"yes", "no", NotSet}, difference : {"yes", "no", NotSet}]

(* Parameters a tool cannot do without are named, and none it has not.     *)
Complete(r) ==
  /\ r.tool = "catchment_area_pt" => DOMAIN r.layers \subseteq {"layer_project_id"}
  /\ DOMAIN input_layer_types(r)
       \cap {"source_layer_project_id", "target_layer_project_id", "join_layer_project_id",
             "geometry_layer_project_id", "origin_destination_matrix_layer_project_id",
             "reference_area_layer_project_id"} \subseteq DOMAIN r.layers

ChooseRequest ==
  /\ part = "admission"
  /\ \/ \E r \in CatchmentRequests \cup AggregationRequests \cup HeatmapRequests \cup OtherRequests :
          Complete(r) /\ input' = <<"request", r>>
     \/ \E r \in StationRequests : input' = <<"stations", r>>
     \/ \E r \in BufferRequests, id \in 1..2 :
          \E kept \in Kept(r) :
            Complete(r) /\ input' = <<"buffer", r, {MCSource(1, {0}, <<5>>, 2), MCSource(id, {3}, <<5>>, 2)}, kept>>

-----------------------------------------------------------------------------
Parts == {"scenario", "workspace", "catchment", "isolines", "streets", "tools",
          "heatmap", "stations", "sharing", "statistics", "admission", "files"}

InputKinds == {"none", "network", "edge", "by layer", "by grid", "join", "flows", "opportunities",
               "reference", "trips", "classes", "lists", "chart", "values", "breaks", "request",
               "stations", "buffer"}

(* The states the parts at rest are left in: any one of theirs. *)
SomeKind == [mode |-> "routing", type |-> "polygon", from |-> "layer", points |-> 0]

Init ==
  /\ part \in Parts /\ input = <<"none">>
  /\ ScenarioInit /\ WorkspaceInit /\ FilesInit
  /\ CatchmentInit
  /\ part # "catchment" => \A j \in Runs : job[j].kind = SomeKind
  /\ IsolineInit
  /\ part # "isolines" => <<surface, request>> = NothingReached

ChooseInput ==
  /\ input = <<"none">>
  /\ \/ ChooseStreets \/ ChooseTool \/ ChooseHeatmap \/ ChooseStops
     \/ ChooseLists \/ ChooseStatistics \/ ChooseRequest
  /\ UNCHANGED <<part, scenarioVars, workspaceVars, catchmentVars, isolineVars, filesVars>>

Next ==
  \/ /\ part = "scenario" /\ ScenarioNext
     /\ UNCHANGED <<part, input, workspaceVars, catchmentVars, isolineVars, filesVars>>
  \/ /\ part = "workspace" /\ WorkspaceNext
     /\ UNCHANGED <<part, input, scenarioVars, catchmentVars, isolineVars, filesVars>>
  \/ /\ part = "catchment" /\ CatchmentNext
     /\ UNCHANGED <<part, input, scenarioVars, workspaceVars, isolineVars, filesVars>>
  \/ /\ part = "isolines" /\ IsolineNext
     /\ UNCHANGED <<part, input, scenarioVars, workspaceVars, catchmentVars, filesVars>>
  \/ /\ part = "files" /\ FilesNext
     /\ UNCHANGED <<part, input, scenarioVars, workspaceVars, catchmentVars, isolineVars>>
  \/ ChooseInput

Spec == Init /\ [][Next]_<<part, input, scenarioVars, workspaceVars, catchmentVars, isolineVars, filesVars>>

-----------------------------------------------------------------------------
(* The state of every part keeps its types: the rows and links of          *)
(* crud_scenario.py, a user's workspace, catchment jobs, isolines, files.  *)
ServicesTypeOK ==
  /\ part = "scenario" => ScenarioTypeOK
  /\ part = "workspace" => WorkspaceTypeOK
  /\ part = "catchment" => CatchmentTypeOK
  /\ part = "isolines" => IsolineTypeOK
  /\ part = "files" => FilesTypeOK
  /\ part \in Parts /\ input[1] \in InputKinds

(* produce_network_modifications: the network is what was left and drawn,  *)
(* and edges that meet share their node.                                   *)
ModifiedNetworkIsDrawn ==
  input[1] = "network" => NetworkIsWhatWasDrawn(input[2]) /\ NetworkIsConnected(input[2])

(* get_artificial_segments: an edge is cut where its starting points are.  *)
CutEdgeFollows == input[1] = "edge" => SegmentsFollow(input[2])

(* crud_geoanalysis.py: every feature counts once in every area, or cell,  *)
(* it meets.  crud_data_management.py and the origin-destination tool:     *)
(* joined rows and flows are what the tables say of each pair.             *)
ToolResultsAreExact ==
  /\ input[1] = "by layer" => AggregationByLayerIsExact(input[2])
  /\ input[1] = "by grid" => AggregationByGridIsExact(input[2])
  /\ input[1] = "join" => JoinIsExact(input[2], input[3], input[4])
  /\ input[1] = "flows" => FlowsAreExact(input[2], input[3])

(* crud_heatmap_*.py: a cell is worth what it can reach in time.           *)
HeatmapIsExact ==
  /\ input[1] = "opportunities" => /\ ClosestAverageIsExact(input[2], input[3])
                                   /\ GravityIsBounded(input[2], input[3])
  /\ input[1] = "reference" => ConnectivityIsExact(input[2])

(* crud_trip_count_station.py, crud_nearby_station_access.py: each         *)
(* departure of the window counts once, at its stop.                       *)
DeparturesAreCounted ==
  input[1] = "trips" =>
    \A modes \in {{"bus"}, {"bus", "metro"}} :
      TripsAreCounted(input[2], MCStops, input[3], TwoHours, modes, input[4])

(* crud_oev_gueteklasse.py: more service is never a worse class of a stop, *)
(* and every place has the best class offered to it.                       *)
BetterServiceWins ==
  /\ input[1] = "trips" => MoreTripsNeverHurt(input[2], MCStops, input[3], TwoHours, MCConfig)
  /\ input[1] = "classes" => PlacesGetTheirBestClass(input[2], MCConfig, input[3])

(* core/content.py: lists of owners, teams and organizations.              *)
ListsAreExact ==
  input[1] = "lists" => SharedListsAreExact(Contents, input[2], input[3], input[4])

(* core/chart.py and the figures of columns: charts show the statistic of  *)
(* the sources; values and groups are listed by rank, none twice.  The     *)
(* *_breaks.sql and the histogram: classes and bins cover the values.      *)
FiguresAreExact ==
  /\ input[1] = "chart" =>
       ChartIsOfTheSources(ChartAreas, input[3], input[2], input[4], input[5], input[6])
  /\ input[1] = "values" =>
       ValuesAreRanked(input[2], input[3], input[4], input[5], input[6])
  /\ input[1] = "breaks" => BreaksSplitTheValues(input[2], input[3])

(* schemas, core/tool.py and crud_geoprocessing.py: accepted requests keep *)
(* within the limits of their tool and, within them, are served; buffers   *)
(* reach as far as each step says.                                         *)
AdmittedRequestsAreServed ==
  /\ input[1] = "request" => LimitsHold(input[2], MCProject) /\ WithinLimitsIsServed(input[2], MCProject)
  /\ input[1] = "stations" => NearbyStationsAreAskedFor(input[2])
  /\ input[1] = "buffer" => /\ LimitsHold(input[2], MCProject)
                            /\ WithinLimitsIsServed(input[2], MCProject)
                            /\ BuffersReachTheirStep(input[2], input[3], input[4])
=============================================================================
