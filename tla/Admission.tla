----------------------------- MODULE Admission ------------------------------
(***************************************************************************)
(* Which requests for a tool are accepted (the validators in schemas), and *)
(* which of them find layers they may work on (get_layers_project in       *)
(* core/tool.py, fetch_opportunity_layers in crud_heatmap.py); and the     *)
(* buffers an accepted request asks for (crud_geoprocessing.py).           *)
(*                                                                         *)
(* A request is a record of its parameters, with "layers" for the layers   *)
(* it names: a function of parameter names.  The opportunities of heatmaps *)
(* come as a list of their own.  Layers are those of Tools, with their     *)
(* kind: a geometry or "table".                                            *)
(***************************************************************************)
EXTENDS Tools, Functions

CONSTANTS MaxFeatureCnt,                \* tool -> features of a layer
          MaxFeaturePolygonArea,        \* tool -> places, of some tools
          NetworkPart,                  \* 10: networks have a tenth of them
          MaxStartingPoints,            \* tool -> coordinates
          MaxTravelTimeTransportMode,   \* routing type -> minutes
          NotSet

Catchments == {"catchment_area_active_mobility", "catchment_area_pt", "catchment_area_car",
               "catchment_area_nearby_station_access"}

Aggregations == {"aggregate_point", "aggregate_polygon"}

HeatmapsOfOpportunities == {"heatmap_gravity", "heatmap_closest_average"}

Heatmaps == HeatmapsOfOpportunities \cup {"heatmap_connectivity"}

Tools_limited == Catchments \cup Aggregations \cup Heatmaps
                   \cup {"join", "origin_destination", "buffer", "oev_gueteklasse",
                        "trip_count_station"}

(* Every tool has its limit.  As many coordinates as points of a layer, or *)
(* fewer; and a request for stations takes no more of them than the        *)
(* catchment area it asks for.                                             *)
ASSUME LimitsAssumption ==
  /\ Tools_limited \subseteq DOMAIN MaxFeatureCnt
  /\ \A t \in DOMAIN MaxFeatureCnt : MaxFeatureCnt[t] \in Nat
  /\ Catchments \cup {"nearby_station_access"} \subseteq DOMAIN MaxStartingPoints
  /\ \A t \in DOMAIN MaxStartingPoints : MaxStartingPoints[t] \in Nat
  /\ \A t \in Catchments : MaxStartingPoints[t] <= MaxFeatureCnt[t]
  /\ MaxStartingPoints["nearby_station_access"]
       <= MaxStartingPoints["catchment_area_nearby_station_access"]

(* What is not set is neither a yes nor a no. *)
ASSUME NotSetAssumption == NotSet \notin {"yes", "no"}

Names(r, p) == p \in DOMAIN r.layers

-----------------------------------------------------------------------------
(* Starting points: coordinates or a layer.  lat and lon count the given   *)
(* latitudes and longitudes; of only one of them nothing is asked.         *)
check_starting_points(r) ==
  IF r.lat > 0 /\ r.lon > 0
  THEN ~Names(r, "layer_project_id") /\ r.lat = r.lon /\ r.lat <= MaxStartingPoints[r.tool]
  ELSE Names(r, "layer_project_id")

(* The steps are compared with a bound of their own, not with the cost.    *)
TravelTimeCostActiveMobility(r) ==
  r.cost = "time" /\ r.max \in 1..45 /\ r.steps <= 45

TravelTimeCostMotorizedMobility(r) ==
  r.cost = "time" /\ r.max \in 1..90

TravelDistanceCost(r) ==
  r.cost = "distance" /\ r.max \in 50..20000 /\ r.steps <= 20000

CatchmentAreaStreetNetwork(r) ==
  Names(r, "node_layer_project_id") => Names(r, "edge_layer_project_id")

check_polygon_difference(r) == (r.type = "polygon") = (r.difference # NotSet)

ICatchmentAreaActiveMobility(r) ==
  /\ check_starting_points(r) /\ CatchmentAreaStreetNetwork(r) /\ check_polygon_difference(r)
  /\ TravelTimeCostActiveMobility(r) \/ TravelDistanceCost(r)

CatchmentAreaNearbyStationAccess(r) == ICatchmentAreaActiveMobility(r)

ICatchmentAreaCar(r) ==
  /\ check_starting_points(r) /\ CatchmentAreaStreetNetwork(r) /\ check_polygon_difference(r)
  /\ TravelTimeCostMotorizedMobility(r) \/ TravelDistanceCost(r)

ICatchmentAreaPT(r) ==
  /\ check_starting_points(r) /\ check_polygon_difference(r)
  /\ TravelTimeCostMotorizedMobility(r)
  /\ r.type \in {"polygon", "rectangular_grid"}

INearbyStationAccess(r) ==
  /\ check_starting_points(r)
  /\ r.max \in 1..15
  /\ CatchmentAreaStreetNetwork(r)

(* The catchment area of which the stations are listed. *)
catchment_area_request(r) ==
  [tool |-> "catchment_area_nearby_station_access", layers |-> r.layers, lat |-> r.lat,
   lon |-> r.lon, cost |-> "time", max |-> r.max, steps |-> r.max, type |-> "polygon",
   difference |-> "yes"]

(* The validator that is to refuse an area layer beside a grid never sees  *)
(* both: a field's own value is not among the values it is given.          *)
IAggregation(r) ==
  /\ r.h3_resolution = NotSet \/ r.h3_resolution \in 3..10
  /\ r.area_type = "h3_grid" => r.h3_resolution # NotSet
  /\ r.area_type = "feature" => Names(r, "aggregation_layer_project_id")
  /\ (r.operation = "count") = (r.field = NotSet)

IOevGueteklasse(r) == Names(r, "reference_area_layer_project_id")

LongestBuffer == 5000000

(* Without a word on the union, a difference is accepted.                  *)
IBuffer(r) ==
  /\ r.max_distance \in 1..LongestBuffer /\ r.distance_step \in 1..20
  /\ r.distance_step <= r.max_distance
  /\ ~(r.union = "no" /\ r.difference = "yes")

Traveltimes(r) ==
  IF r.tool \in HeatmapsOfOpportunities THEN {o.max_traveltime : o \in r.opportunities} ELSE {r.max}

IHeatmap(r) ==
  \A t \in Traveltimes(r) : t \in 1..60 /\ t <= MaxTravelTimeTransportMode[r.routing_type]

Accepted(r) ==
  /\ r.tool = "catchment_area_active_mobility" => ICatchmentAreaActiveMobility(r)
  /\ r.tool = "catchment_area_nearby_station_access" => CatchmentAreaNearbyStationAccess(r)
  /\ r.tool = "catchment_area_car" => ICatchmentAreaCar(r)
  /\ r.tool = "catchment_area_pt" => ICatchmentAreaPT(r)
  /\ r.tool = "nearby_station_access" => INearbyStationAccess(r)
  /\ r.tool \in Aggregations => IAggregation(r)
  /\ r.tool \in Heatmaps => IHeatmap(r)
  /\ r.tool = "buffer" => IBuffer(r)
  /\ r.tool = "oev_gueteklasse" => IOevGueteklasse(r)

-----------------------------------------------------------------------------
StreetNetworkTypes ==
  [p \in {"edge_layer_project_id", "node_layer_project_id"} |->
     IF p = "edge_layer_project_id" THEN {"line"} ELSE {"point"}]

AnyGeometry == {"point", "line", "polygon"}

IJoin_layer_types ==
  [p \in {"target_layer_project_id", "join_layer_project_id"} |-> AnyGeometry \cup {"table"}]

IOriginDestination_layer_types ==
  [p \in {"geometry_layer_project_id", "origin_destination_matrix_layer_project_id"} |->
     IF p = "geometry_layer_project_id" THEN {"point", "polygon"} ELSE {"table"}]

IAggregation_layer_types(r) ==
  [p \in {"source_layer_project_id"}
           \cup (IF r.area_type = "feature" THEN {"aggregation_layer_project_id"} ELSE {}) |->
     IF p = "source_layer_project_id" /\ r.tool = "aggregate_point" THEN {"point"} ELSE {"polygon"}]

HeatmapLayerTypes ==
  [p \in {"opportunity_layer_project_id", "opportunity_geofence_layer_project_id"} |->
     IF p = "opportunity_layer_project_id" THEN {"point", "polygon"} ELSE {"polygon"}]

ICatchmentArea_layer_types(r) ==
  [p \in {"layer_project_id"}
           \cup (IF r.tool = "catchment_area_pt" THEN {} ELSE DOMAIN StreetNetworkTypes) |->
     IF p = "layer_project_id" THEN {"point"} ELSE StreetNetworkTypes[p]]

input_layer_types(r) ==
  CASE r.tool \in Catchments -> ICatchmentArea_layer_types(r)
    [] r.tool \in Aggregations -> IAggregation_layer_types(r)
    [] r.tool \in HeatmapsOfOpportunities -> HeatmapLayerTypes
    [] r.tool = "join" -> IJoin_layer_types
    [] r.tool = "origin_destination" -> IOriginDestination_layer_types
    [] r.tool = "buffer" -> [p \in {"source_layer_project_id"} |-> AnyGeometry]
    [] OTHER -> [p \in {"reference_area_layer_project_id"} |-> {"polygon"}]

get_internal(layer, kinds) == layer.kind \in kinds

(* filtered_count or total_count: none counts as no filter at all. *)
feature_cnt(layer) ==
  IF layer.features # {} THEN Cardinality(layer.features) ELSE Cardinality(layer.hidden)

check_max_feature_cnt(r, layers) ==
  \A l \in layers : feature_cnt(l) <= MaxFeatureCnt[r.tool]

(* The areas and their sources limit each other to their extents.          *)
Other(p) ==
  IF p = "source_layer_project_id" THEN "aggregation_layer_project_id" ELSE "source_layer_project_id"

Limited(r, layer) ==
  IF r.tool \in Aggregations /\ DOMAIN r.layers = DOMAIN input_layer_types(r) /\ r.area_type = "feature"
  THEN [p \in DOMAIN r.layers |->
          [layer[p] EXCEPT !.features = build_additional_spatial_filter(layer[p], layer[Other(p)])]]
  ELSE layer

check_max_feature_cnt_aggregation(r, limited) ==
  \A p \in DOMAIN limited : Cardinality(limited[p].features) <= MaxFeatureCnt[r.tool]

area_statistics(layer) == MapThenSumSet(LAMBDA f : Cardinality(f.at), layer.features)

(* The area of no features is no number.  *)
check_reference_area_size(r, layer) ==
  /\ layer.features # {}
  /\ area_statistics(layer) <= MaxFeaturePolygonArea[r.tool]

get_layers_project(r, project) ==
  LET layer == [p \in DOMAIN r.layers |-> project[r.layers[p]]]
      limited == Limited(r, layer)
  IN /\ \A p \in DOMAIN r.layers :
          p \in DOMAIN input_layer_types(r) /\ get_internal(layer[p], input_layer_types(r)[p])
     /\ IF r.tool \in Aggregations /\ Names(r, "aggregation_layer_project_id")
        THEN check_max_feature_cnt_aggregation(r, limited)
        ELSE check_max_feature_cnt(r, Range(layer))
     /\ \A p \in DOMAIN limited :
          limited[p].kind = "polygon" /\ r.tool \in DOMAIN MaxFeaturePolygonArea =>
            check_reference_area_size(r, limited[p])

Opportunity_layers(r, project) == {project[o.layer] : o \in r.opportunities}

fetch_opportunity_layers(r, project) ==
  /\ \A l \in Opportunity_layers(r, project) :
       get_internal(l, input_layer_types(r)["opportunity_layer_project_id"])
  /\ check_max_feature_cnt(r, Opportunity_layers(r, project))
  /\ Names(r, "opportunity_geofence_layer_project_id") => get_layers_project(r, project)

(* Classes of public transport with catchments along the network. *)
AlongTheNetwork(r) == r.tool = "oev_gueteklasse" /\ r.catchment_type = "network"

WithinNetworkPart(r, layer) ==
  NetworkPart * area_statistics(layer) <= MaxFeaturePolygonArea[r.tool]

(* Mutant: the size is not checked again. *)
get_layers_unchecked(r, project) == get_layers_project(r, project)

(* Networks are checked again, against a part of the limit. *)
get_layers_oev_gueteklasse(r, project) ==
  /\ get_layers_project(r, project)
  /\ AlongTheNetwork(r) =>
       WithinNetworkPart(r, project[r.layers["reference_area_layer_project_id"]])

(* Whether the tool gets to work.  With coordinates a catchment area looks *)
(* at no layer, not even those of its street network.                      *)
FindsItsLayers(r, project) ==
  IF r.tool \in HeatmapsOfOpportunities THEN fetch_opportunity_layers(r, project)
  ELSE \/ r.tool \in Catchments /\ ~Names(r, "layer_project_id")
       \/ r.tool = "oev_gueteklasse" /\ get_layers_oev_gueteklasse(r, project)
       \/ r.tool # "oev_gueteklasse" /\ get_layers_project(r, project)

-----------------------------------------------------------------------------
(* The layers a tool reads itself: not the street network, which it only   *)
(* hands on.                                                               *)
ReadBy(r, project) ==
  LET layer == [p \in DOMAIN r.layers \ DOMAIN StreetNetworkTypes |-> project[r.layers[p]]]
  IN Range(Limited(r, layer))
       \cup (IF r.tool \in HeatmapsOfOpportunities THEN Opportunity_layers(r, project) ELSE {})

Added(layer) == Cardinality({e \in layer.edits : e.edit \in {"n", "m"}})

(* No tool works on more features of a layer than it may, but for those    *)
(* the scenario adds, which nobody counts, or starts from more coordinates *)
(* than points of a layer; no catchment area starts from points it was not *)
(* given; and no network is laid over more than its part of the area.      *)
LimitsHold(r, project) ==
  Accepted(r) /\ FindsItsLayers(r, project) =>
    /\ \A l \in ReadBy(r, project) :
         Cardinality(Overlaid(l.features, l.edits)) <= MaxFeatureCnt[r.tool] + Added(l)
    /\ r.tool \in Catchments /\ ~Names(r, "layer_project_id") =>
         r.lat = r.lon /\ r.lat \in 1..MaxFeatureCnt[r.tool]
    /\ AlongTheNetwork(r) => \A l \in ReadBy(r, project) : WithinNetworkPart(r, l)

(* An accepted request whose layers are of the kinds it asks for and       *)
(* within its limits (a network has a part of the area of other            *)
(* catchments) is not turned away.  Claimed of requests that name no       *)
(* area layer beside a grid and no street network beside a layer of        *)
(* starting points, whose streets are held to the limit for starting       *)
(* points, and of layers of which the filter and the other's extent leave  *)
(* something.                                                              *)
WithinLimitsIsServed(r, project) ==
  LET read == ReadBy(r, project)
      fits(l, p) == l.kind \in input_layer_types(r)[p]
  IN
  /\ Accepted(r)
  /\ DOMAIN r.layers \subseteq DOMAIN input_layer_types(r)
  /\ Names(r, "layer_project_id") => ~Names(r, "edge_layer_project_id")
  /\ \A p \in DOMAIN r.layers : fits(project[r.layers[p]], p)
  /\ r.tool \in HeatmapsOfOpportunities =>
       \A l \in Opportunity_layers(r, project) : fits(l, "opportunity_layer_project_id")
  /\ \A l \in read : /\ l.features # {}
                     /\ Cardinality(l.features) <= MaxFeatureCnt[r.tool]
                     /\ r.tool \in DOMAIN MaxFeaturePolygonArea =>
                          area_statistics(l) <= MaxFeaturePolygonArea[r.tool]
                     /\ AlongTheNetwork(r) => WithinNetworkPart(r, l)
  => FindsItsLayers(r, project)

(* The request for stations asks for a catchment area that is accepted.    *)
NearbyStationsAreAskedFor(r) ==
  Accepted(r) => Accepted(catchment_area_request(r))

-----------------------------------------------------------------------------
(* Buffers, step by step; places lie one unit of length apart. *)
Space(r) ==
  (Min(DOMAIN ShardOf) - r.max_distance)..(Max(DOMAIN ShardOf) + r.max_distance)

Distance(p, q) == IF p < q THEN q - p ELSE p - q

ST_BUFFER(r, places, step) ==
  {q \in Space(r) : \E p \in places : Distance(p, q) * r.distance_step <= step * r.max_distance}

(* One buffer of all features for each step, or one for each id. *)
buffered(r, rows) ==
  LET of(key) == Covered({f \in rows : r.union = "yes" \/ f.id = key})
      keys == IF r.union = "yes" /\ rows # {} THEN {Null} ELSE {f.id : f \in rows}
  IN {[key |-> k, step |-> i, at |-> ST_BUFFER(r, of(k), i)] : k \in keys, i \in 1..r.distance_step}

(* The step size has finitely many binary digits. *)
Exact(r) == \E k \in 0..4 : (r.max_distance * 2^k) % r.distance_step = 0

(* The steps whose predecessor is found by subtracting the step size: all, *)
(* or, with sizes that were rounded, any.                                  *)
Kept(r) == IF Exact(r) THEN {2..r.distance_step} ELSE SUBSET (2..r.distance_step)

buffer(r, rows, kept) ==
  LET b == buffered(r, rows)
      prev(x) == {y \in b : y.step = x.step - 1}
  IN IF r.difference # "yes" THEN b
     ELSE (UNION {{[x EXCEPT !.at = @ \ y.at] : y \in prev(x)} : x \in {z \in b : z.step \in kept}})
            \cup {x \in b : x.step = 1}

(* The rings of united features do not overlap, and every place within the *)
(* greatest distance lies in the ring of the first step that reaches it;   *)
(* without difference the buffers of each step reach as far as it says.    *)
(* Claimed of the rings that are not lost, and of a difference where it is *)
(* asked for with the union: the difference of features is taken between   *)
(* every two of them.                                                      *)
BuffersReachTheirStep(r, rows, kept) ==
  LET result == buffer(r, rows, kept)
      reached(i) == {q \in Space(r) : \E f \in rows : \E p \in f.at :
                       Distance(p, q) * r.distance_step <= i * r.max_distance}
      ring(i) == IF i = 1 THEN reached(1) ELSE reached(i) \ reached(i - 1)
      within(i) == UNION {x.at : x \in {y \in result : y.step = i}}
  IN Accepted(r) /\ (r.difference = "yes" => r.union = "yes") =>
       \A i \in 1..r.distance_step :
         within(i) = IF r.difference # "yes" THEN reached(i)
                     ELSE IF i \in kept \cup {1} THEN ring(i) ELSE {}
=============================================================================
