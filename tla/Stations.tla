------------------------------ MODULE Stations ------------------------------
(***************************************************************************)
(* What the public transport tools make of the timetable: trips counted at *)
(* stops, the classes of stations and of the places around them            *)
(* (OEV-Gueteklassen), and the stops near a place                          *)
(* (crud_trip_count_station.py, crud_oev_gueteklasse.py,                   *)
(* crud_nearby_station_access.py and their SQL functions).                 *)
(*                                                                         *)
(* Places are numbers on a line, StepWidth metres apart.  A stop is [id,   *)
(* parent, at, is_stop], a departure [row, stop, route, type, time, days], *)
(* a catchment polygon [at, access].                                       *)
(***************************************************************************)
EXTENDS Integers, Sequences, FiniteSets, FiniteSetsExt

CONSTANTS Places,
          StepWidth,      \* 50 metres: the steps of an area on the network
          ModeOf,         \* public_transport_types, flat: route type -> mode
          PTModes,        \* its modes, the dominant one first
          Missing         \* SQL's NULL

Worst == 999              \* the class of a station without one

ModeSet == {PTModes[i] : i \in DOMAIN PTModes}

(* Types have modes that are listed, and NULL is not one of them. *)
ASSUME StationsAssumption ==
  /\ StepWidth \in Nat \ {0} /\ Places \in SUBSET Int
  /\ IsFiniteSet(DOMAIN PTModes) /\ \A t \in DOMAIN ModeOf : ModeOf[t] \in ModeSet
  /\ Missing \notin ModeSet /\ Missing \notin [ModeSet -> Nat]

Mode(t) == IF t \in DOMAIN ModeOf THEN ModeOf[t] ELSE Missing

(* Mutant: the end of the window does not belong to it. *)
ServedBefore(stop, departures, w) ==
  {d \in departures : /\ d.stop = stop.id /\ d.time >= w.from /\ d.time < w.to
                      /\ w.weekday \in d.days}

(* A window is [from, to, weekday]; both ends belong to it. *)
Served(stop, departures, w) ==
  {d \in departures : /\ d.stop = stop.id
                      /\ d.time \in w.from..w.to /\ w.weekday \in d.days}

trip_cnt(trips) ==
  [t \in {d.type : d \in trips} |-> Cardinality({d \in trips : d.type = t})]

(* The stops an area holds, each once: one that lies in several of its     *)
(* pieces is found for each, and grouped by its id again.                  *)
count_public_transport_services_station(area, stops, departures, w) ==
  {[stop |-> s, trip_cnt |-> trip_cnt(Served(s, departures, w))] :
     s \in {x \in stops : x.is_stop /\ x.at \in area /\ Served(x, departures, w) # {}}}

-----------------------------------------------------------------------------
(* Trip count: the trips by mode and in total.  jsonb_set gives NULL when  *)
(* it is asked to add trips of a type that has no mode, and stays NULL.    *)
summarize_trip_count(trips) ==
  IF \E t \in DOMAIN trips : Mode(t) = Missing THEN Missing
  ELSE [m \in ModeSet |->
          MapThenSumSet(LAMBDA t : trips[t], {t \in DOMAIN trips : Mode(t) = m})]

trip_count(area, stops, departures, w) ==
  {LET modes == summarize_trip_count(c.trip_cnt)
   IN [stop |-> c.stop, modes |-> modes,
       total |-> IF modes = Missing THEN Missing
                 ELSE MapThenSumSet(LAMBDA m : modes[m], ModeSet)] :
     c \in count_public_transport_services_station(area, stops, departures, w)}

-----------------------------------------------------------------------------
(* Mutant: the worst of a station's groups counts. *)
station_category_of_worst_group(station, config, w) ==
  LET grouped == {x \in station \X DOMAIN config.groups : x[2] \in DOMAIN x[1].trip_cnt}
      count == MapThenSumSet(LAMBDA x : x[1].trip_cnt[x[2]], grouped)
      group == Max({config.groups[x[2]] : x \in grouped})
      ways == IF Cardinality(station) # 1 THEN 2 ELSE 1
      reached == {i \in DOMAIN config.time_frequency :
                    (w.to - w.from) * ways < config.time_frequency[i] * count}
  IN IF grouped = {} \/ reached = {} THEN Worst
     ELSE IF group \notin DOMAIN config.categories[Min(reached)] THEN Worst
     ELSE config.categories[Min(reached)][group]

(* The class of a station, from the trips of its stops.  config is         *)
(* [groups, time_frequency, categories, classification] as in the schema,  *)
(* groups being numbers.  The trips of all groups together make the        *)
(* frequency, halved unless there is one stop; the best group counts.      *)
oev_gueteklasse_station_category(station, config, w) ==
  LET grouped == {x \in station \X DOMAIN config.groups : x[2] \in DOMAIN x[1].trip_cnt}
      count == MapThenSumSet(LAMBDA x : x[1].trip_cnt[x[2]], grouped)
      group == Min({config.groups[x[2]] : x \in grouped})
      ways == IF Cardinality(station) # 1 THEN 2 ELSE 1
      reached == {i \in DOMAIN config.time_frequency :
                    (w.to - w.from) * ways < config.time_frequency[i] * count}
  IN IF grouped = {} \/ reached = {} THEN Worst
     ELSE IF group \notin DOMAIN config.categories[Min(reached)] THEN Worst
     ELSE config.categories[Min(reached)][group]

(* Stops with a parent are taken together at the parent, if there is one.  *)
get_oev_gueteklasse_station_category(area, stops, departures, w, config) ==
  LET child_stops == count_public_transport_services_station(area, stops, departures, w)
      grouped(p) == {c \in child_stops : c.stop.parent = p.id}
      class(station) == oev_gueteklasse_station_category(station, config, w)
  IN {[at |-> p.at, id |-> p.id, class |-> class(grouped(p))] :
        p \in {s \in stops : grouped(s) # {}}}
     \cup {[at |-> c.stop.at, id |-> c.stop.id, class |-> class({c})] :
             c \in {d \in child_stops : d.stop.parent = Missing}}

(* Buffers, or areas on the network; these come in steps up to the largest *)
(* distance of the class, and a distance that is no step is left out.      *)
Near(s, distance) == {p \in Places : (p - s.at) * StepWidth \in -distance..distance}

Rings(class, config, catchment) ==
  LET distances == DOMAIN config.classification[class]
      largest == Max(distances)
      steps == largest \div StepWidth
  IN IF catchment = "buffer" THEN distances
     ELSE distances \cap {(largest * k) \div steps : k \in 1..steps}

compute_station_areas(stations, config, catchment) ==
  UNION {{[pt_class |-> config.classification[s.class][d], at |-> Near(s, d)] :
            d \in Rings(s.class, config, catchment)} :
           s \in {x \in stations : x.class \in DOMAIN config.classification}}

(* What is united of one class; that a class of buffers is kept in one row *)
(* for each cluster makes no difference to the places.                     *)
United(areas) ==
  {[pt_class |-> a.pt_class,
    at |-> UNION {b.at : b \in {c \in areas : c.pt_class = a.pt_class}}] : a \in areas}

(* Mutant: the worse classes are cut out of the better ones. *)
difference_of_worse(united) ==
  {[a EXCEPT !.at = @ \ UNION {b.at : b \in {c \in united : a.pt_class < c.pt_class}}] :
     a \in united}

create_difference_between_steps(united) ==
  {[a EXCEPT !.at = @ \ UNION {b.at : b \in {c \in united : a.pt_class > c.pt_class}}] :
     a \in united}

oev_gueteklasse_run(stations, config, catchment) ==
  create_difference_between_steps(United(compute_station_areas(stations, config, catchment)))

-----------------------------------------------------------------------------
(* Stops near a place, with the time to get there.  A stop is listed for   *)
(* every polygon it lies in, routes that no table knows are left out, and  *)
(* the frequency is that of two hours.                                     *)
identify_dominant_mode(types) ==
  PTModes[Min({i \in DOMAIN PTModes : \E t \in types : Mode(t) = PTModes[i]})]

nearby_station_access(polygons, stops, departures, w, modes, routes) ==
  LET service(s) == {d \in Served(s, departures, w) : Mode(d.type) \in modes /\ d.route \in routes}
      row(s, access) ==
        LET n == Cardinality(service(s))
        IN [stop |-> s.id, access |-> access, agg_frequency |-> (240 + n) \div (2 * n),
            mode |-> identify_dominant_mode({d.type : d \in service(s)}),
            routes |-> {<<d.route, (w.to - w.from) \div
                             Cardinality({e \in service(s) : e.route = d.route /\ e.type = d.type})>> :
                          d \in service(s)}]
  IN UNION {{row(s, p.access) : s \in {x \in stops : /\ x.is_stop /\ x.at \in p.at
                                                     /\ service(x) # {}}} :
              p \in polygons}

-----------------------------------------------------------------------------
(* The total at a stop is the number of departures in the window, and      *)
(* every stop of the area with one is there.  A type the modes do not know *)
(* leaves its stop without any figure.  Near a place, a stop is listed     *)
(* with the departures of the modes asked for: claimed of routes that are  *)
(* known, of polygons without a common place, and for the frequency of a   *)
(* window of two hours.                                                    *)
TripsAreCounted(area, stops, departures, w, modes, routes) ==
  LET counted == trip_count(area, stops, departures, w)
      there == {s \in stops : s.is_stop /\ s.at \in area}
      nearby == nearby_station_access({[at |-> area, access |-> 1]}, stops, departures,
                                      w, modes, routes)
      at(s) == {d \in departures : d.stop = s.id /\ d.time >= w.from /\ d.time <= w.to
                                   /\ w.weekday \in d.days}
      asked(s) == {d \in at(s) : Mode(d.type) \in modes}
  IN /\ counted = {r \in counted : r.stop \in {s \in there : at(s) # {}}}
     /\ \A s \in there : at(s) # {} =>
          \E r \in counted :
            /\ r.stop = s
            /\ r.total = IF \E d \in at(s) : Mode(d.type) = Missing THEN Missing
                         ELSE Cardinality(at(s))
     /\ (\A d \in departures : d.route \in routes) =>
          /\ {r.stop : r \in nearby} = {s.id : s \in {x \in there : asked(x) # {}}}
          /\ \A r \in nearby, s \in there :
               /\ s.id = r.stop /\ w.to - w.from = 120
               => 2 * (r.agg_frequency * Cardinality(asked(s)) - 120)
                    \in -Cardinality(asked(s))..Cardinality(asked(s))

(* Another trip at a stop never makes the class of its station worse.      *)
(* Claimed of a configuration whose categories do not get worse with a     *)
(* better group or a shorter interval.  A trip at a stop of the station    *)
(* that had none can make it worse: the trips are halved for two stops.    *)
Ordered(config) ==
  LET value(i, g) == IF g \in DOMAIN config.categories[i] THEN config.categories[i][g]
                     ELSE Worst
      groups == (UNION {DOMAIN config.categories[i] : i \in DOMAIN config.categories})
                  \cup {config.groups[t] : t \in DOMAIN config.groups}
  IN \A i, k \in DOMAIN config.time_frequency, g, h \in groups :
       i <= k /\ g <= h =>
         value(i, g) <= value(k, h) /\ config.time_frequency[i] <= config.time_frequency[k]

MoreTripsNeverHurt(area, stops, departures, w, config) ==
  LET stations(ds) == get_oev_gueteklasse_station_category(area, stops, ds, w, config)
  IN Ordered(config) =>
       \A d \in departures :
         LET fewer == departures \ {d}
         IN (\E e \in fewer : e.stop = d.stop /\ e \in Served([id |-> e.stop], fewer, w)) =>
              \A s \in stations(departures), r \in stations(fewer) :
                s.id = r.id => s.class <= r.class

(* A place has exactly one class: the best that any station offers it at   *)
(* its distance; none when no station does.  On the network claimed of     *)
(* distances that are steps.                                               *)
PlacesGetTheirBestClass(stations, config, catchment) ==
  LET classes == oev_gueteklasse_run(stations, config, catchment)
      far(p, s) == StepWidth * (IF p < s.at THEN s.at - p ELSE p - s.at)
      offers(p) ==
        UNION {{config.classification[s.class][d] :
                  d \in {e \in DOMAIN config.classification[s.class] : far(p, s) <= e}} :
                 s \in {x \in stations : x.class \in DOMAIN config.classification}}
      steps == \A c \in DOMAIN config.classification :
                 Rings(c, config, catchment) = DOMAIN config.classification[c]
  IN steps => \A p \in Places :
       {a.pt_class : a \in {b \in classes : p \in b.at}} =
         IF offers(p) = {} THEN {} ELSE {Min(offers(p))}
=============================================================================
