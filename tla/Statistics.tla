----------------------------- MODULE Statistics -----------------------------
(***************************************************************************)
(* Figures a layer is shown with: the chart of an aggregation, the values  *)
(* of a column, its histogram and its class breaks (core/chart.py,         *)
(* crud_layer.py, crud_layer_project.py and the *_breaks functions).       *)
(* Operators, checked over small layers.                                   *)
(*                                                                         *)
(* The values of a column are a sequence, in row order, with NULLs; means  *)
(* and breaks are fractions <<numerator, denominator>>, exact ones.        *)
(***************************************************************************)
EXTENDS Tools, SequencesExt

(* SQL's NULL is not a number. *)
ASSUME NullAssumption == Null \notin Int

-----------------------------------------------------------------------------
(* Names of a column are numbers: 0 for the plain name of the operation, k *)
(* for the one with _k behind it.                                          *)
get_result_column(names) ==
  IF names = {} THEN 0 ELSE Max(names) + 1

(* The layer an aggregation makes: areas [id, x, old, counts] with the     *)
(* columns they had under a name of the operation, and the new one.        *)
(* sources are [row, area, group, value].                                  *)
Aggregated(areas, names, sources, op) ==
  LET of(a) == {x \in {a} \X sources : x[2].area = a.id}
      grouped(a) == [g \in {x[2].group : x \in of(a)} |->
                       get_statistics_sql(op, {x \in of(a) : x[2].group = g})]
      total(a) == IF of(a) = {} THEN Null ELSE get_statistics_sql(op, of(a))
  IN {[id |-> a.id, x |-> a.x, groups |-> grouped(a),
       columns |-> [n \in names \cup {get_result_column(names)} |->
                      IF n \in names THEN a.old ELSE total(a)]] : a \in areas}

(* SQL's statistics leave NULLs out, and know none of nothing.  pairs are  *)
(* <<row, value>>.                                                         *)
Stat(op, pairs) ==
  LET known == {p \in pairs : p[2] # Null}
  IN IF known = {} THEN Null
     ELSE get_statistics_sql(op, {<<p[1], [value |-> p[2]]>> : p \in known})

(* Mutant: counts are counted again. *)
SameOperation(op, cumsum) == IF cumsum THEN "sum" ELSE op

(* read_chart_data: a chart always reads the plain name.  Counts, and all  *)
(* that is cumulated, are added up.  The result is a set of points         *)
(* [x, group, y], of one group without grouping.                           *)
Operation(op, cumsum) == IF cumsum \/ op = "count" THEN "sum" ELSE op

ChartRows(layer, grouped) ==
  IF grouped
  THEN UNION {{[x |-> r.x, group |-> g, from |-> <<r.id, r.groups[g]>>] :
                 g \in DOMAIN r.groups} : r \in layer}
  ELSE {[x |-> r.x, group |-> "all", from |-> <<r.id, r.columns[0]>>] : r \in layer}

read_chart_data(layer, op, grouped, cumsum) ==
  LET rows == ChartRows(layer, grouped)
      y(x, g) == Stat(Operation(op, cumsum), {r.from : r \in {s \in rows : s.x = x /\ s.group = g}})
      base == {[x |-> r.x, group |-> r.group, y |-> y(r.x, r.group)] : r \in rows}
      upto(p) == {<<q.x, q.y>> : q \in {o \in base : o.group = p.group /\ o.x <= p.x}}
  IN IF cumsum THEN {[p EXCEPT !.y = Stat("sum", upto(p))] : p \in base} ELSE base

(* What the sources of the areas with an x say of it, by themselves: the   *)
(* chart of an aggregation is the statistic of the sources, not of the     *)
(* statistics; groups cover what is in them; and the last cumulated point  *)
(* is worth the total of all.  Claimed of layers without a column of the   *)
(* operation's name (the chart would read that column), and of cumulated   *)
(* counts and sums.                                                        *)
ChartIsOfTheSources(areas, names, sources, op, grouped, cumsum) ==
  LET layer == Aggregated(areas, names, sources, op)
      at(xs, g) == {x \in areas \X sources : /\ x[1].id = x[2].area /\ x[1].x \in xs
                                             /\ g \in {"all", x[2].group}}
      xs(p) == IF cumsum THEN {a.x : a \in {b \in areas : b.x <= p.x}} ELSE {p.x}
      stat(pairs) == IF pairs = {} THEN Null ELSE get_statistics_sql(op, pairs)
      chart == read_chart_data(layer, op, grouped, cumsum)
  IN names = {} /\ (cumsum => op \in {"count", "sum"}) =>
       /\ \A p \in chart : p.y = stat(at(xs(p), p.group))
       /\ {<<p.x, p.group>> : p \in chart}
            = IF grouped THEN {<<x[1].x, x[2].group>> : x \in at({a.x : a \in areas}, "all")}
              ELSE {<<a.x, "all">> : a \in areas}

-----------------------------------------------------------------------------
(* ORDER BY: the elements of a set, none after one that it comes before.   *)
InOrder(S, before) ==
  CHOOSE s \in [1..Cardinality(S) -> S] :
    \A i, j \in DOMAIN s : i < j => s[i] # s[j] /\ <<s[j], s[i]>> \notin before

(* get_unique_values: values with their counts, by count and then by       *)
(* value, in pages.                                                        *)
Known_values(values) == {v \in Range(values) : v # Null}

Count(values, v) == Cardinality({i \in DOMAIN values : values[i] = v})

get_unique_values(values, order, size, page) ==
  LET known == Known_values(values)
      before(v, w) ==
        LET m == Count(values, v) n == Count(values, w)
        IN IF m = n THEN v < w ELSE IF order = "descendent" THEN m > n ELSE m < n
      sorted == InOrder(known, {x \in known \X known : before(x[1], x[2])})
      last == Min({page * size, Len(sorted)})
  IN [items |-> [i \in 1..(last - Min({(page - 1) * size, last})) |->
                   LET v == sorted[(page - 1) * size + i] IN <<v, Count(values, v)>>],
      total |-> Len(sorted)]

(* get_statistic_aggregation: groups with a statistic, in its order, NULLs *)
(* first when it descends; the first ones are returned.  column is the     *)
(* sequence of <<group, value>>.                                           *)
get_statistic_aggregation(column, op, order, size) ==
  LET stat(g) == Stat(op, {<<i, column[i][2]>> : i \in {k \in DOMAIN column : column[k][1] = g}})
      result == {[group |-> g, value |-> stat(g)] : g \in {column[i][1] : i \in DOMAIN column}}
      greater(v, w) == w # Null /\ (v = Null \/ v > w)
      before(a, b) == IF order = "descendent" THEN greater(a.value, b.value)
                      ELSE greater(b.value, a.value)
      sorted == InOrder(result, {x \in result \X result : before(x[1], x[2])})
  IN [items |-> SubSeq(sorted, 1, Min({size, Len(sorted)})), total |-> Len(sorted)]

(* The pages of a column's values hold each value once, with its count,    *)
(* the most (or least) frequent first across all pages; and of the groups  *)
(* of a column those listed come before those left out.                    *)
ValuesAreRanked(values, groups, op, order, size) ==
  LET pages == [p \in 1..(Len(values) + 1) |-> get_unique_values(values, order, size, p)]
      items == FlattenSeq([p \in DOMAIN pages |-> pages[p].items])
      column == [i \in DOMAIN values |-> <<groups[i], values[i]>>]
      top == get_statistic_aggregation(column, op, order, size)
      all == get_statistic_aggregation(column, op, order, Len(values) + 1)
      worth(a, b) == IF order = "descendent" THEN a >= b ELSE a <= b
  IN /\ Range(items) = {<<v, Count(values, v)>> : v \in Known_values(values)}
     /\ Len(items) = Cardinality(Known_values(values)) /\ pages[1].total = Len(items)
     /\ \A i, j \in DOMAIN items : i < j => worth(items[i][2], items[j][2])
     /\ top.total = Cardinality(Range(groups))
     /\ Range(top.items) \subseteq Range(all.items)
     /\ \A a \in Range(top.items), b \in Range(all.items) \ Range(top.items) :
          a.value # Null /\ b.value # Null => worth(a.value, b.value)

-----------------------------------------------------------------------------
(* get_statistic_histogram.  Values fall into buckets of the range up to   *)
(* one more than the greatest; the bounds shown divide the range itself,   *)
(* in whole numbers.                                                       *)
width_bucket(v, low, high, bins) == ((v - low) * bins) \div (high - low) + 1

get_statistic_histogram(values, bins) ==
  LET low == Min(Known_values(values))
      high == Max(Known_values(values))
      in(b) == {i \in DOMAIN values :
                  values[i] # Null /\ width_bucket(values[i], low, high + 1, bins) = b}
      bound(k) == low + (k * (high - low)) \div bins
      count == [b \in 1..bins |-> Cardinality(in(b))]
  IN [bins |-> [b \in 1..bins |-> [range |-> <<bound(b - 1), bound(b)>>, count |-> count[b]]],
      missing_count |-> Len(values) - MapThenSumSet(LAMBDA b : count[b], 1..bins)]

-----------------------------------------------------------------------------
(* Class breaks of the values that are not zero. *)
Less(a, b) == a[1] * b[2] < b[1] * a[2]

Mean(at, values) == <<MapThenSumSet(LAMBDA i : values[i], at), Cardinality(at)>>

equal_interval_breaks(at, values, breaks) ==
  LET low == Min({values[i] : i \in at})
      high == Max({values[i] : i \in at})
  IN [k \in 1..breaks |-> <<low * (breaks + 1) + k * (high - low), breaks + 1>>]

(* Mutant: the borders begin with the least value. *)
quantile_breaks_from_zero(at, values, breaks) ==
  [k \in 1..breaks |->
     <<Min({v \in {values[i] : i \in at} :
              Cardinality({i \in at : values[i] <= v}) * (breaks + 1) >= (k - 1) * Cardinality(at)}), 1>>]

(* percentile_disc: the first value that enough values do not exceed. *)
quantile_breaks(at, values, breaks) ==
  [k \in 1..breaks |->
     <<Min({v \in {values[i] : i \in at} :
              Cardinality({i \in at : values[i] <= v}) * (breaks + 1) >= k * Cardinality(at)}), 1>>]

(* The mean, the mean of what is above it, and so on; then the maximum. *)
heads_and_tails_breaks(at, values, breaks) ==
  LET high == Max({values[i] : i \in at})
      above(b) == {i \in at : Less(b, <<values[i], 1>>)}
      reply[k \in 1..breaks] ==
        IF k = 1 THEN Mean(at, values)
        ELSE IF above(reply[k - 1]) = {} THEN <<high, 1>>
        ELSE Mean(above(reply[k - 1]), values)
  IN reply

(* Of the values that are not zero: asked to keep the zeros, the code sets *)
(* no condition, the query misses its parameter and there is no answer.    *)
get_class_breaks(values, operation, breaks) ==
  LET at == {i \in DOMAIN values : values[i] # Null /\ values[i] # 0}
  IN IF operation = "quantile" THEN quantile_breaks(at, values, breaks)
     ELSE IF operation = "equal_interval" THEN equal_interval_breaks(at, values, breaks)
     ELSE heads_and_tails_breaks(at, values, breaks)

(* As many breaks as asked for, in order, from the least value to the      *)
(* greatest; no class of quantiles holds more than its share and the       *)
(* values equal to its upper break; of heads and tails each break has      *)
(* fewer values above it than the one before, until none has.  Every value *)
(* counts in one bin of the histogram, not below its bounds and, as the    *)
(* buckets are wider than the bounds that are shown, at most one above.    *)
BreaksSplitTheValues(values, breaks) ==
  LET at == {i \in DOMAIN values : values[i] # Null /\ values[i] # 0}
      number(i) == <<values[i], 1>>
      cls(op) == get_class_breaks(values, op, breaks)
      above(b) == {i \in at : Less(b, number(i))}
      tails == cls("heads_and_tails")
      histogram == get_statistic_histogram(values, breaks)
      below(k) == {i \in DOMAIN values : values[i] # Null /\ values[i] <= histogram.bins[k].range[2]}
      counted(k) == MapThenSumSet(LAMBDA b : histogram.bins[b].count, 1..k)
  IN /\ at # {} =>
          /\ \A op \in {"quantile", "equal_interval", "heads_and_tails"} :
               /\ Len(cls(op)) = breaks
               /\ \A k \in 1..breaks :
                    /\ \A i \in at : \E j, l \in at : /\ ~Less(cls(op)[k], number(j))
                                                      /\ ~Less(number(l), cls(op)[k])
                    /\ k > 1 => ~Less(cls(op)[k], cls(op)[k - 1])
          /\ \A k \in 1..(breaks + 1) :
               (breaks + 1) * Cardinality({i \in at :
                   /\ k <= breaks => Less(number(i), cls("quantile")[k])
                   /\ k > 1 => Less(cls("quantile")[k - 1], number(i))}) <= Cardinality(at)
          /\ \A k \in 2..breaks : above(tails[k - 1]) # {} => above(tails[k]) # above(tails[k - 1])
     /\ Known_values(values) # {} =>
          /\ histogram.missing_count = Count(values, Null)
          /\ \A k \in 1..breaks :
               /\ counted(k) >= Cardinality({i \in below(k) :
                                   values[i] < histogram.bins[k].range[2]})
               /\ counted(k) <= Cardinality({i \in DOMAIN values : values[i] # Null
                                   /\ values[i] <= histogram.bins[k].range[2] + 1})
=============================================================================
