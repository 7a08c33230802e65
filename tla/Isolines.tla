------------------------------ MODULE Isolines ------------------------------
(***************************************************************************)
(* How a grid of travel times becomes the polygons of a public transport   *)
(* catchment area (jsoline.py): for each cutoff a line is followed around  *)
(* the pixels that are reached, from cell to cell, and the closed rings    *)
(* are sorted into shells and the holes in them.                           *)
(*                                                                         *)
(* Pixel <<x, y>> lies at <<2x, 2y>>; a line crosses the edge of a cell in *)
(* its middle, as without interpolation: with it, it crosses the same edge *)
(* somewhere else.  The last column and row, like the first, count as out  *)
(* of reach.                                                               *)
(***************************************************************************)
EXTENDS Integers, Sequences, FiniteSets

CONSTANT Answers        \* of the routing engine: <<surface, request>>, a surface
                        \* [width, height, time], a request <<travel time, steps>>

ASSUME AnswersAssumption ==
  \A a \in Answers : /\ a = <<a[1], a[2]>> /\ a[1].width \in Nat /\ a[1].height \in Nat
                      /\ a[2][1] \in Nat /\ a[2][2] \in Int

VARIABLES surface, request,
          cutoff,       \* the number of the step worked on
          contour,      \* cell -> which of its corners are reached
          found,        \* cells a line was followed through
          line,         \* the line followed: [orig, pos, start, direction, coords]
          shells, holes,
          isolines,     \* the polygons of the steps done: [shell, holes]
          discarded     \* lines that were given up

isolineVars == <<surface, request, cutoff, contour, found, line, shells, holes,
                 isolines, discarded>>

-----------------------------------------------------------------------------
Pixels(s) == (0..(s.width - 1)) \X (0..(s.height - 1))

Cells(s) == (0..(s.width - 2)) \X (0..(s.height - 2))

(* np.arange(travel_time / steps, travel_time + 1, travel_time / steps). *)
cutoffs(r) == {k \in 1..(2 * r[2] + 1) : k * r[1] < (r[1] + 1) * r[2]}

Border(s, p) == p[1] \in {0, s.width - 1} \/ p[2] \in {0, s.height - 1}

InTime(s, r, k, p) == ~Border(s, p) /\ s.time[p] * r[2] < k * r[1]

Corner(s, r, k, p, weight) == IF InTime(s, r, k, p) THEN weight ELSE 0

get_contour(s, r, k) ==
  [c \in Cells(s) |->
     Corner(s, r, k, c, 8) + Corner(s, r, k, <<c[1] + 1, c[2]>>, 4)
       + Corner(s, r, k, <<c[1] + 1, c[2] + 1>>, 2) + Corner(s, r, k, <<c[1], c[2] + 1>>, 1)]

Saddle(idx) == idx \in {5, 10}

(* Mutant: saddles are left to the wrong side. *)
followLoopAcross(idx, c, prev) ==
  CASE idx \in {1, 3, 7} \/ (idx = 5 /\ prev[2] > c[2]) -> <<c[1] - 1, c[2]>>
    [] idx \in {2, 6, 14} \/ (idx = 10 /\ prev[1] > c[1]) -> <<c[1], c[2] + 1>>
    [] idx \in {4, 12, 13} \/ (idx = 5 /\ prev[2] < c[2]) -> <<c[1] + 1, c[2]>>
    [] idx \in {8, 9, 11} \/ (idx = 10 /\ prev[1] < c[1]) -> <<c[1], c[2] - 1>>
    [] OTHER -> c

(* The next cell, with what is reached on the left; a saddle is left so    *)
(* that what is reached on both its sides belongs together.                *)
followLoop(idx, c, prev) ==
  CASE idx \in {1, 3, 7} \/ (idx = 5 /\ prev[2] < c[2]) -> <<c[1] - 1, c[2]>>
    [] idx \in {2, 6, 14} \/ (idx = 10 /\ prev[1] < c[1]) -> <<c[1], c[2] + 1>>
    [] idx \in {4, 12, 13} \/ (idx = 5 /\ prev[2] > c[2]) -> <<c[1] + 1, c[2]>>
    [] idx \in {8, 9, 11} \/ (idx = 10 /\ prev[1] > c[1]) -> <<c[1], c[2] - 1>>
    [] OTHER -> c

noInterpolate(pos, start) ==
  IF start[1] < pos[1] THEN <<2 * pos[1], 2 * pos[2] + 1>>
  ELSE IF start[1] > pos[1] THEN <<2 * pos[1] + 2, 2 * pos[2] + 1>>
  ELSE IF start[2] > pos[2] THEN <<2 * pos[1] + 1, 2 * pos[2] + 2>>
  ELSE <<2 * pos[1] + 1, 2 * pos[2]>>

(* Whether the edge from p1 to p2 lies to the right of the point. *)
Crosses(x, y, p1, p2) ==
  LET dy == p2[2] - p1[2]
      left == (x - p1[1]) * dy
      right == (y - p1[2]) * (p2[1] - p1[1])
  IN \/ y > p1[2] /\ y <= p2[2] /\ left <= right
     \/ y > p2[2] /\ y <= p1[2] /\ left >= right

pointinpolygon(p, ring) ==
  Cardinality({i \in 1..(Len(ring) - 1) : Crosses(p[1], p[2], ring[i], ring[i + 1])}) % 2 = 1

-----------------------------------------------------------------------------
NoLine == [orig |-> <<-1, -1>>, pos |-> <<-1, -1>>, start |-> <<-1, -1>>,
           direction |-> 0, coords |-> <<>>]

IsolineInit ==
  /\ \E a \in Answers : surface = a[1] /\ request = a[2]
  /\ cutoff = 1 /\ contour = get_contour(surface, request, 1)
  /\ found = {} /\ line = NoLine /\ shells = {} /\ holes = {}
  /\ isolines = <<>> /\ discarded = 0

AtRest == line = NoLine

Working == cutoff \in cutoffs(request)

Before(c, d) == c[2] < d[2] \/ (c[2] = d[2] /\ c[1] < d[1])

(* Cells a line can be picked up in: a saddle does not say where it goes.  *)
Lines == {c \in Cells(surface) : c \notin found /\ contour[c] \notin {0, 5, 10, 15}}

FindLine ==
  /\ AtRest /\ Working
  /\ \E c \in Lines :
       /\ \A d \in Lines : c = d \/ Before(c, d)
       /\ line' = [NoLine EXCEPT !.orig = c, !.pos = c]
  /\ UNCHANGED <<surface, request, cutoff, contour, found, shells, holes, isolines, discarded>>

(* One turn of the loop.  Back at the start, the winding tells a shell     *)
(* from a hole; a line that gets nowhere, or into cells of another, ends.  *)
FollowLine ==
  /\ ~AtRest
  /\ LET idx == contour[line.pos]
         here == IF Saddle(idx) THEN {} ELSE {line.pos}
         next == followLoop(idx, line.pos, line.start)
         turn == line.direction + (next[1] - line.pos[1]) * (next[2] + line.pos[2])
         coords == Append(line.coords, noInterpolate(next, line.pos))
         ring == Append(coords, coords[1])
         open == \/ idx \in {0, 15} \/ next = line.pos
                 \/ next # line.orig /\ next \in found \cup here
     IN /\ found' = found \cup here
        /\ shells' = shells \cup {x \in {ring} : ~open /\ next = line.orig /\ turn > 0}
        /\ holes' = holes \cup {x \in {ring} : ~open /\ next = line.orig /\ turn <= 0}
        /\ discarded' = discarded + (IF open THEN 1 ELSE 0)
        /\ line' = IF open \/ next = line.orig THEN NoLine
                   ELSE [line EXCEPT !.pos = next, !.start = line.pos,
                                     !.direction = turn, !.coords = coords]
  /\ UNCHANGED <<surface, request, cutoff, contour, isolines>>

(* Shell game time: a hole belongs to the shell around its first point, if *)
(* there is just one.                                                      *)
SortHoles ==
  /\ AtRest /\ Working /\ Lines = {}
  /\ LET around(hole) == {s \in shells : pointinpolygon(hole[1], s)}
     IN isolines' = Append(isolines,
          {[shell |-> s, holes |-> {h \in holes : around(h) = {s}}] : s \in shells})
  /\ cutoff' = cutoff + 1
  /\ contour' = get_contour(surface, request, cutoff + 1)
  /\ found' = {} /\ shells' = {} /\ holes' = {}
  /\ UNCHANGED <<surface, request, line, discarded>>

IsolineNext == FindLine \/ FollowLine \/ SortHoles

IsolineSpec == IsolineInit /\ [][IsolineNext]_isolineVars

-----------------------------------------------------------------------------
IsolineTypeOK ==
  /\ <<surface, request>> \in Answers /\ cutoff \in Nat
  /\ DOMAIN contour = Cells(surface) /\ \A c \in Cells(surface) : contour[c] \in 0..15
  /\ found \subseteq Cells(surface)
  /\ AtRest \/ (line.pos \in Cells(surface) /\ line.orig \in Cells(surface))
  /\ Len(isolines) = cutoff - 1 /\ discarded \in Nat

(* A pixel out of reach between four that are reached, whose diagonal      *)
(* neighbours are out of reach as well: only saddles around it.            *)
Lone(k, p) ==
  \A d \in {<<1, 1>>, <<1, -1>>, <<-1, 1>>, <<-1, -1>>} :
    ~Border(surface, p) /\ ~InTime(surface, request, k, <<p[1] + d[1], p[2] + d[2]>>)

(* Every line followed comes back to where it began, and when all are      *)
(* followed, a pixel lies in a polygon of a step, and not in its holes,    *)
(* just when it is reached in the time of the step; the last step is the   *)
(* time asked for.  Claimed of pixels that are not alone out of reach      *)
(* between others (no line is picked up there, and they are taken in), not *)
(* in a hole of an island in a hole (it lies in two shells, and is dropped *)
(* from both), and of at least one step and no more steps than minutes     *)
(* (else areas beyond the time asked for are drawn).                       *)
IsolinesEncloseWhatIsReached ==
  /\ discarded = 0
  /\ ~Working =>
       /\ request[2] \in 1..request[1] => Len(isolines) = request[2]
       /\ \A k \in DOMAIN isolines : \A p \in Pixels(surface) :
            LET at == <<2 * p[1], 2 * p[2]>>
                around == {g \in isolines[k] : pointinpolygon(at, g.shell)}
                covering == {g \in around : \A h \in g.holes : ~pointinpolygon(at, h)}
            IN IF InTime(surface, request, k, p) THEN covering # {}
               ELSE Lone(k, p) \/ Cardinality(around) > 1 \/ covering = {}
=============================================================================
