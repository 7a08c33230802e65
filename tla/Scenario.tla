------------------------------ MODULE Scenario ------------------------------
(***************************************************************************)
(* What-if scenarios of a project: the edits users make to the features of *)
(* one project layer, kept beside the layer's data and laid over it        *)
(* whenever a tool or a map reads the layer (crud_scenario.py, the         *)
(* scenario endpoints of project.py, the create_distributed_*_table        *)
(* functions).                                                             *)
(*                                                                         *)
(* Every statement commits on its own (the engine runs in AUTOCOMMIT), so  *)
(* the two rows of one edit, the feature and its link, are two steps, and  *)
(* the removal of a scenario and the sweep of orphans are two more.  The   *)
(* geometry and the attributes of a feature are one value: the editor who  *)
(* wrote it last.  Each editor sends one request.                          *)
(***************************************************************************)
EXTENDS Naturals

CONSTANTS Scenarios,    \* scenario ids
          Origin,       \* ids of the features in the layer's own table
          Editors,      \* the requests, each by a user at a screen
          MaxRows,      \* bound: rows ever inserted in scenario_feature
          Unedited,     \* the value of a feature nobody edited
          New,          \* feature_id of a feature that is in no table
          NoScenario

ASSUME ScenarioAssumption ==
  /\ MaxRows \in Nat
  /\ Origin \cap 1..MaxRows = {}
  /\ New \notin Origin \cup 1..MaxRows
  /\ NoScenario \notin Scenarios

VARIABLES scenario,     \* id -> "none", "live" or "gone"
          rows,         \* table scenario_feature
          links,        \* table scenario_scenario_feature
          lastRow,      \* row ids given out so far
          editor,       \* the requests in progress
          shown,        \* history: what the answered edits should show
          overtaken     \* history: a feature was edited from a stale screen

scenarioVars == <<scenario, rows, links, lastRow, editor, shown, overtaken>>

RowIds == 1..MaxRows

Row == [id: RowIds, origin: Origin \cup {New}, edit: {"n", "m", "d"},
        value: Editors]

Link == [scenario: Scenarios, row: RowIds]

Request == [pc: {"idle", "lookup", "insert", "link", "update", "remove", "drop",
                 "sweep", "ok", "failed"},
            scenario: Scenarios \cup {NoScenario},
            target: Origin \cup RowIds \cup {New},
            row: 0..MaxRows,
            edit: {"n", "m", "d"}]

(* The bindings of a request before it is sent. *)
Idle == [pc |-> "idle", scenario |-> NoScenario, target |-> New, row |-> 0,
         edit |-> "n"]

ScenarioInit ==
  /\ scenario = [s \in Scenarios |-> "none"]
  /\ rows = {} /\ links = {} /\ lastRow = 0
  /\ editor = [e \in Editors |-> Idle]
  /\ shown = [s \in Scenarios |-> [o \in Origin |-> Unedited]]
  /\ overtaken = FALSE

RowsOf(s) == {r \in rows : [scenario |-> s, row |-> r.id] \in links}

Linked(r) == \E l \in links : l.row = r.id

Goto(e, label) == editor' = [editor EXCEPT ![e].pc = label]

-----------------------------------------------------------------------------
(* The three functions that fill a distributed table read the same union:  *)
(* the layer's features that no row of the scenario names, and the new and *)
(* modified ones of the scenario.                                          *)

(* Mutant: edits of other scenarios hide features as well. *)
UntouchedByAnyEdit(s) ==
  {[id |-> o, value |-> Unedited] :
     o \in {p \in Origin : \A r \in rows : r.origin # p}}

Untouched(s) ==
  {[id |-> o, value |-> Unedited] :
     o \in {p \in Origin : \A r \in RowsOf(s) : r.origin # p}}

Drawn(s) ==
  {[id |-> IF r.origin = New THEN r.id ELSE r.origin, value |-> r.value] :
     r \in {q \in RowsOf(s) : q.edit \in {"n", "m"}}}

Overlay(s) == Untouched(s) \cup Drawn(s)

-----------------------------------------------------------------------------
CreateScenario(s) ==
  /\ scenario[s] = "none"
  /\ scenario' = [scenario EXCEPT ![s] = "live"]
  /\ UNCHANGED <<rows, links, lastRow, editor, shown, overtaken>>

(* get_scenario: every request about a scenario begins by loading it. *)
Send(e, s, label, target, edit) ==
  /\ editor[e].pc = "idle"
  /\ scenario[s] = "live"
  /\ editor' = [editor EXCEPT ![e] =
       [pc |-> label, scenario |-> s, target |-> target, row |-> 0,
        edit |-> edit]]

(* The screen the request was sent from is stale: the feature has an edit  *)
(* in the scenario already, or another request about it is on its way.     *)
Stale(s, o) ==
  \/ \E r \in RowsOf(s) : r.origin = o
  \/ \E f \in Editors : /\ editor[f].pc \notin {"idle", "ok", "failed"}
                        /\ editor[f].scenario = s
                        /\ editor[f].target = o

SendCreate(e, s) ==
  /\ Send(e, s, "insert", New, "n")
  /\ UNCHANGED <<scenario, rows, links, lastRow, shown, overtaken>>

(* The target is a feature of the layer or a row of the scenario. *)
SendEdit(e, s, edit) ==
  \E t \in Origin \cup {r.id : r \in RowsOf(s)} :
    /\ Send(e, s, "lookup", t, edit)
    /\ overtaken' = (overtaken \/ (t \in Origin /\ Stale(s, t)))
    /\ UNCHANGED <<scenario, rows, links, lastRow, shown>>

SendUpdate(e, s) == SendEdit(e, s, "m")

SendDelete(e, s) == SendEdit(e, s, "d")

SendDrop(e, s) ==
  /\ Send(e, s, "drop", New, "d")
  /\ UNCHANGED <<scenario, rows, links, lastRow, shown, overtaken>>

-----------------------------------------------------------------------------
(* Both handlers look for a scenario feature with the id they were given,  *)
(* then for a feature of the layer's table; the row found is used in a     *)
(* later statement.                                                        *)
LookupUpdate(e) ==
  /\ editor[e].pc = "lookup" /\ editor[e].edit = "m"
  /\ Goto(e, IF \E r \in rows : r.id = editor[e].target THEN "update"
             ELSE IF editor[e].target \in Origin THEN "insert"
             ELSE "failed")
  /\ UNCHANGED <<scenario, rows, links, lastRow, shown, overtaken>>

LookupDelete(e) ==
  /\ editor[e].pc = "lookup" /\ editor[e].edit = "d"
  /\ Goto(e, IF \E r \in rows : r.id = editor[e].target THEN "remove"
             ELSE IF editor[e].target \in Origin THEN "insert"
             ELSE "failed")
  /\ UNCHANGED <<scenario, rows, links, lastRow, shown, overtaken>>

(* The first statement of the flush: the feature, with the id the database *)
(* gives it.                                                               *)
InsertFeature(e) ==
  /\ editor[e].pc = "insert"
  /\ lastRow < MaxRows
  /\ lastRow' = lastRow + 1
  /\ rows' = rows \cup {[id |-> lastRow + 1, origin |-> editor[e].target,
                         edit |-> editor[e].edit, value |-> e]}
  /\ editor' = [editor EXCEPT ![e].pc = "link", ![e].row = lastRow + 1]
  /\ UNCHANGED <<scenario, links, shown, overtaken>>

(* What an edit shows once it is answered: a feature keeps its own id when *)
(* it comes from the layer, and a removed edit gives the feature back.     *)
Key(r) == IF r.origin = New THEN r.id ELSE r.origin

With(view, key, value) ==
  [k \in DOMAIN view \cup {key} |-> IF k = key THEN value ELSE view[k]]

Without(view, key) == [k \in DOMAIN view \ {key} |-> view[k]]

ShownWith(s, r) ==
  [shown EXCEPT ![s] = IF r.edit = "d" THEN Without(@, Key(r))
                       ELSE With(@, Key(r), r.value)]

ShownAfterRemove(s, r) ==
  [shown EXCEPT ![s] = IF r.origin = New THEN Without(@, Key(r))
                       ELSE With(@, Key(r), Unedited)]

(* The second: the link, refused by a foreign key when the scenario or the *)
(* feature has gone meanwhile.                                             *)
InsertLink(e) ==
  /\ editor[e].pc = "link"
  /\ LET s == editor[e].scenario
         mine == {r \in rows : r.id = editor[e].row}
     IN IF scenario[s] = "live" /\ mine # {}
        THEN /\ links' = links \cup {[scenario |-> s, row |-> editor[e].row]}
             /\ shown' = ShownWith(s, CHOOSE r \in mine : TRUE)
             /\ Goto(e, "ok")
        ELSE Goto(e, "failed") /\ UNCHANGED <<links, shown>>
  /\ UNCHANGED <<scenario, rows, lastRow, overtaken>>

(* An UPDATE that matches no row is an error of the session (a stale row). *)
UpdateFeature(e) ==
  /\ editor[e].pc = "update"
  /\ LET s == editor[e].scenario
         mine == {r \in rows : r.id = editor[e].target}
     IN IF mine = {}
        THEN Goto(e, "failed") /\ UNCHANGED <<rows, shown>>
        ELSE LET old == CHOOSE r \in mine : TRUE
                 new == [old EXCEPT !.value = e]
             IN /\ rows' = (rows \ {old}) \cup {new}
                /\ shown' = ShownWith(s, new)
                /\ Goto(e, "ok")
  /\ UNCHANGED <<scenario, links, lastRow, overtaken>>

(* A DELETE that matches no row is not an error. *)
RemoveFeature(e) ==
  /\ editor[e].pc = "remove"
  /\ LET mine == {r \in rows : r.id = editor[e].target}
     IN /\ rows' = rows \ mine
        /\ links' = {l \in links : l.row # editor[e].target}
        /\ shown' = IF mine = {} THEN shown
                    ELSE ShownAfterRemove(editor[e].scenario,
                                          CHOOSE r \in mine : TRUE)
  /\ Goto(e, "ok")
  /\ UNCHANGED <<scenario, lastRow, overtaken>>

(* Mutant: the links stay behind. *)
DropScenarioOnly(e) ==
  /\ editor[e].pc = "drop"
  /\ scenario' = [scenario EXCEPT ![editor[e].scenario] = "gone"]
  /\ Goto(e, "sweep")
  /\ UNCHANGED <<rows, links, lastRow, shown, overtaken>>

(* delete_scenario: the links go with the scenario, the features stay. *)
DropScenario(e) ==
  /\ editor[e].pc = "drop"
  /\ scenario' = [scenario EXCEPT ![editor[e].scenario] = "gone"]
  /\ links' = {l \in links : l.scenario # editor[e].scenario}
  /\ Goto(e, "sweep")
  /\ UNCHANGED <<rows, lastRow, shown, overtaken>>

(* Mutant: nothing is swept. *)
KeepOrphans(e) ==
  /\ editor[e].pc = "sweep" /\ Goto(e, "ok")
  /\ UNCHANGED <<scenario, rows, links, lastRow, shown, overtaken>>

(* delete_orphans: every feature without a link, whoever inserted it. *)
delete_orphans(e) ==
  /\ editor[e].pc = "sweep"
  /\ rows' = {r \in rows : Linked(r)}
  /\ Goto(e, "ok")
  /\ UNCHANGED <<scenario, links, lastRow, shown, overtaken>>

ScenarioNext ==
  \/ \E s \in Scenarios : CreateScenario(s)
  \/ \E e \in Editors :
       \/ \E s \in Scenarios : \/ SendCreate(e, s) \/ SendUpdate(e, s)
                               \/ SendDelete(e, s) \/ SendDrop(e, s)
       \/ LookupUpdate(e) \/ LookupDelete(e)
       \/ InsertFeature(e) \/ InsertLink(e)
       \/ UpdateFeature(e) \/ RemoveFeature(e)
       \/ DropScenario(e) \/ delete_orphans(e)

ScenarioSpec == ScenarioInit /\ [][ScenarioNext]_scenarioVars

-----------------------------------------------------------------------------
(* The tables hold rows of their types, ids are given out in order, and    *)
(* every link names a live scenario and a row of scenario_feature: the     *)
(* cascades of crud_scenario.py and of the link model leave none behind.   *)
ScenarioTypeOK ==
  /\ scenario \in [Scenarios -> {"none", "live", "gone"}]
  /\ rows \subseteq Row /\ links \subseteq Link /\ lastRow \in 0..MaxRows
  /\ editor \in [Editors -> Request] /\ overtaken \in BOOLEAN
  /\ \A r \in rows : r.id <= lastRow
  /\ \A l \in links : /\ scenario[l.scenario] = "live"
                      /\ \E r \in rows : r.id = l.row

(* A scenario shows exactly the edits that were answered: the layer's      *)
(* other features as they are, each edited feature once and with its last  *)
(* value, deleted ones not at all, whatever other requests, removals and   *)
(* sweeps run meanwhile.  Claimed until a feature is edited from a stale   *)
(* screen: update_feature looks a feature up by the row's own id only, so  *)
(* a second edit by the layer's id adds a second row.                      *)
ScenarioShowsItsEdits ==
  ~overtaken =>
    \A s \in Scenarios : scenario[s] = "live" =>
      Overlay(s) = {[id |-> k, value |-> shown[s][k]] : k \in DOMAIN shown[s]}

(* A scenario feature without a link is one a request is about to link,    *)
(* one whose link was refused because its scenario had gone, or one a      *)
(* removal is about to sweep: nothing else leaves orphans behind.          *)
OrphansAreExplained ==
  \A r \in rows : Linked(r)
    \/ \E e \in Editors :
         \/ editor[e].row = r.id /\ editor[e].pc = "link"
         \/ editor[e].row = r.id /\ editor[e].pc = "failed"
              /\ scenario[editor[e].scenario] = "gone"
         \/ editor[e].pc = "sweep"

=============================================================================
