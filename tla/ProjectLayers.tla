--------------------------- MODULE ProjectLayers ----------------------------
(***************************************************************************)
(* The layers of one project: the rows of layer_project (crud/             *)
(* crud_layer_project.py) and the array project.layer_order, which the     *)
(* database does not keep in step with them.  Requests read the array,     *)
(* change the copy and write it back, each statement committed on its own; *)
(* deleting a layer takes its links away and leaves the array.             *)
(***************************************************************************)
EXTENDS Naturals, FiniteSets, SequencesExt

CONSTANTS
  Requests,   \* requests (and jobs) that change the project
  Layers,     \* the layers there are at the start
  MaxLayers,  \* the limit of layers in a project (300 in the code)
  MaxLinks    \* bound: how many links are ever created

ASSUME ProjectLayersAssumption == MaxLayers \in Nat /\ MaxLinks \in Nat

Links == 1..MaxLinks   \* layer_project.id, a serial number

VARIABLES
  layers,       \* the layers that still exist
  link,         \* the layer of a link that exists, or "none"
  next_id,      \* the sequence behind layer_project.id
  layer_order,  \* the column; NULL behaves like the empty list and is written so
  pc,           \* where a request stands
  layer_ids,    \* add: the layers still to be linked
  made,         \* add: layer_project_ids, the links created so far
  target,       \* remove: the link
  seen,         \* reorder: the links its client has seen
  loaded,       \* project.layer_order as the request's session loaded it
  new_order,    \* what it will write
  broken,       \* history: links left out by an add that failed
  overtaken     \* history: a request wrote over what it had not read

dbVars == <<layers, link, next_id, layer_order>>
requestVars == <<pc, layer_ids, made, target, seen, loaded, new_order>>
vars == <<dbVars, requestVars, broken, overtaken>>

Linked == {i \in Links : link[i] # "none"}

Named(order) == ToSet(order) \cap Linked

Init ==
  /\ layers = Layers
  /\ link = [i \in Links |-> "none"]
  /\ next_id = 1
  /\ layer_order = <<>>
  /\ pc = [r \in Requests |-> "idle"]
  /\ layer_ids = [r \in Requests |-> {}]
  /\ made = [r \in Requests |-> <<>>]
  /\ target = [r \in Requests |-> 0]
  /\ seen = [r \in Requests |-> {}]
  /\ loaded = [r \in Requests |-> <<>>]
  /\ new_order = [r \in Requests |-> <<>>]
  /\ broken = {}
  /\ overtaken = FALSE

Goto(r, from, to) == pc[r] = from /\ pc' = [pc EXCEPT ![r] = to]

\* The request has answered and its session is gone.
End(r) ==
  /\ pc' = [pc EXCEPT ![r] = "idle"]
  /\ layer_ids' = [layer_ids EXCEPT ![r] = {}]
  /\ made' = [made EXCEPT ![r] = <<>>]
  /\ target' = [target EXCEPT ![r] = 0]
  /\ seen' = [seen EXCEPT ![r] = {}]
  /\ loaded' = [loaded EXCEPT ![r] = <<>>]
  /\ new_order' = [new_order EXCEPT ![r] = <<>>]

----------------------------------------------------------------------------
(* create: add layers to the project.                                      *)

\* An empty project takes any number of layers.
CountLayers(r) ==
  /\ \E ids \in (SUBSET Layers) \ {{}} :
       /\ Linked = {} \/ Cardinality(Linked) + Cardinality(ids) < MaxLayers
       /\ layer_ids' = [layer_ids EXCEPT ![r] = ids]
  /\ Goto(r, "idle", "find")
  /\ UNCHANGED <<dbVars, made, target, seen, loaded, new_order, broken, overtaken>>

FindLayers(r) ==
  /\ pc[r] = "find"
  /\ IF layer_ids[r] \subseteq layers
       THEN /\ pc' = [pc EXCEPT ![r] = "link"]
            /\ UNCHANGED <<layer_ids, made, target, seen, loaded, new_order>>
       ELSE End(r)
  /\ UNCHANGED <<dbVars, broken, overtaken>>

\* Mutant of CreateLink: the layer's id is remembered, not the link's.
CreateLinkByLayer(r) ==
  /\ next_id \in Links
  /\ \E l \in layer_ids[r] \cap layers :
       /\ link' = [link EXCEPT ![next_id] = l]
       /\ layer_ids' = [layer_ids EXCEPT ![r] = @ \ {l}]
       /\ made' = [made EXCEPT ![r] = Append(@, l)]
       /\ Goto(r, "link", IF layer_ids[r] = {l} THEN "read" ELSE "link")
  /\ next_id' = next_id + 1
  /\ UNCHANGED <<layers, layer_order, target, seen, loaded, new_order, broken, overtaken>>

\* One INSERT per layer; the foreign key refuses a layer that has gone.
CreateLink(r) ==
  /\ next_id \in Links
  /\ \E l \in layer_ids[r] \cap layers :
       /\ link' = [link EXCEPT ![next_id] = l]
       /\ layer_ids' = [layer_ids EXCEPT ![r] = @ \ {l}]
       /\ made' = [made EXCEPT ![r] = Append(@, next_id)]
       /\ Goto(r, "link", IF layer_ids[r] = {l} THEN "read" ELSE "link")
  /\ next_id' = next_id + 1
  /\ UNCHANGED <<layers, layer_order, target, seen, loaded, new_order, broken, overtaken>>

\* Mutants of ReadForAdd: what was there is forgotten; new layers go to the end.
ReadForAddFresh(r) ==
  /\ made[r] # <<>>
  /\ Goto(r, "read", "write")
  /\ loaded' = [loaded EXCEPT ![r] = layer_order]
  /\ new_order' = [new_order EXCEPT ![r] = made[r]]
  /\ UNCHANGED <<dbVars, layer_ids, made, target, seen, broken, overtaken>>

ReadForAddLast(r) ==
  /\ made[r] # <<>>
  /\ Goto(r, "read", "write")
  /\ loaded' = [loaded EXCEPT ![r] = layer_order]
  /\ new_order' = [new_order EXCEPT ![r] = layer_order \o made[r]]
  /\ UNCHANGED <<dbVars, layer_ids, made, target, seen, broken, overtaken>>

\* A tool's session loaded the project before the links (core/tool.py) and has its
\* array from then.  It differs from the one read here only where another request
\* has written since; writing over that is what overtaken remembers anyway.
ReadForAdd(r) ==
  /\ made[r] # <<>>
  /\ Goto(r, "read", "write")
  /\ loaded' = [loaded EXCEPT ![r] = layer_order]
  /\ new_order' = [new_order EXCEPT ![r] = made[r] \o layer_order]
  /\ UNCHANGED <<dbVars, layer_ids, made, target, seen, broken, overtaken>>

----------------------------------------------------------------------------
(* delete_layer_from_project.                                              *)

FindLink(r) ==
  /\ \E i \in Linked : target' = [target EXCEPT ![r] = i]
  /\ Goto(r, "idle", "unlink")
  /\ UNCHANGED <<dbVars, layer_ids, made, seen, loaded, new_order, broken, overtaken>>

\* The object is in the session, so a row that has gone meanwhile is no error.
DeleteLink(r) ==
  /\ Goto(r, "unlink", "read")
  /\ link' = [link EXCEPT ![target[r]] = "none"]
  /\ UNCHANGED <<layers, next_id, layer_order, layer_ids, made, target, seen,
                 loaded, new_order, broken, overtaken>>

\* list.remove raises ValueError if the id is not in the list (and so does NULL).
ReadForRemove(r) ==
  /\ pc[r] = "read"
  /\ target[r] # 0
  /\ IF Contains(layer_order, target[r])
       THEN /\ pc' = [pc EXCEPT ![r] = "write"]
            /\ loaded' = [loaded EXCEPT ![r] = layer_order]
            /\ new_order' = [new_order EXCEPT ![r] = RemoveFirst(layer_order, target[r])]
            /\ UNCHANGED <<layer_ids, made, target, seen>>
       ELSE End(r)
  /\ UNCHANGED <<dbVars, broken, overtaken>>

----------------------------------------------------------------------------
(* update_project with a layer_order: the client has seen the links and    *)
(* sends them in an order of its own.                                      *)

SeeLinks(r) ==
  /\ Linked # {}
  /\ seen' = [seen EXCEPT ![r] = Linked]
  /\ Goto(r, "idle", "read")
  /\ UNCHANGED <<dbVars, layer_ids, made, target, loaded, new_order, broken, overtaken>>

ReadForReorder(r) ==
  /\ seen[r] # {}
  /\ Goto(r, "read", "write")
  /\ loaded' = [loaded EXCEPT ![r] = layer_order]
  /\ \E order \in SetToSeqs(seen[r]) : new_order' = [new_order EXCEPT ![r] = order]
  /\ UNCHANGED <<dbVars, layer_ids, made, target, seen, broken, overtaken>>

----------------------------------------------------------------------------
(* All three end by writing the array.  SQLAlchemy sends no UPDATE when    *)
(* the value is the one it loaded.                                         *)

\* Somebody else's change is written over: the array is not what was loaded, or
\* the client's order is not one of the links in it now.
Overtakes(r) ==
  \/ seen[r] = {} /\ layer_order # loaded[r]
  \/ seen[r] # {} /\ Named(new_order[r]) # Named(layer_order)

WriteOrder(r) ==
  /\ pc[r] = "write"
  /\ IF new_order[r] = loaded[r]
       THEN UNCHANGED <<layer_order, overtaken>>
       ELSE /\ layer_order' = new_order[r]
            /\ overtaken' = (overtaken \/ Overtakes(r))
  /\ End(r)
  /\ UNCHANGED <<layers, link, next_id, broken>>

\* The request raises or its process dies; what it has committed stays.
FailRequest(r) ==
  /\ pc[r] # "idle"
  /\ broken' = broken \cup ToSet(made[r])
  /\ End(r)
  /\ UNCHANGED <<dbVars, overtaken>>

\* A layer is deleted: its links go with it (ON DELETE CASCADE).
DeleteLayer(l) ==
  /\ l \in layers
  /\ layers' = layers \ {l}
  /\ link' = [i \in Links |-> IF link[i] = l THEN "none" ELSE link[i]]
  /\ UNCHANGED <<next_id, layer_order, requestVars, broken, overtaken>>

----------------------------------------------------------------------------
Add(r) == CountLayers(r) \/ FindLayers(r) \/ CreateLink(r) \/ ReadForAdd(r)
RemoveLink(r) == FindLink(r) \/ DeleteLink(r) \/ ReadForRemove(r)
Reorder(r) == SeeLinks(r) \/ ReadForReorder(r)

Next ==
  \/ \E r \in Requests :
       Add(r) \/ RemoveLink(r) \/ Reorder(r) \/ WriteOrder(r) \/ FailRequest(r)
  \/ \E l \in Layers : DeleteLayer(l)

Spec == Init /\ [][Next]_vars

----------------------------------------------------------------------------
(* Properties.                                                             *)

\* Type invariant.
TypeOK ==
  /\ layers \subseteq Layers
  /\ link \in [Links -> Layers \cup {"none"}]
  /\ next_id \in 1..(MaxLinks + 1)
  /\ layer_order \in Seq(Links)
  /\ pc \in [Requests -> {"idle", "find", "link", "unlink", "read", "write"}]
  /\ layer_ids \in [Requests -> SUBSET Layers]
  /\ made \in [Requests -> Seq(Links)]
  /\ target \in [Requests -> Links \cup {0}]
  /\ seen \in [Requests -> SUBSET Links]
  /\ loaded \in [Requests -> Seq(Links)]
  /\ new_order \in [Requests -> Seq(Links)]
  /\ broken \subseteq Links
  /\ overtaken \in BOOLEAN

Pending == UNION {ToSet(made[r]) : r \in Requests}

\* layer_order names every link of the project once, except links that an add is
\* still about to put there or that a failed add left out, unless some request has
\* written over a change it had not read: requests that fail half-way, two removals
\* of a link and deleted layers never bring the two out of step in any other way.
OrderNamesEveryLink ==
  overtaken \/
    /\ Linked \subseteq ToSet(layer_order) \cup Pending \cup broken
    /\ \A i, j \in DOMAIN layer_order :
         layer_order[i] = layer_order[j] /\ layer_order[i] \in Linked => i = j

\* Seen through the links that exist, a step that writes over no change it had not read
\* either permutes the list, when it ends a reorder, or moves no request's links: those
\* that stay linked stay listed, in their order, and new ones are put before them.
Before(order, i, j) == \E m, n \in DOMAIN order : m < n /\ order[m] = i /\ order[n] = j

EndsReorder ==
  /\ \E r \in Requests : seen[r] # {} /\ pc[r] = "write" /\ pc'[r] = "idle"
  /\ Named(layer_order)' = Named(layer_order)

LeavesOrder ==
  LET old == Named(layer_order)
      new == Named(layer_order)'
  IN /\ old \cap Linked' \subseteq new
     /\ \A i, j \in old \cap new : Before(layer_order, i, j) <=> Before(layer_order', i, j)
     /\ \A i \in new \ old, j \in old \cap new : Before(layer_order', i, j)

StepsKeepOrder == [][overtaken' \/ EndsReorder \/ LeavesOrder]_vars

\* What the test fixture for a project's layers says ("Check if layers are in layer
\* order at right position"): when the requests have answered and none has failed,
\* the order names every layer of the project.
AddedLayersAreInOrder ==
  (broken = {} /\ \A r \in Requests : pc[r] = "idle") => Linked \subseteq ToSet(layer_order)
=============================================================================
