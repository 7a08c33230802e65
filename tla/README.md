# GOAT core in TLA+

GOAT core is the backend of a web GIS: a FastAPI application on PostgreSQL/PostGIS.
A user keeps *folders* of *layers*; the features of all layers of a user share a few
tables of the *user data* schema, one per geometry type, and a layer is a row of
metadata plus the rows that carry its id. Long work (imports, analyses, deletions of
many layers) runs as a *job*, a coroutine started after the request has answered.
*Projects* link layers and keep them in a display order.

This directory models the parts of it whose correctness depends on the order of
things (jobs and whoever else writes their row, the rows and layers that jobs leave
and clean-ups remove, projects, scenarios, accounts, catchment areas asked of a routing
service), and, as operators over small relations, what the tools compute in SQL.

One fact shapes every module. The engine is created with
`isolation_level="AUTOCOMMIT"` (`src/src/db/session.py:122`): a statement is durable
when it returns, `commit()` commits nothing more and `rollback()` undoes nothing. What
reads as a transaction is a sequence of separate statements with an `await` between
them, where other requests and jobs run. So an action here is the code between two
statements that others can see, and a failure leaves what was done before it.

## Inventory

| Part | State | Operations | Talks to | What makes it hard | What makes it correct |
|---|---|---|---|---|---|
| Job lifecycle (`core/job.py`, `crud/crud_job.py`, `endpoints/v2/job.py`, `scripts/label_failed_jobs.py`) | `job.status_simple`, the JSON `job.status` with one entry per step, what the job has left in the database | admit and create, `job_init`, `job_log` around each step, kill, label | the tools it wraps, the clean-ups, the kill endpoint and a cron script that write the same row | four writers of one column, each deciding on an earlier read; clean-ups that may raise; crashes; a step's `killed` result that the pipelines ignore | the row ends and ends truthfully; finished means complete; failed means withdrawn; a kill is honoured |
| User data and orphan clean-up (`core/job.py`, `core/layer.py`, `core/tool.py`, `crud/crud_layer.py`, `crud/crud_folder.py`, `scripts/delete_orphan_data.py`) | rows per layer and table, layer rows, folders, the script's `last_run` | insert rows, create layer, undo, sweep, delete a layer, delete a folder | every job of the user | rows exist before their layer does, sweeps work on a copy of the layers, table by table, and cover the whole user | no layer loses rows that nobody asked to delete; a failed job leaves nothing |
| Project layers (`crud/crud_layer_project.py`, `endpoints/v2/project.py`, `core/content.py`, `crud/base.py`) | rows of `layer_project`, the array `project.layer_order` | add, remove, reorder, delete a layer | tools that add their result to a project, printing, which looks layers up in the order | the array is read, changed and written back; links are committed one at a time; the cascade does not touch the array | the order names every link once; nobody moves another's layers |
| File import and export (`core/layer.py`, `crud/crud_layer.py`) | folders and zips under `DATA_DIR`, temporary table, target rows | upload, validate, import, migrate, export, remove old files | the job lifecycle | every upload and export removes other users' old folders first; exports share folders and zips; half-done steps | nothing is left of a failed import; an upload waits for its import; an export holds its layer |
| Dataset update (`crud/crud_layer.py:1054`, `endpoints/v2/layer.py:510`) | two layers, their names, the links of every project | import, repoint the links, delete the old layer, rename the new one | import, projects | a failure after the links moved; two updates at a time; unique names | links survive; the name survives |
| Catchment area jobs (`crud/crud_catchment_area.py`, `core/tool.py`) | result rows, starting points, layers, links | save points, ask and poll, write, create layers | two routing services, the clean-ups of other jobs, the project | a service that writes whether or not anybody still waits; a time limit shorter than the polling; a layer created in a loop | finished means whole; failure has a cause |
| Isolines (`jsoline.py`) | none | contour a grid, follow lines, sort holes | public transport catchment areas | saddles, borders, holes in islands | polygons enclose what is reached in time |
| Street network (`produce_network_modifications.sql`, `get_artificial_segments.sql`) | none | modify the network, cut edges at starting points | scenarios, routing | several cuts of one line, ends that meet | the streets left and drawn, connected where they meet |
| Aggregation, join, O-D (`crud/crud_geoanalysis.py`, `crud/crud_data_management.py`) | result rows | one step each | job lifecycle, user data, scenarios, filters | polygons are subdivided and cut by shards, outer joins, repeated rows | each feature counts once where it belongs |
| Heatmaps (`crud/crud_heatmap*.py`) | opportunity tables | closest average, gravity, connectivity | travel-time matrix | several ways to one opportunity, several layers | what can be reached in time, once |
| Public transport indicators (`crud/crud_oev_gueteklasse.py`, `crud/crud_trip_count_station.py`, `crud/crud_nearby_station_access.py`) | result rows | count trips, classify stations, cut areas | timetable | windows, parents and stops, boundaries of classes | each departure once; more service is no worse; the best class wins |
| Admission of tool requests (`schemas/`, `core/tool.py`) and buffers (`crud/crud_geoprocessing.py`) | none | validate, load layers, check limits, buffer | every tool | limits read from one of two counts | limits hold; what keeps them is served |
| Scenarios (`crud/crud_scenario.py`, `utils.py`) | scenario features, links | create and remove scenarios; create, update, delete features; sweep | tools that read the overlay | look up, then create; two rows per edit; sweep of all orphans | a scenario shows the edits that were answered |
| Publication (`crud/crud_project.py`) | public copy of a project | publish, unpublish | projects | look up, then create | one public copy, the last one |
| Accounts, user schema, folders, projects (`endpoints/v2/user.py`, `crud/crud_user.py`, `endpoints/v2/folder.py`, triggers) | the user's tables, home folder, folders, projects | create, delete, rename | everything | an except branch that drops; a limit counted before the insert | a repeated call destroys nothing; the limit holds |
| Sharing and lists (`core/content.py`) | links to teams and organizations (written elsewhere) | list, count | projects, layers | two joins at once multiply rows | each content once, with whom it is shared |
| Statistics, charts, breaks (`core/statistics.py`, `core/chart.py`, `*_breaks.sql`) | none | queries | layers, results of aggregations | NULLs, ties, one value, renamed columns | figures of the sources; classes cover the values |
| Temporary tables, printing, authorization, configuration, expressions | none of their own | label and drop, rendering, checks, data, translation | - | - | - |

`PROJECT.json` lists the same parts with the modules that model them, and under
`hazards` each place of the code where the order of things bites, with the properties
that speak of it.

## Modules

```
JobPromise      what a client may rely on         (abstract specification)
   ^ refined by
Job             the worker, its clean-ups, kills, the label script, crashes
   JobProofs    inductive invariant, theorems, refinement
   MCJob        instances for TLC
UserData        rows and layers: jobs that create them, all that removes them
   UserDataProofs
   MCUserData
ProjectLayers   links and layer_order: adds, removals, reorders, cascades
   ProjectLayersProofs
   MCProjectLayers
DatasetUpdate   two layers swapped under the links and the name of one
   DatasetUpdateProofs
   MCDatasetUpdate

Scenario        edits beside a layer, their links, the sweep of orphans
Workspace       tables of a user, folders, project, public copies
Files           uploads, imports, exports, removal of old files
Catchment       jobs that ask a routing service and make layers of the answer
   WorkspaceProofs   of the four
Isolines        lines followed around what a grid says is reached
StreetNetwork   streets modified by a scenario, edges cut   (operators)
Tools           aggregation, join, flows                    (operators)
   Heatmap      closest average, gravity, connectivity
   Statistics   charts, ranked values, histogram, breaks
   Admission    accepted requests, limits of layers, buffers
Stations        trips, classes of stations, nearby stations (operators)
Sharing         lists of shared contents                    (operators)
   ToolsProofs   of the operators but Statistics
   FiguresProofs   of Statistics and Isolines
   MCServices   all of these in one run
      ServicesProofs   of the run
```

### Job

One record per job, kept as functions over `Jobs`. `status_simple` and `step_status`
are the two columns of the row; `pc`, `step` and `result` are the coroutine: where it
is, in which step, and which status it holds in a local variable. `products` is what
the job has left in the database: a temporary table, rows, a layer. `killer` is a kill
request between its read and its write. `killed` is a history variable, and `aged` says
the row is older than `MAX_JOB_TIME`.

Every pipeline of the repository has one of three shapes (`type`): `import`
(`import_file_job`: steps *upload* and *migration*, the layer is created after them, its steps
have failure functions of their own), `oev` (`oev_gueteklasse_run`: two steps, layers after them;
the two layers it creates count as one product), and
`tool` (one step that does everything). `Needs`, `Makes` and `Drops` say what each
stage does to `products`. A stage raises if what it needs is missing, which is how a
skipped step is noticed.

The worker's path is the code's:

    CountRunning, CreateJob                     check_and_create
    JobInit                                     job_init sets running
      StartStep, StartRefresh                   job_log writes running, then looks for a kill
        CleanKilled                             ... was killed: clean up, return {"status": "killed"}
      Work*, FuncReturns | FuncRaises           the wrapped function, under wait_for
        CleanFailed, MarkFailed                 ... raised or timed out
      CheckKilled, LogStep, LogRefresh          read the row, write it, read it again
        CleanStep                               ... JobKilledError
    TailWork*, TailReturns                      what a pipeline does outside of its steps
    Finish, DropTemp                            job_init writes finished
    CleanInit, Fail                             job_init's except branch

`StepFailureFunc` and `CleanInit` stop after any number of their statements: an
exception there reaches `job_init` from a common clean-up, is swallowed by the
import's own failure functions, and in `job_init`'s except branch ends the worker. `Crash` may
take the worker at any point. `KillRead`/`KillWrite`, `Age` and `label_failed_jobs` are the others.

Left out: the `read` flag, messages, the listing of jobs, and the timing of steps (a
timeout is an outcome of `FuncRaises`).

### JobPromise

A job is absent, open, closed with an answer, or lost. Closing is once only, *finished*
comes with a layer, *failed* without, and a closed job changes only by a kill request
that was on its way. `Job` is mapped to it by `Phase`, `Answer` and `LayerLeft`.

### UserData

Here a job is its layer: the id is known before the rows are inserted. `rows` says
whether a layer has rows, and whether they were updated in the last 20 minutes,
which is what `delete_orphan_data` looks at. `layers` is the set of layer rows.
A sweep (`sweep`, `table`, `known`, `victims`) goes through the tables one at a time:
`Snapshot` copies the layers that belong to the table into `temp_layer`, `Select` looks
for recent rows that the copy does not know, `DeleteVictim` deletes them id by id, `NextTable`
goes on, and `DropLayers` is `delete_created_layers`. Sweeps are run by a failing job once or
twice (`left`: once for the failed step, once in `job_init`), by a failing folder deletion and by the cron
script, which remembers `last_run` (`unseen`, `marked`) in place of the 20 minutes. The user
deletes layers (rows first, then the row) and the folder (layers loaded, folder and
layers removed, then a job for the rows, which may not be admitted).

The two modules overlap in the failing of a job on purpose: `Job` follows one job
through every await of the wrapper and knows its own data only; `UserData` has the
wrapper in fewer steps and everybody's data. What `Job` says of a job's data holds as
far as the job's own doing goes; `UserData` shows what the sweeps of others
do to it.

### ProjectLayers

`link` is the table `layer_project` (ids come from a sequence, `next_id`),
`layer_order` the array. A request is an add (`CountLayers`, `FindLayers`, `CreateLink`
per layer, `ReadForAdd`), a removal (`FindLink`, `DeleteLink`, `ReadForRemove`) or a
reorder (`SeeLinks` is the client's earlier GET, `ReadForReorder`). All end with `WriteOrder`,
which sends nothing if the value is the one that was loaded: SQLAlchemy compares them.
`FailRequest` ends any of them half-way, `DeleteLayer` cascades to the links. Tools
that put a result into a project are adds; a tool's session has loaded the array earlier (`core/tool.py:265`), which the model does not repeat: a tool that writes over a change it has not seen is `overtaken` like any other. `NULL` in `layer_order` behaves as the empty
list in an add, and as an error in a removal, as in the code. Names of links
(`"Copy from ..."`) and the columns for style and filter are left out, as they never meet the order.

### DatasetUpdate

One folder. A job is its layer, as in `UserData`; `layers`, `data` and `name` are the
layer rows, the rows of data and `layer.name`; `link` says which layer a row of
`layer_project` shows. A name is the sequence of the counters that
`check_and_alter_layer_name` has appended, so `"roads (1) (2)"` is `<<1, 2>>`, and its search for the
highest number is `Numbers` and `IsHighest`. An update goes through

    StartUpdate                      the endpoint: the layer and its name are read
    Migrate | SkipMigration          rows of the new layer; a killed job goes on without
    check_and_alter_layer_name       a name for the new layer, from the names there are now
    CreateLayer                      the layer, if the unique constraint lets it
    update_layer_id                  all links of the old layer to the new one
    DeleteData, DeleteRow            CRUDLayer.delete of the old layer
    Rename                           the new layer gets the name of the request
    Fail, delete_created_layers      job_init's except branch, from any point

Around it another import of the folder (`StartImport`, `CreateLayer`), deletions by the user with the same
`DeleteData` and `DeleteRow`, `AddLink` and `RenameLayer`. Updates may have one target, or update
the result of an update. `update_layer_id` opens a transaction of the session, which raises if there is one: after a table layer
was created there is, so such an update only ever fails (`"begun"`). Deleting a layer
loads its links first, for the ORM's cascade, and deletes them by id: a link that has moved on meanwhile dies too
(`doomed`). A clean-up's sweep is one step here; nobody's step depends on the rows of a layer, so when
within the sweep they go makes no difference. `early` remembers the imports that were about to take the name of the layer when the update began.

### Scenario

`rows` is the table `scenario_feature`, `links` the table that ties its rows to a scenario, `editor` the requests
in progress. An edit is two statements, `InsertFeature` and `InsertLink`, after a lookup (`LookupUpdate`, `LookupDelete`) that finds a
row by its own id only. `DropScenario` removes the links, `delete_orphans` then every row without one, of whatever request.
`Overlay` is what the three `create_distributed_*_table` functions read: the layer's features that no row of the scenario
names, and the drawn ones. Attributes and geometry of a feature are one value, the editor who wrote it.

### Workspace

One user, one project. `tables` is the state of each table of the user data schema (absent, without its trigger, ready), `folders`
the set of names. Requests (`call`) go through `TableExists`, `CreateTable`, `IndexTable`, `CreateHome` for `POST
/user/data-schema`, `DropTable` for its `DELETE`, count and add for a folder, `create_project` and `LinkUserProject`, and `ReadProject`,
`AddPublic`, `ReplacePublic` for a publication; `Die` ends any of them half-way. `CreateAccount` and `DeleteAccount` are the triggers on
`accounts.user`, one transaction each. The first passes over a table that is there already, its trigger and indices too
(`trigger_create_user_data_tables.sql:36`), so a table that a `POST` made before the account stays bare when that request dies before `IndexTable`; such a request ends "torn". The except branch of `create_user_base_data` is to drop the tables; it does not, because
the session is unusable after the failed flush and its first query raises.

### Catchment

One record per job: how it computes (`mode`), the `type` of area (a public transport area may be asked for as a grid), where it starts from, where it is. `call_routing_endpoint` is one turn of the polling, a 202 asks to come
again (`ComeAgain`) and the last time fails. `service` is the routing service, which is not in this repository: once asked, it
writes its rows at any later time (`ServiceWrites`), also after the job has given up. An answer may say that nothing is reached (`SaveAnswer`): its row has no extent
(`HasExtent`), and the job fails on that, with the cause "nowhere". A grid is computed and not written (`write_catchment_area_result`). `Measure`, `CreateLayer` and `LinkLayer` are
`create_feature_layer_tool`, for the area and then for saved starting points. A failing job sweeps (`delete_orphan_data`) and drops its own layers. `cause`
collects what befell a job. What `Job` has (statuses, kills, the wrapper's own statements) is not repeated.

### Isolines

`get_contour`, `FindLine`, `FollowLine` and `SortHoles` are `jsolines` with the pixels at even
coordinates and every crossing in the middle of its edge. The state is that of the function: the cells done, the line being followed, shells and holes.

### StreetNetwork

A line is the sequence of the points where something can touch it; `Streets` and `NodeAt` are the base network. `new_network`, `existing_network`,
`Deletions` and `Additions` are the tables of `produce_network_modifications`, from which routing reads `Combined`. `get_artificial_segments` folds over the
points on an edge, in quarters of its length, with the function's state in an accumulator.

### Tools, Heatmap, Statistics, Admission, Stations, Sharing

Queries without state are operators on sets of rows; each row has a key of its own, so that equal rows stay two. `Tools` has what most share: a layer as the filter
and the scenario leave it (`Overlaid`), its rows in the distributed tables (`create_distributed_polygon_table`: the pieces `Subdivided` makes
of a polygon of many vertices, each in every shard it reaches, and twice when it touches the border of its shard from within, `AtBorder`), statistics and weights. A geometry is the set of places it covers. Reference definitions follow
the operators they are for and speak of places and features, not of rows and shards; only the conditions under which they are claimed do. Where the code does not meet a reference for some input, the reference says
for which inputs it is claimed and why.

`Heatmap` asks the geofence of whole polygons (`whole`), the matrix of the places of their outlines (`at`). A fence is a function of the time of a layer, as each is widened by its own
(`crud_heatmap_gravity.py:67`).

`Admission` has the validators that relate parameters to each other or to the limits of a tool, the kinds of layers a tool takes, the counts and areas it compares with its
limits (`NetworkPart` is the 10 of the second check of classes of public transport along the network), and the request for a catchment area that nearby stations are asked for with.

### Files

`disk` maps the paths under `DATA_DIR` that exist to what is in the file: of a zip, whose data and metadata. A request (`client`) lists the homes of all
users (`Begin`), looks at the age of each (`Look`) and removes the old ones (`Expel`); clears its folder, finds or makes its user's home, makes the folder; and then
saves and validates an upload, or exports (`export_ogr2ogr`, `create_metadata_file`, `ZipFolder`, `RemoveFolder`, `SendZip`). An import checks that the upload is there,
reads it and drops it. Removing a tree and zipping one are one step each, though a thread does them entry by entry: what another request does to the tree meanwhile it may do before or after. `aged` are the homes
that did not change for two hours; `Stored` makes them young when an entry of theirs comes or goes, as a file system does. Requests that are refused before they touch a file
(a wrong type or size, no CRS) never begin. `met`, `unsettled` and `waited` are history variables.

## What is checked

| Run | Shows |
|---|---|
| `job` | One job of any shape. `EndIsReported`: a worker that ended in its own way leaves an ended row. `FinishedIsComplete`: finished means that no step was skipped and layer and data are there. `FailureIsWithdrawn`: failed means the layer is gone. `KillDuringStepIsHonoured`: a kill that lands while a step's function runs is not lost. `KeepsPromise`: the refinement. `EventuallySettled`: the row ends for good, even when the worker dies. |
| `job_kill` | Disagreement: a kill between steps, before the worker starts, or after the worker's last look is overwritten, against the endpoint's docstring. |
| `job_parallel` | Disagreement: more jobs run than the error message of `check_and_create` allows. |
| `userdata` | An import and the two-step tool in two tables, failing anywhere while the user deletes their layers. `OnlyExposedRowsAreSwept`: a layer loses its rows only if its user asked for it or a sweep overlapped its creation. `FailedJobLeavesNothing`: what a failed job can leave behind, and why. |
| `userdata_cleaners` | The same of a tool, an existing layer, the deletion of their folder and the cron script, in one table. |
| `userdata_sweep` | Disagreement: the clean-up deletes the *young* rows where its comment says it deletes the old ones, and so empties another job's layer, which then finishes. |
| `userdata_folder` | Disagreement: a folder is gone before the job that deletes its data is refused. |
| `project_layers` | Two requests of any kind, failing, and layers deleted under them. `OrderNamesEveryLink`: order and links part only by a lost update or a failed add. `StepsKeepOrder`: a request that overtakes nobody adds in front and leaves what stays listed in its order, unless it reorders. |
| `project_layers_order` | Disagreement: after two adds that both succeed, a layer is in the project and not in its order. |
| `dataset_update` | Two updates, an import, a deletion, links and renames, stopping or failing anywhere. `LinksAreCarriedOver`: a project loses a layer only for a named reason. `ShownLayersHaveRows`: links move only when the new rows are there, and the old ones go only when the links have moved. `NameIsKept`: no import takes the name an update has to give back, except one that had chosen it before the update began. |
| `dataset_update_kill` | Disagreement: a killed update leaves an empty layer in every project and has deleted the old data, against the endpoint's docstring. |
| `services` | One behaviour of `Scenario`, `Workspace`, `Catchment`, `Isolines` or `Files`, or one input of the operators; see below. |

The properties of `services`, by part:

* Scenario. `ScenarioShowsItsEdits`: a scenario shows exactly the edits that were answered, whatever sweeps and removals run meanwhile, until somebody edits from a stale screen. `OrphansAreExplained`: a row without a link
  is about to be linked, or was refused, or is about to be swept.
* Workspace. `WorkspaceKeepsTables`: no repeated, parallel or dying `POST /user/data-schema` costs a user a table, and each has its trigger and indices but for one that a `POST` made before the account. `FolderLimit`: passed only by counts that overlapped, or by the home folder. `OnePublicCopy`: at rest the public copy is the one last published.
* Catchment. `FinishedCatchmentIsWhole`: finished means area and starting points are linked and have their data. `OnlyAccidentsFail`: a job fails only of a cause (an answer that reaches nothing is one), except PT areas of several points and PT areas as a grid, which always do.
* Files. `LoneRequestsAreServed`: whatever failures, crashes and time have left on disk, a request that meets nobody is served, and one breaks only on a named encounter. `ExportHoldsItsLayer`: the zip that is answered holds the data and the metadata of one request, its own unless
  another export used the file name meanwhile. `FoldersLastAsNeeded`: an upload is lost to old age or to a sweep that had looked before it came, not otherwise, and no folder stays without a cause.
* Isolines. `IsolinesEncloseWhatIsReached`: every pixel reached in time lies in a polygon of the step and no other does, except lone pixels and islands that touch their hole.
* StreetNetwork. `ModifiedNetworkIsDrawn`: the network runs along what was left and drawn, and edges that meet share their node. `CutEdgeFollows`: the pieces of a cut edge follow one another and each starting point hangs at its place.
* The operators. `ToolResultsAreExact`, `HeatmapIsExact`, `DeparturesAreCounted`, `ListsAreExact`, `FiguresAreExact`: each figure, list and class is what its reference says. An aggregation by areas is claimed of features that meet an area in one row (`MeetInOneRow`):
  polygons of many vertices, those that shards cut together with the area, and those at a border the code counts more than once. On a grid the rows come together again, and it is claimed of all, but for weights of pieces that are inserted twice. `BetterServiceWins`: more service is no worse a class, and the best class offered counts.
  `AdmittedRequestsAreServed`: no tool works on more than its limits, and accepted requests within them are not turned away; a network is laid over no more than its part of the area.

The pass-runs are the positive part: what *does* hold given AUTOCOMMIT and the
races above. Their properties therefore name the exact exceptions
(`exposed`, `fate = "late"`, `overtaken`, `broken`, `excused`, `skipped`, `swept`, `early`, `met`, `unsettled`, `waited`) through history variables; the violation runs
show that the exceptions occur and contradict what the repository says.

### Bounds

* `job`: one job. Jobs meet only in `RunningJobs`, which guards nothing but admission,
  so each property of a job is a property of one; `job_parallel` has two. Nothing else is bounded.
* `userdata`: two jobs in two tables, so that one sweeps while the other is between any two
  statements, in the table that the sweep is in and in the other one. The tables are visited in a
  fixed order, so two give all relations of sweep and row: before, at, after.
* `userdata_cleaners`: one of each kind of cleaner, one table. Each rows' deletion involves one sweep and one
  layer; the third party is there to age, delete or remove the folder.
* `project_layers`: two requests, two layers, three links (`MaxLinks`), a limit of 4 that two adds can
  reach. Three links let an add of two meet an add of one, and a removal or a reorder
  of either. The constraint `Claimed` stops at states where a request has overtaken another: every property
  checked there reads `overtaken \/ ...` and `overtaken` is never reset, so nothing is lost.
  Requests and layers are interchangeable; the symmetry is used with safety properties only.

* `dataset_update`: two updates, because what one does between another's two statements is the question; one existing layer,
  so that both may have the same target or one the other's result; one import and one deletion, enough for an import to choose a name, find it taken, and get it from an update that began meanwhile; one link, as a link's life depends
  on layers and not on other links. Everybody asks for one name, the hardest case for the
  constraint; user renames are to that name too. The updates are interchangeable.

* `services`: a behaviour is that of one part, as nothing they do here meets; the composition of a job with the data of others is in `UserData`.
  Scenario: two scenarios, two features of the layer, three requests and three rows, so that an edit, a second edit and a sweep overlap. Workspace: three requests
  (two that race and one to see the outcome), two tables (one done, one not), a limit of two folders, two edits of the project. Catchment: two jobs of any kind, two points, two tries.
  Files: two users, two layers, two file names, three requests of which two are new (`MaxNew`), so that an upload is imported, by one or two imports, while another user's upload or export sweeps, and two exports of any layers and names meet or follow one another.
  Isolines: every way to reach of nine pixels, an island in a hole in an area, slopes with fewer and with more steps than minutes. Streets: three edges, with every line between seven points and a second feature; up to four points on an edge.
  The operators: two or three features per layer in four places, three cells and two shards, one place at a border and one shape that is subdivided (`MCAtBorder`, `MCSubdivided`), with none to two edits of a scenario; three departures of three stops; three classified stations; up to four values of a column;
  polygons that lie in a geofence, across it, outside and around it, with fences that do and do not grow with the time; eight layers of every kind for every request, with limits of two features, two coordinates (one for public transport) and three places, one for a network. Requests and jobs are interchangeable.

Deadlock is not checked: all jobs ended and all requests answered is a legal end.

### Fairness

Only `EventuallySettled` needs it. `Fairness` of `Job` is weak fairness of the worker (the event loop
runs every coroutine that can go on, and a step is bounded by `wait_for`), of `Age` (time passes)
and of `label_failed_jobs` (cron). Kill requests, crashes and admission are
not fair. A lost worker is then settled by the script, a live one by itself.

## What is proved

`JobProofs`, for every set of jobs and limit. The inductive invariant is `IInv`, `TypeOK` with five
parts per job: `Control` (which step and which local result go with which point), `Report` (what the row
can say where the worker relies on it), `Gaps`, `Withdrawn`, `Honoured`. `Gaps` is the part without
which `FinishedIsComplete` is not inductive: a killed step returns instead of raising and the
pipeline goes on, so the proof has to carry that *either* step 1 is finished *or* what step
2 or the tail needs is missing and will make it raise. `StepInv` shows
that a step of a job keeps its own part, one case per action; `OthersSame` and `SameInv` that
it does not touch the others. From `Invariance` follow `TypeCorrect`, `ReportedEnd`,
`CompleteWhenFinished`, `FailureWithdraws`, `KillHonoured`, and with `StepMoves` and
`NextKeepsPromise` the theorem `Refinement`, `Spec => KeepsPromise`. Assumptions: `JobAssumption`.

`UserDataProofs`, for any jobs, tables, deletions and scripts. `IInv` has
`NotYetKnown` (nobody has loaded a layer that is not created), `FolderGone`, `SweepsSeeExposed` (whatever
a sweep has not copied and may still find is already `exposed`), `GoneExplained`, and
`LastCleanUp`, which follows the last sweep of a job through the tables (`Passed`). From it follow `TypeCorrect`,
`OnlyExposed` and `NothingLeft`. Assumptions: `UserDataAssumption`: there is a table, every layer
has one, and jobs, deletions and scripts are different things.

`DatasetUpdateProofs`, for any updates, imports, deletions, layers, links and names. `AlteredNameIsFree` says that
`check_and_alter_layer_name` never returns a name it has read. `IInv` has `NotYetMade` (nobody can have asked for a layer that is not
created, so its rows are safe until then), `HasTarget`, `LinksMoved` (an update that has moved the links has left only late ones
behind, which is why it may delete the layer), `HasRows` and `LinkAlive`. From `Invariance` follow `TypeCorrect`, `LinksCarried` and
`ShownHaveRows`. Assumptions: `DatasetUpdateAssumption`: finitely many layers, jobs, layers and requests are different things, and the
user's names are names.

Its second part goes on from there to `NameKept`, for any updates, imports and names. `NamesInv`: as long as the target of an update is
in the folder it has the name of the request (`TargetNamed`), the layer made beside it has a numbered one (`Numbered`, `OwnName`), and so
whoever asks for the name meanwhile is given a number (`GetsNumber`, about `check_and_alter_layer_name`). `NotTaken` carries this for
each pair of an update and an import. An update whose target goes before `CRUDLayer.delete` finds it never gets to its last step (`Alive`),
which is why the name need not be guarded then.

`ProjectLayersProofs`, for any layers, requests, links and limit: `LayersTypeCorrect`, `EveryLinkIsOrdered` and, an action property from the same invariant, `StepsLeaveOrder`. The invariant says which ids a
request can know (`KnownIds`), that a link is made by one request and once (`MadeOnce`), what a request at its last statement is about to write (`Intent`, in
`Stage`), and `InOrder`: the array names every link but those a request still has to put there, and each once. The lemmas before it say what `Append`, `\o` and
`RemoveFirst` do to what a sequence holds, and those after it what they do to the order of what stays (`JoinedOrder`, `RemovedOrder`). Assumptions: `ProjectLayersAssumption`.

`WorkspaceProofs`, for any requests, tables, versions and a limit of two or more: `WorkspaceTypeCorrect`, `TablesAreKept` (tables are dropped by
those who were asked to, `DropsAreAsked`; a bare table is at a request that made it or died there, `BareIsHeld`), `LimitIsKept` (as long as counts have not overlapped at most one request has a place it has counted and not taken,
`PlaceIsKept`) and `OneCopy`. Assumptions: `WorkspaceAssumption`.

The second part of `WorkspaceProofs`, for any scenarios, features and editors: `ScenarioTypeCorrect`, `OrphansExplained`, `EditsAreShown`. A row belongs to one scenario from its link on
(`OneLink`), to the request that inserted it until then (`InHand`), and requests meet it nowhere else (`TargetIsOwn`). As long as no screen is stale, a feature of a
scenario has one row or one request on its way and never both (`Alone`), so that what is drawn changes as the answered edits say (`ShownRight`). `OrphansAreExplained`
is inductive beside these. Assumptions: `ScenarioAssumption`, the ids of rows are not those of the layer's features.

The third part of `WorkspaceProofs` is about `Files`, for any requests, users, layers and file names: `FilesAreTyped`, `LoneRequestsSucceed`, `ExportsAreWhole`, `FoldersAreKept`. None of the three
properties is inductive: each speaks of a request that has ended. `FilesIInv` follows a request from its start: as long as nobody disturbed it (`Undisturbed`: no sweep took its home, no request of the
same layer met it) it finds the home (`HomesStay`), its folder (`FolderIsOwn`), the folder inside an export with exactly the pieces it has put there (`InnerIsOwn`) and then the zip (`ZipIsWhole`, which has
to speak of every request that writes the same zip). From an answered upload to its import it is the folder that is followed (`UploadFolderOK`, `UploadWaits`), and with it the age of the home: who saw it old has met the
upload, or the upload has waited (`AgedAfter`). `FoldersHaveACause` names for each folder a request that accounts for it, which is the hard half of `FoldersAreKept`: when an export removes its folder, others
of the same layer may still be in it. The actions of the module change the disk in few ways, and the proof is laid out by them: nothing (`QuietStep`), one entry put (`PutStep`), a folder removed (`ClearStep`), a home
removed (`ExpelKeeps`), each with what it does to every part of the invariant for the request itself and for the others; the lemmas before say what lies below a path. Assumptions: `FilesAssumption`. TLC had checked `FilesIInv` on
three requests of two users before it was proved.

The fourth part of `WorkspaceProofs` is about `Catchment`, for any jobs, starting points and turns of the polling: `CatchmentTypeCorrect`, `FailuresHaveCauses`, `FinishedIsWhole`. The argument follows one job: `Stage` relates where
it is to its rows (`HasRows`), its layers (`MadeOnce`) and its links (`InProject`), each up to the causes recorded for the job; the other jobs touch none of
that but by a sweep or with the project, which are recorded. Assumptions: `CatchmentAssumption`, one try and one point at least.

The first part of `ToolsProofs` is about the modified network of `StreetNetwork`, for any network, lines and edits: `AnyNetworkIsWhatWasDrawn` and `AnyNetworkIsConnected`. The pieces of a line lie between stops next to each
other (`PiecesAreBetweenStops`), so that they run along the line and nothing else (`PiecesKeepSegments`), every point is on one, and the points where the line is cut are ends of one (`PointIsOnAPiece`); what holds of a line cut once holds
of one cut twice (`LineIsInNewPieces`). For the first theorem, an edge is deleted when an edit names it or it is cut (`DeletedAreNamedOrCut`), and one that is cut and not replaced is named by no edit, as nothing is drawn across a
deleted one (`CutAreNotDeleted`). For the second, `NodeThere` names the node of each point and every end of every edge is shown to be at it: a new piece gets a new node exactly where no drawn line ends on one (`NodeOfNewPiece`, which needs that no
line passes there), and a street that meets a new node is cut there. The proof did not use two conditions the property had, that the network is cut somewhere and nothing crosses a deleted street, and they were dropped from `NetworkIsConnected`.
Assumptions: `StreetsAssumption`, edges have ids and nodes of their own and lines of two points or more, and no node has a number above the greatest; the edits carry lines too (`ScenarioFits`).

The rest of `ToolsProofs` is about the other modules of operators, whose properties compare what a query computes with what it should, for inputs of any size. What the queries
count and sum is defined by `MapThenSumSet`, a fold by recursion over a `CHOOSE`, and no theorem of the library can say what it yields, as that takes an
induction over data. The lemmas on sums go round it: a claim about the subsets of a finite set is the set `Good` of the subsets it holds for, a set that is not all of them has a least
member outside (`LeastExists` from the well-foundedness of proper inclusion, `BySmaller`), and the recursion is a function that is shown to exist and to be
unique (`SummingExists`, `SummingIsUnique`). From there on sums are ordinary: of unions, of images under functions that are one to one, of parts that make
up a whole (`SumOfUnion`, `SumOfImage`, `SumOfParts`). The theorems:

* `AnyListIsExact`: lists of contents, for any finite contents and links. The two outer joins multiply the rows of a content, and grouping by its id undoes it.
* `AnyJoinIsExact`, for any tables, and `AnyFlowIsExact`, for finite ones with unique ids: as the property claims.
* `AnyAggregationByLayerIsExact`, for any finite layers and edits in which no two sources have one row and no two areas one id (`AggregationFits`). A row of a distributed table is what
  lies in one shard of one piece (`CutAt`), so a pair that the join finds is a feature and an area, each cut around a place they share (`CutTogether`); where the property speaks (`MeetInOneRow`), such pairs and features are one to one
  (`MeetingIsOnce`) and the pieces overlap as the wholes do (`CuttingKeepsTheShare`). Groups are parts of the pairs, and their sums make up the total (`LayerGroupsSumUp`).
* `AnyAggregationByGridIsExact`, for any finite layer and edits whose places have cells, points being in one place (`GridFits`): the pieces that share a cell and an id become one row (`GridPairsAre`), and the shares of the pieces
  in the cell, which do not overlap, add up to that of the feature unless one is inserted twice (`PiecesCoverTheSame`).
* `AnyTripIsCounted`, for any finite timetable: a departure has one type, a type one mode, so that the sum of the sums by mode is the number of departures.
* `AnyPlaceGetsItsBestClass`, for any stations and classification: a place loses all areas of worse classes to the best, and nothing takes that one.
* `AnyMoreTripsNeverHurt`, for any timetable with numbers for times, groups and intervals, and stops of which no parent is itself served (the GTFS location types, by which
  `is_stop` is set): a trip more at a served stop takes no stop away, makes the frequency no less and the groups no fewer, and `Ordered` does the rest.
* `AnyCutEdgeFollows`, for any number of starting points in order along the edge (`AlongTheEdge`). The loop of the SQL function is a recursive function, shown to exist (`LoopExists`), and `Laid` is its
  invariant: each place seen has one node of its own (`NodesNamed`), the segments laid stand on those nodes (`NodesStand`), and each point is joined at its own place (`PointsJoined`). Of `Whole` only its sign is used.
* `AnyRequestWithinLimitsIsServed`, for any request and project, and `AnyAdmittedIsWithinLimits`, for projects of finite layers and requests that name layers their schema has (`RequestFits`): where a
  request is not let through without a look at its layers, no street network is among those it names (`NoStreetsElsewhere`), so that what is counted is what is read; the layer a network is
  measured by is among them (`ReferenceIsRead`); and a scenario adds to the features of a layer at most
  those it makes (`OverlaidAreFew`).
* `AnyStationsAreAskedFor`: the limits of one schema lie within those of the other. `AnyBufferReachesItsStep`, for any features and any of the rings being lost: a ring is cut from the buffer of its own
  step and the one before (`RingsAre`).
* `AnyClosestAverageIsExact`, for any finite layers that ask for numbers (`LayersFit`) and any matrix. A row of the opportunity table is a place of an opportunity, and grouped by what tells opportunities apart the fastest way is
  its least time (`WaysOfOpportunities`, `RenamedWays`, `FastestWays`). The first n rows are taken one after the other by a `CHOOSE`, so which ones is not determined where times are equal; that many of the least have the same sum whichever they
  are (`LowestSumTheSame`, between `FirstAreFastest` and `Nearest`).
* `AnyGravityIsBounded`, for any finite layers, matrix and impedance, as long as what is offered are natural numbers (`OffersFit`). Rows that share a name stand for several opportunities (`StandFor`): together they are worth at
  most what those are, at least what each is, and exactly that where there are as many rows (`WorthTogether`, `SumOfNames`).
* `AnyConnectivityIsExact`, for any finite reference layer: a cell in one polygon is joined once with each row of the matrix, as both are in the shard of its centre (`JoinsOfTheOnlyHolder`), and rows of one origin lie apart (`ApartAreCounted`).

`FiguresProofs` is about the figures of layers and those drawn around what is reached. Its first part proves of `Statistics`, for inputs of any size:

* `AnyValuesAreRanked`, for any column, page and order: each value that is there is on exactly one page, with the number of its rows, the more frequent (or the less) before. A list in order is
  modelled as PostgreSQL promises it: `InOrder` is *some* list of the rows, each once, that the order allows, which `ORDER BY` leaves open where rows tie. That there is one (`InOrderIs`) takes the argument on
  subsets of `ToolsProofs`; `PagesAre` says what `LIMIT` and `OFFSET` cut from it.
* `AnyBreaksSplitTheValues`, for any column and number of breaks. Breaks are fractions, and the comparisons are of products (`TimesGrows`, `QuotientIs`): a mean lies between the least and the greatest of what it is of
  (`SumIsBetween`, `MeanIs`), equal steps rise from the one to the other, a quantile is the least value with enough rows up to it, so that fewer than its share are below (`QuantileIs`, `QuantilesAreShared`), and each head
  is a proper part of the one before (`TailsSplit`; the breaks are a recursive function, shown to exist by `BreakingExists`). In the histogram every value is in one bucket (`BucketIs`, `BucketsAreCounted`), and a bucket ends
  at most one past the bound that is shown for it (`BoundIs`, `HistogramsCover`).
* `AnyChartIsOfTheSources`, for finite areas with ids of their own and finite sources with numbers (`ChartFits`): a chart of what an aggregation has stored is the figure taken of the sources
  themselves. A statistic over groups of statistics is the statistic over all for counts, sums, least and greatest (`StatisticOfStatistics`); a mean of means is no mean, and none is claimed.

Its second part is about `Isolines`, on a grid of any size, whatever is reached of it and for any number of steps: `IsolinesAreTyped`, no line gets out of the grid, and `PolygonsEncloseWhatIsReached`, the whole of
`IsolinesEncloseWhatIsReached`: no line is given up (`discarded` stays 0), the polygons of a step hold the pixels reached in its time and no others, and with no more steps than minutes the last step is the time asked for.

* *Lines close.* A line goes from cell to cell over `Crossings`, edges between a pixel that is reached, on the left, and one that is not; as the border counts as out of reach, there is a cell beyond each (`CellsBeyond`). Every crossing leads on
  to one (`OnwardIsCrossing`), no two to the same one, also in a saddle, where the line turns on itself (`OnwardIsOneToOne`), and into a cell that is no saddle there is one way (`OneWayIn`). `Trace` is about the set of the crossings made so far, which
  the program does not keep, so it is quantified: the cells found are those it leaves, every crossing in it was led to by another but for the first of the line that is followed, and where that line goes next it has not been. A line that ran into a
  found cell would have come there by a crossing that is in the set already. The invariant, `DrawingInv`, also says how the set falls into the rings drawn and the line followed (`RingsAreDrawn`, `LineIs`).
* *What a line goes around.* `Winding` counts the crossings to the right of a pixel in its row, down less up. It changes by one where a crossing lies between neighbours in a row, which is its definition (`StepAcross`), and also in a column, since a
  closed line leaves each cell as often as it comes in (`CellIsBalanced`, `StepAlong`). Pixels along a line are gone around alike by any other closed line (`SidesGoOn`), so one loop takes two neighbouring values only, and 0 is one of them, at
  the border: it goes around each pixel once or not at all, always the same way (`LoopsWindOnce`). All crossings together go once around what is reached and not around the rest (`AllWindAroundReached`). This is where the Jordan curve theorem would
  stand; on a grid it is counting.
* *Shells and holes.* Windings add up (`LoopsWindTogether`, by the argument on smaller sets of `ToolsProofs`), and what no line is picked up at, a ring of four saddles, goes around a single lone pixel (`SaddlesTurn`). So a reached pixel has one shell more around it than holes, and one
  that is not as many (`ShellsAndHoles`). A hole that lies in one shell only goes around nothing that its shell does not (`ShellAroundHole`), and among as many holes as shells there is always one that is its shell's, or none is (`ReachedIsCovered`, `OutOfReachIsNot`).
* *What the code computes.* The number `direction` that a line collects is twice the number of level edges below its crossings (`TurnOfStep`), positive just when it goes around to the left (`LeftIsPositive`, `RightIsNot`); `pointinpolygon` counts edges of the ring, and tells
  whether the line goes around a pixel, or around the first point of a hole that shares no crossing with it (`EdgesCross`, `InRing`, `FirstInRing`). That a ring has any length does no harm: what is counted are crossings, which are a set, and the ring lists them once each (`CountedOnce`).
* *The steps.* `ExactInv` keeps what was found at the end of each step (`SortIsExact`); `StepsAre` says which steps there are, the products compared without a step more or less.

Assumptions: `AnswersAssumption`, a surface has a width and a height, and a request a whole number of minutes, not negative (`schemas/catchment_area.py:107`), and of steps, which may be any: with none the code divides by zero, and of fewer than one no number of steps is claimed.

`ServicesProofs` is about the run of all parts. `ListsOfTheRunAreExact`, `ToolResultsOfTheRunAreExact`, `CutEdgesOfTheRunFollow`, `ModifiedNetworkOfTheRunIsDrawn`, `HeatmapsOfTheRunAreExact`, `FiguresOfTheRunAreExact`, `RequestsOfTheRunAreServed`, `DeparturesOfTheRunAreCounted` and `BetterServiceOfTheRunWins` apply them to the run: what `MCServices` chooses is finite, numbers, and as
`AggregationFits`, `GridFits` and `RequestFits` say where the theorems ask for it (`InputsFit`, `NetworkFits`, `HeatmapFits`, `FiguresFit`, inductive as no step but the choice changes `input`). Assumptions: `StationsAssumption` (types have modes that are listed, `NULL` is
not one of them), `MissingAssumption`, `PlacesAssumption` (every place of the run has a cell) `SubdivisionAssumption` (the pieces of a subdivided shape cover it and do not overlap, as PostGIS promises)
and `UnitAssumption` (there are finitely many places, and the unit shares are counted in is a multiple of the places of each
cell, so that shares are whole numbers: what PostGIS computes with floats is exact here). `LimitsAssumption` is about the numbers of `schemas/toolbox_base.py` and `schemas/catchment_area.py`: every tool has a limit, takes
no more coordinates than points of a layer, and a request for stations no more than the catchment area it asks for; `NotSetAssumption`: a value that is not set is neither yes nor no. `MatrixAssumption`: a matrix is finite, its times are
numbers, and it has one time from a cell to each cell it reaches; `ImpedanceAssumption` is about the impedance the run is given: what is near enough is worth a whole number; `NullAssumption`: NULL is no number.

A behaviour of the run is one of `Scenario`, `Workspace`, `Catchment`, `Isolines` and `Files` at once (`ServicesRunEachPart`: a step of one part leaves the others alone), so that what is proved of each holds of the run; `ServicesAreTyped` is
the run's type invariant from the five of its parts.

Only model-checked: `EventuallySettled`, as liveness is out of the prover's reach; and the violations, which are single behaviours.


## Disagreements without a run

Met while modelling, and kept out of the properties by the condition each states in its comment. They are divergences between what the code does and what its
name, a docstring or an example says; they have no violation run of their own.

* Of the documented examples of requests in `schemas/catchment_area.py`, those by car (line 844) leave out `catchment_area_type`, one for a layer of starting points (785) calls the layer
  `layer_id`, and those for public transport (801) leave out `polygon_difference`: the validators of the same file refuse them. The mode `subway` they name is one no station has.
* A public transport catchment area of a layer with two or more points always fails: its result layer is created once per point, under one id (`crud/crud_catchment_area.py:570`).
* A public transport catchment area as a grid is accepted (`schemas/catchment_area.py:239`) and always fails: nothing writes it (`crud/crud_catchment_area.py:394`).
* An aggregation of polygons by areas counts a polygon of many vertices once for each piece it is subdivided into (`create_distributed_polygon_table.sql:43`).
* Classes of public transport along the network are refused above a tenth of the area limit, in a message that names the whole limit (`crud/crud_oev_gueteklasse.py:336`).
* A buffer with difference loses rings when the step size has no finite binary form (`crud/crud_geoprocessing.py:86`).
* The validator against an area layer beside a grid resolution (`schemas/tool.py:159`) runs on each field before the other is known, so that it never refuses anything.
* `DELETE /user/data-schema` is documented to delete the user and all related contents (`endpoints/v2/user.py:57`) and drops tables only.
* A filter that lets nothing through counts as no filter (`core/tool.py:429`), so that an empty selection is refused where the layer is too large.
* Drawn lines of a scenario that cuts the network nowhere are lost (`produce_network_modifications.sql:403`).
* The total of a user's list counts a content once for each team and organization it is shared with, and lists it once for each role (`core/content.py:315`).
* The list of a team or of an organization says of each content that it is shared with its owner, where one expects the team (`core/content.py:406`).
* Two publications at once leave two public copies (`crud/crud_project.py:181`).
* `delete_old_files` is called with one hour, which it ignores, beside the comment "older then one hour" (`crud/crud_layer.py:988`); it removes after two hours (`core/layer.py:70`).
* An export whose folder another export of the layer has removed answers 201 with an empty zip (`utils.py:352`), and one whose file name another layer's export used answers with that layer (`crud/crud_layer.py:1010`).

## Plan

1. `Job`, `JobPromise`, `JobProofs` - the lifecycle. Built and proved; open are the read flag and paging.
2. `UserData`, `UserDataProofs` - what the jobs' clean-ups do to each other. Next: liveness, which orphans the cron script eventually removes (a clock per row, a fair script).
3. `ProjectLayers`, `ProjectLayersProofs` - the links and their order. Built and proved.
4. `DatasetUpdate`, `DatasetUpdateProofs` - the swap of two layers. Next: an abstract
   specification in which a link shows old data, then new data, or is lost.
5. `Scenario`, `Workspace`, `Catchment` and their proofs - built. Next: an abstract specification of a scenario, a map from feature to edit, that
   `Scenario` implements before the first stale screen.
6. `Files` (in `WorkspaceProofs`) - uploads and exports on disk. Built and proved.
7. The operators and `Isolines`, `ToolsProofs`, `FiguresProofs` and `ServicesProofs` - built and proved.
8. A composition of `Catchment` with the wrapper of `Job`: kills during the polling.

## Not modelled

* Printing and thumbnails: a browser renders and a store receives a picture.
* Authorization: a call to a database function that is not in this repository.
* Configuration, schemas of single fields, and `schemas/colors.py`, a table of palettes (an eighth of the implementation's lines): data without behaviour.
* `expression_converter.py`: translates text of a language defined elsewhere; and breaks by standard deviation, which need square roots.
* `scripts/delete_temp_tables.py`: labels and drops tables by their age; each has a name of its own.
* Which uploaded files are valid, and what `ogr2ogr` reads and writes; map tiles, the routing services and the travel-time matrices: external.
* Class breaks that keep the zeros: the code sets no condition then, the query lacks its parameter (`crud/crud_layer.py:477`) and there is no answer, so `get_class_breaks` has the other branch only.
* Columns of a project's layers for style, filter and charts, beyond what the tools read of them; search text and paging of lists.

`PROJECT.json` has the status and the reason for each part.
