-------------------------- MODULE WorkspaceProofs ---------------------------
(***************************************************************************)
(* What Workspace, Scenario, Files and Catchment promise holds for any     *)
(* number of requests, tables, versions, scenarios, features, users,       *)
(* layers, file names, jobs, starting points and turns of the polling, and *)
(* for any limit of folders from two.  The parts share nothing; each has   *)
(* its invariant.                                                          *)
(* That of Files says of each request what it finds on disk while nobody   *)
(* disturbed it (HomesStay, FolderIsOwn, InnerIsOwn, ZipIsWhole), that     *)
(* what went wrong did so for a cause (BrokenForACause, GoneForACause),    *)
(* that an upload waits as a whole (UploadFolderOK, UploadWaits,           *)
(* AgedAfter), and who accounts for each folder there is                   *)
(* (FoldersHaveACause).  A step keeps it by what it does on disk: nothing  *)
(* (QuietStep), one entry put (PutStep), a folder removed (ClearStep), a   *)
(* home removed (ExpelKeeps).                                              *)
(* The argument for Catchment follows one job: Stage relates where it is   *)
(* to what it has stored, made and linked, up to the causes that are       *)
(* recorded for it; the others touch none of that but by a sweep or with   *)
(* the project, which are such causes.                                     *)
(***************************************************************************)
EXTENDS Workspace, Scenario, Files, Catchment, FiniteSetTheorems, SequenceTheorems,
        NaturalsInduction, WellFoundedInduction, TLAPS

(* A request at a table has one. *)
AtTable == \A c \in Calls : call[c].pc \in {"create", "index"} => call[c].at <= Len(TableTypes)

Typed == WorkspaceTypeOK /\ AtTable

(* Tables are dropped by those who were asked to. *)
DropsAreAsked == \A c \in Calls : call[c].pc = "drop" => asked

(* As long as counts do not overlap, a counted folder has its place. *)
PlaceIsKept ==
  /\ IsFiniteSet(folders)
  /\ ~uncounted =>
       /\ Cardinality(folders) <= MAX_FOLDER_COUNT
       /\ \A c, d \in Calls : Counted(c) /\ Counted(d) => c = d
       /\ \A c \in Calls : Counted(c) => Cardinality(folders) < MAX_FOLDER_COUNT

LEMMA TypedInit == ASSUME WorkspaceInit PROVE Typed
<1> USE WorkspaceAssumption DEF WorkspaceInit
<1>1. Len(TableTypes) \in Nat
  OBVIOUS
<1>2. call \in [Calls -> CallState]
  BY <1>1 DEF CallState, CallLabels, Public
<1>3. /\ account \in BOOLEAN /\ asked \in BOOLEAN /\ uncounted \in BOOLEAN /\ crossed \in BOOLEAN
      /\ tables \in [Types -> {"none", "bare", "ready"}]
      /\ folders \subseteq Calls \cup {Home} /\ project \in {"none", "bare", "open"}
  OBVIOUS
<1>4. version \in 0..MaxVersion /\ promised \subseteq 0..MaxVersion /\ publics \subseteq Public
  OBVIOUS
<1> QED BY <1>2, <1>3, <1>4 DEF Typed, WorkspaceTypeOK, AtTable

(* What a step of one request leaves of the requests. *)
Changed(c, label, at, v, old) ==
  /\ call'[c].pc = label /\ call'[c].at = at /\ call'[c].version = v /\ call'[c].old = old
  /\ \A d \in Calls : d # c => call'[d] = call[d]
  /\ call' \in [Calls -> CallState]

LEMMA Relabelled ==
  ASSUME Typed, NEW c \in Calls, NEW label \in CallLabels, call' = [call EXCEPT ![c].pc = label]
  PROVE  Changed(c, label, call[c].at, call[c].version, call[c].old)
BY DEF Typed, WorkspaceTypeOK, CallState, Changed

LEMMA NextTable ==
  ASSUME Typed, NEW c \in Calls, NEW label \in CallLabels, Next_table(c, label),
         call[c].at <= Len(TableTypes)
  PROVE  Changed(c, label, call[c].at + 1, call[c].version, call[c].old)
<1>1. call[c].at + 1 \in 1..(Len(TableTypes) + 1)
  BY WorkspaceAssumption DEF Typed, WorkspaceTypeOK, CallState
<1> QED BY <1>1 DEF Typed, WorkspaceTypeOK, CallState, Changed, Next_table

LEMMA Reads ==
  ASSUME Typed, NEW c \in Calls, NEW label \in CallLabels, NEW v \in 0..MaxVersion,
         NEW old \in SUBSET Public,
         call' = [call EXCEPT ![c].pc = label, ![c].version = v, ![c].old = old]
  PROVE  Changed(c, label, call[c].at, v, old)
<1>1. call \in [Calls -> CallState]
  BY DEF Typed, WorkspaceTypeOK
<1>2. /\ call'[c] = [call[c] EXCEPT !.pc = label, !.version = v, !.old = old]
      /\ \A d \in Calls : d # c => call'[d] = call[d]
  BY <1>1
<1>3. call[c] \in CallState
  BY <1>1
<1>4. call'[c] \in CallState
  BY ONLY <1>2, <1>3, label \in CallLabels, v \in 0..MaxVersion, old \in SUBSET Public DEF CallState
<1>5. /\ call'[c].pc = label /\ call'[c].at = call[c].at
      /\ call'[c].version = v /\ call'[c].old = old
  BY ONLY <1>2, <1>3 DEF CallState
<1>6. call' \in [Calls -> CallState]
  BY <1>1, <1>2, <1>4
<1> QED BY <1>2, <1>5, <1>6 DEF Changed

LEMMA Finds ==
  ASSUME Typed, NEW c \in Calls, NEW label \in CallLabels, NEW old \in SUBSET Public,
         call' = [call EXCEPT ![c].pc = label, ![c].old = old]
  PROVE  Changed(c, label, call[c].at, call[c].version, old)
BY DEF Typed, WorkspaceTypeOK, CallState, Changed

Goes(c, label) == Changed(c, label, call[c].at, call[c].version, call[c].old)

GoesOn(c, label) == Changed(c, label, call[c].at + 1, call[c].version, call[c].old)

(* The requests after each action. *)
LEMMA Steps ==
  ASSUME Typed, NEW c \in Calls, NEW from, NEW label \in CallLabels, Step(c, from, label)
  PROVE  call[c].pc = from /\ Goes(c, label)
BY Relabelled DEF Step, Goes

LEMMA Changes ==
  ASSUME Typed, NEW c \in Calls
  PROVE  /\ create_user_base_data(c) =>
          call[c].pc = "idle" /\ Goes(c, "exists")
         /\ TableExists(c) =>
          /\ call[c].pc = "exists" /\ call[c].at <= Len(TableTypes)
          /\ Goes(c, "create") \/ GoesOn(c, "exists")
         /\ CreateTable(c) =>
          call[c].pc = "create" /\ (Goes(c, "index") \/ Goes(c, "failed"))
         /\ IndexTable(c) =>
          call[c].pc = "index" /\ (GoesOn(c, "exists") \/ Goes(c, "failed"))
         /\ TablesDone(c) =>
          call[c].pc = "exists" /\ Goes(c, "home")
         /\ CreateHome(c) =>
          call[c].pc = "home" /\ (Goes(c, "ok") \/ Goes(c, "failed"))
         /\ delete_user(c) =>
          call[c].pc = "idle" /\ Goes(c, "drop")
         /\ DropTable(c) =>
          /\ call[c].pc = "drop" /\ call[c].at <= Len(TableTypes)
          /\ GoesOn(c, "ok") \/ GoesOn(c, "drop")
         /\ create_folder(c) =>
          call[c].pc = "idle" /\ (Goes(c, "failed") \/ Goes(c, "folder"))
         /\ AddFolder(c) =>
          call[c].pc = "folder" /\ (Goes(c, "ok") \/ Goes(c, "failed"))
         /\ update_folder(c) =>
          call[c].pc = "idle" /\ (Goes(c, "failed") \/ Goes(c, "ok"))
         /\ delete_folder(c) =>
          call[c].pc = "idle" /\ Goes(c, "ok")
         /\ create_project(c) =>
          call[c].pc = "idle" /\ Goes(c, "link")
         /\ LinkUserProject(c) =>
          call[c].pc = "link" /\ (Goes(c, "ok") \/ Goes(c, "failed"))
         /\ delete_project(c) =>
          call[c].pc = "idle" /\ Goes(c, "ok")
         /\ publish_project(c) =>
          call[c].pc = "idle" /\ Goes(c, "read")
         /\ ReadProject(c) =>
          /\ call[c].pc = "read"
          /\ \E old \in FirstPublic :
               Changed(c, IF project = "open" THEN "add" ELSE "failed", call[c].at, version, old)
         /\ AddPublic(c) =>
          call[c].pc = "add" /\ (Goes(c, "failed") \/ Goes(c, "replace"))
         /\ ReplacePublic(c) =>
          call[c].pc = "replace" /\ Goes(c, "ok")
         /\ unpublish_project(c) =>
          /\ call[c].pc = "idle"
          /\ \/ Goes(c, "failed")
             \/ \E old \in FirstPublic : Changed(c, "unpublish", call[c].at, call[c].version, old)
         /\ RemovePublic(c) =>
          call[c].pc = "unpublish" /\ Goes(c, "ok")
         /\ Die(c) =>
          Busy(c) /\ Goes(c, IF call[c].pc = "index" THEN "torn" ELSE "failed")
<1> USE Steps, Relabelled DEF CallLabels, Goes
<1>0. /\ version \in 0..MaxVersion /\ FirstPublic \subseteq SUBSET Public
      /\ call[c].at \in 1..(Len(TableTypes) + 1)
  BY DEF Typed, WorkspaceTypeOK, FirstPublic, CallState
<1>create_user_base_data. ASSUME create_user_base_data(c)
  PROVE   call[c].pc = "idle" /\ Goes(c, "exists")
  BY <1>create_user_base_data DEF create_user_base_data
<1>TableExists. ASSUME TableExists(c)
  PROVE   /\ call[c].pc = "exists" /\ call[c].at <= Len(TableTypes)
          /\ Goes(c, "create") \/ GoesOn(c, "exists")
  BY NextTable, <1>TableExists DEF TableExists, GoesOn, AtTable, Typed
<1>CreateTable. ASSUME CreateTable(c)
  PROVE   call[c].pc = "create" /\ (Goes(c, "index") \/ Goes(c, "failed"))
  BY <1>CreateTable DEF CreateTable
<1>IndexTable. ASSUME IndexTable(c)
  PROVE   call[c].pc = "index" /\ (GoesOn(c, "exists") \/ Goes(c, "failed"))
  BY NextTable, <1>IndexTable DEF IndexTable, GoesOn, AtTable, Typed
<1>TablesDone. ASSUME TablesDone(c)
  PROVE   call[c].pc = "exists" /\ Goes(c, "home")
  BY <1>TablesDone DEF TablesDone
<1>CreateHome. ASSUME CreateHome(c)
  PROVE   call[c].pc = "home" /\ (Goes(c, "ok") \/ Goes(c, "failed"))
  BY <1>CreateHome DEF CreateHome
<1>delete_user. ASSUME delete_user(c)
  PROVE   call[c].pc = "idle" /\ Goes(c, "drop")
  BY <1>delete_user DEF delete_user
<1>DropTable. ASSUME DropTable(c)
  PROVE   /\ call[c].pc = "drop" /\ call[c].at <= Len(TableTypes)
          /\ GoesOn(c, "ok") \/ GoesOn(c, "drop")
  BY NextTable, <1>DropTable DEF DropTable, GoesOn, AtTable, Typed
<1>create_folder. ASSUME create_folder(c)
  PROVE   call[c].pc = "idle" /\ (Goes(c, "failed") \/ Goes(c, "folder"))
  BY <1>create_folder DEF create_folder
<1>AddFolder. ASSUME AddFolder(c)
  PROVE   call[c].pc = "folder" /\ (Goes(c, "ok") \/ Goes(c, "failed"))
  BY <1>AddFolder DEF AddFolder
<1>update_folder. ASSUME update_folder(c)
  PROVE   call[c].pc = "idle" /\ (Goes(c, "failed") \/ Goes(c, "ok"))
  BY <1>update_folder DEF update_folder
<1>delete_folder. ASSUME delete_folder(c)
  PROVE   call[c].pc = "idle" /\ Goes(c, "ok")
  BY <1>delete_folder DEF delete_folder
<1>create_project. ASSUME create_project(c)
  PROVE   call[c].pc = "idle" /\ Goes(c, "link")
  BY <1>create_project DEF create_project
<1>LinkUserProject. ASSUME LinkUserProject(c)
  PROVE   call[c].pc = "link" /\ (Goes(c, "ok") \/ Goes(c, "failed"))
  BY <1>LinkUserProject DEF LinkUserProject
<1>delete_project. ASSUME delete_project(c)
  PROVE   call[c].pc = "idle" /\ Goes(c, "ok")
  BY <1>delete_project DEF delete_project
<1>publish_project. ASSUME publish_project(c)
  PROVE   call[c].pc = "idle" /\ Goes(c, "read")
  BY <1>publish_project DEF publish_project
<1>ReadProject. ASSUME ReadProject(c)
  PROVE   /\ call[c].pc = "read"
          /\ \E old \in FirstPublic :
               Changed(c, IF project = "open" THEN "add" ELSE "failed", call[c].at, version, old)
  BY <1>0, Reads, <1>ReadProject DEF ReadProject
<1>AddPublic. ASSUME AddPublic(c)
  PROVE   call[c].pc = "add" /\ (Goes(c, "failed") \/ Goes(c, "replace"))
  BY <1>AddPublic DEF AddPublic
<1>ReplacePublic. ASSUME ReplacePublic(c)
  PROVE   call[c].pc = "replace" /\ Goes(c, "ok")
  BY <1>ReplacePublic DEF ReplacePublic
<1>unpublish_project. ASSUME unpublish_project(c)
  PROVE   /\ call[c].pc = "idle"
          /\ \/ Goes(c, "failed")
             \/ \E old \in FirstPublic : Changed(c, "unpublish", call[c].at, call[c].version, old)
  BY <1>0, Finds, <1>unpublish_project DEF unpublish_project
<1>RemovePublic. ASSUME RemovePublic(c)
  PROVE   call[c].pc = "unpublish" /\ Goes(c, "ok")
  BY <1>RemovePublic DEF RemovePublic
<1>Die. ASSUME Die(c)
  PROVE   Busy(c) /\ Goes(c, IF call[c].pc = "index" THEN "torn" ELSE "failed")
  <2>1. call' = [call EXCEPT ![c].pc = IF call[c].pc = "index" THEN "torn" ELSE "failed"]
    BY <1>Die DEF Die, Typed, WorkspaceTypeOK, CallState
  <2> QED BY <2>1, <1>Die DEF Die, Busy
<1> QED
  BY <1>create_user_base_data, <1>TableExists, <1>CreateTable, <1>IndexTable,
     <1>TablesDone, <1>CreateHome, <1>delete_user, <1>DropTable, <1>create_folder,
     <1>AddFolder, <1>update_folder, <1>delete_folder, <1>create_project,
     <1>LinkUserProject, <1>delete_project, <1>publish_project, <1>ReadProject,
     <1>AddPublic, <1>ReplacePublic, <1>unpublish_project, <1>RemovePublic, <1>Die

LEMMA TableIsTyped ==
  ASSUME Typed, NEW c \in Calls, call[c].at <= Len(TableTypes) PROVE Table(c) \in Types
BY WorkspaceAssumption DEF Typed, WorkspaceTypeOK, CallState, Types, Table

LEMMA CallIsTyped ==
  ASSUME Typed, NEW c \in Calls
  PROVE  call[c].old \subseteq Public /\ call[c].version \in 0..MaxVersion
BY DEF Typed, WorkspaceTypeOK, CallState

LEMMA TypedNext ==
  ASSUME Typed, [WorkspaceNext]_workspaceVars
  PROVE  Typed'
<1> USE WorkspaceAssumption DEF Typed, WorkspaceTypeOK, AtTable
<1>CreateAccount. CASE CreateAccount
  BY <1>CreateAccount DEF CreateAccount, userVars, folderVars, projectVars, Changed, Goes, GoesOn, Public, Types, Table, FirstPublic, Step
<1>DeleteAccount. CASE DeleteAccount
  BY <1>DeleteAccount DEF DeleteAccount, userVars, folderVars, projectVars, Changed, Goes, GoesOn, Public, Types, Table, FirstPublic, Step
<1>update_project. CASE update_project
  BY <1>update_project DEF update_project, userVars, folderVars, projectVars, Changed, Goes, GoesOn, Public, Types, Table, FirstPublic, Step
<1>create_user_base_data. ASSUME NEW c \in Calls, create_user_base_data(c) PROVE Typed'
  BY Changes, <1>create_user_base_data DEF create_user_base_data, userVars, folderVars, projectVars, Changed, Goes, GoesOn, Public, Types, Table, FirstPublic, Step
<1>TableExists. ASSUME NEW c \in Calls, TableExists(c) PROVE Typed'
  BY Changes, <1>TableExists DEF TableExists, userVars, folderVars, projectVars, Changed, Goes, GoesOn, Public, Types, Table, FirstPublic, Step
<1>CreateTable. ASSUME NEW c \in Calls, CreateTable(c) PROVE Typed'
  BY Changes, <1>CreateTable DEF CreateTable, userVars, folderVars, projectVars, Changed, Goes, GoesOn, Public, Types, Table, FirstPublic, Step
<1>IndexTable. ASSUME NEW c \in Calls, IndexTable(c) PROVE Typed'
  BY Changes, <1>IndexTable DEF IndexTable, userVars, folderVars, projectVars, Changed, Goes, GoesOn, Public, Types, Table, FirstPublic, Step
<1>TablesDone. ASSUME NEW c \in Calls, TablesDone(c) PROVE Typed'
  BY Changes, <1>TablesDone DEF TablesDone, userVars, folderVars, projectVars, Changed, Goes, GoesOn, Public, Types, Table, FirstPublic, Step
<1>CreateHome. ASSUME NEW c \in Calls, CreateHome(c) PROVE Typed'
  BY Changes, <1>CreateHome DEF CreateHome, userVars, folderVars, projectVars, Changed, Goes, GoesOn, Public, Types, Table, FirstPublic, Step
<1>delete_user. ASSUME NEW c \in Calls, delete_user(c) PROVE Typed'
  BY Changes, <1>delete_user DEF delete_user, userVars, folderVars, projectVars, Changed, Goes, GoesOn, Public, Types, Table, FirstPublic, Step
<1>DropTable. ASSUME NEW c \in Calls, DropTable(c) PROVE Typed'
  BY Changes, <1>DropTable DEF DropTable, userVars, folderVars, projectVars, Changed, Goes, GoesOn, Public, Types, Table, FirstPublic, Step
<1>create_folder. ASSUME NEW c \in Calls, create_folder(c) PROVE Typed'
  BY Changes, <1>create_folder DEF create_folder, userVars, folderVars, projectVars, Changed, Goes, GoesOn, Public, Types, Table, FirstPublic, Step
<1>AddFolder. ASSUME NEW c \in Calls, AddFolder(c) PROVE Typed'
  <2>1. /\ call' \in [Calls -> CallState]
        /\ call'[c].pc \in {"ok", "failed"} /\ \A d \in Calls : d # c => call'[d] = call[d]
    BY Changes, <1>AddFolder DEF Changed, Goes
  <2>2. /\ folders' \subseteq Calls \cup {Home}
        /\ UNCHANGED <<uncounted, userVars, projectVars>>
    BY <1>AddFolder DEF AddFolder
  <2>3. AtTable'
    BY <2>1
  <2> QED BY <2>1, <2>2, <2>3 DEF userVars, projectVars
<1>update_folder. ASSUME NEW c \in Calls, update_folder(c) PROVE Typed'
  <2>1. /\ call' \in [Calls -> CallState]
        /\ call'[c].pc \in {"ok", "failed"} /\ \A d \in Calls : d # c => call'[d] = call[d]
    BY Changes, <1>update_folder DEF Changed, Goes
  <2>2. /\ folders' \subseteq Calls \cup {Home}
        /\ UNCHANGED <<uncounted, userVars, projectVars>>
    BY <1>update_folder DEF update_folder
  <2>3. AtTable'
    BY <2>1
  <2> QED BY <2>1, <2>2, <2>3 DEF userVars, projectVars
<1>delete_folder. ASSUME NEW c \in Calls, delete_folder(c) PROVE Typed'
  BY Changes, <1>delete_folder DEF delete_folder, userVars, folderVars, projectVars, Changed, Goes, GoesOn, Public, Types, Table, FirstPublic, Step
<1>create_project. ASSUME NEW c \in Calls, create_project(c) PROVE Typed'
  BY Changes, <1>create_project DEF create_project, userVars, folderVars, projectVars, Changed, Goes, GoesOn, Public, Types, Table, FirstPublic, Step
<1>LinkUserProject. ASSUME NEW c \in Calls, LinkUserProject(c) PROVE Typed'
  BY Changes, <1>LinkUserProject DEF LinkUserProject, userVars, folderVars, projectVars, Changed, Goes, GoesOn, Public, Types, Table, FirstPublic, Step
<1>delete_project. ASSUME NEW c \in Calls, delete_project(c) PROVE Typed'
  BY Changes, <1>delete_project DEF delete_project, userVars, folderVars, projectVars, Changed, Goes, GoesOn, Public, Types, Table, FirstPublic, Step
<1>publish_project. ASSUME NEW c \in Calls, publish_project(c) PROVE Typed'
  BY Changes, <1>publish_project DEF publish_project, userVars, folderVars, projectVars, Changed, Goes, GoesOn, Public, Types, Table, FirstPublic, Step
<1>ReadProject. ASSUME NEW c \in Calls, ReadProject(c) PROVE Typed'
  BY Changes, <1>ReadProject DEF ReadProject, userVars, folderVars, projectVars, Changed, Goes, GoesOn, Public, Types, Table, FirstPublic, Step
<1>AddPublic. ASSUME NEW c \in Calls, AddPublic(c) PROVE Typed'
  <2>1. call' \in [Calls -> CallState] /\ AtTable'
    BY Changes, <1>AddPublic DEF Changed, Goes
  <2>2. publics' \subseteq Public /\ promised' \subseteq 0..MaxVersion
    <3>1. /\ [by |-> c, version |-> call[c].version] \in Public
          /\ call[c].version \in 0..MaxVersion /\ \A p \in call[c].old : p.version \in 0..MaxVersion
      BY CallIsTyped DEF Public
    <3>2. publics' = publics \/ publics' = publics \cup {[by |-> c, version |-> call[c].version]}
      BY <1>AddPublic DEF AddPublic
    <3>3. promised' = promised \/ promised' = {call[c].version} \cup {p.version : p \in call[c].old}
      BY <1>AddPublic DEF AddPublic
    <3> QED BY <3>1, <3>2, <3>3
  <2> QED BY <2>1, <2>2, <1>AddPublic DEF AddPublic, userVars, folderVars, Types
<1>ReplacePublic. ASSUME NEW c \in Calls, ReplacePublic(c) PROVE Typed'
  <2>1. call' \in [Calls -> CallState] /\ AtTable'
    BY Changes, <1>ReplacePublic DEF Changed, Goes
  <2>2. publics' \subseteq Public /\ promised' \subseteq 0..MaxVersion
    BY CallIsTyped, <1>ReplacePublic DEF ReplacePublic
  <2> QED BY <2>1, <2>2, <1>ReplacePublic DEF ReplacePublic, userVars, folderVars, Types
<1>unpublish_project. ASSUME NEW c \in Calls, unpublish_project(c) PROVE Typed'
  BY Changes, <1>unpublish_project DEF unpublish_project, userVars, folderVars, projectVars, Changed, Goes, GoesOn, Public, Types, Table, FirstPublic, Step
<1>RemovePublic. ASSUME NEW c \in Calls, RemovePublic(c) PROVE Typed'
  BY Changes, <1>RemovePublic DEF RemovePublic, userVars, folderVars, projectVars, Changed, Goes, GoesOn, Public, Types, Table, FirstPublic, Step
<1>Die. ASSUME NEW c \in Calls, Die(c) PROVE Typed'
  <2>1. \A d \in Calls : d # c => call'[d] = call[d]
    BY Changes, <1>Die DEF Changed, Goes
  <2>2. call' \in [Calls -> CallState] /\ call'[c].pc \in {"torn", "failed"}
    BY Changes, <1>Die DEF Changed, Goes
  <2>3. AtTable'
    BY <2>1, <2>2
  <2> QED BY <2>2, <2>3, <1>Die DEF Die, userVars, folderVars, projectVars, Types
<1>stutter. CASE UNCHANGED workspaceVars
  BY <1>stutter DEF workspaceVars, userVars, folderVars, projectVars, Changed, Goes, GoesOn, Public, Types, Table, FirstPublic, Step
<1> QED
  BY <1>CreateAccount, <1>DeleteAccount, <1>update_project, <1>create_user_base_data,
     <1>TableExists, <1>CreateTable, <1>IndexTable, <1>TablesDone, <1>CreateHome,
     <1>delete_user, <1>DropTable, <1>create_folder, <1>AddFolder, <1>update_folder,
     <1>delete_folder, <1>create_project, <1>LinkUserProject, <1>delete_project,
     <1>publish_project, <1>ReadProject, <1>AddPublic, <1>ReplacePublic,
     <1>unpublish_project, <1>RemovePublic, <1>Die, <1>stutter DEF WorkspaceNext

(* A table without its trigger and indices waits for who made it. *)
LeftBare(t) == \E c \in Calls : call[c].pc \in {"index", "torn"} /\ Table(c) = t

BareIsHeld == \A t \in Types : tables[t] = "bare" => LeftBare(t)

TablesThere == account /\ ~asked => \A t \in Types : tables[t] # "none"

Tabled == Typed /\ DropsAreAsked /\ BareIsHeld /\ TablesThere

(* A step that leaves who is at a table there disturbs no table. *)
LEMMA HeldStays ==
  ASSUME Tabled, NEW c \in Calls, call[c].pc # "torn",
         \A d \in Calls : d # c => call'[d] = call[d],
         call[c].pc = "index" => call'[c].pc \in {"index", "torn"} /\ call'[c].at = call[c].at,
         call'[c].pc = "drop" => call[c].pc = "drop" \/ asked',
         asked => asked', account' = account, tables' = tables
  PROVE  DropsAreAsked' /\ BareIsHeld' /\ TablesThere'
<1>1. DropsAreAsked'
  BY DEF Tabled, DropsAreAsked
<1>2. TablesThere'
  BY DEF Tabled, TablesThere
<1>3. ASSUME NEW t \in Types, tables'[t] = "bare" PROVE LeftBare(t)'
  <2>1. PICK d \in Calls : call[d].pc \in {"index", "torn"} /\ Table(d) = t
    BY <1>3 DEF Tabled, BareIsHeld, LeftBare
  <2>2. call'[d].pc \in {"index", "torn"} /\ call'[d].at = call[d].at
    BY <2>1
  <2> QED BY <2>1, <2>2 DEF LeftBare, Table
<1> QED BY <1>1, <1>2, <1>3 DEF BareIsHeld

LEMMA TablesNext ==
  ASSUME Tabled, Typed', [WorkspaceNext]_workspaceVars
  PROVE  DropsAreAsked' /\ BareIsHeld' /\ TablesThere'
<1>CreateAccount. CASE CreateAccount
  <2>1. DropsAreAsked' /\ TablesThere'
    BY <1>CreateAccount DEF CreateAccount, Tabled, DropsAreAsked, TablesThere, Typed, WorkspaceTypeOK
  <2>2. \A t \in Types : tables'[t] = "bare" => tables[t] = "bare"
    BY <1>CreateAccount DEF CreateAccount
  <2> QED BY <2>1, <2>2, <1>CreateAccount DEF CreateAccount, Tabled, BareIsHeld, LeftBare, Table
<1>DeleteAccount. CASE DeleteAccount
  BY <1>DeleteAccount DEF DeleteAccount, Tabled, DropsAreAsked, BareIsHeld, LeftBare, TablesThere
<1>update_project. CASE update_project
  BY <1>update_project DEF update_project, userVars, Tabled, DropsAreAsked, BareIsHeld, LeftBare, TablesThere, Table
<1>create_user_base_data. ASSUME NEW c \in Calls, create_user_base_data(c) PROVE DropsAreAsked' /\ BareIsHeld' /\ TablesThere'
  BY Changes, HeldStays, <1>create_user_base_data DEF create_user_base_data, userVars, Changed, Goes, GoesOn, Tabled
<1>TableExists. ASSUME NEW c \in Calls, TableExists(c) PROVE DropsAreAsked' /\ BareIsHeld' /\ TablesThere'
  BY Changes, HeldStays, <1>TableExists DEF TableExists, userVars, Changed, Goes, GoesOn, Tabled
<1>CreateTable. ASSUME NEW c \in Calls, CreateTable(c) PROVE DropsAreAsked' /\ BareIsHeld' /\ TablesThere'
  <2>1. Table(c) \in Types /\ call[c].pc = "create"
    BY TableIsTyped, <1>CreateTable DEF CreateTable, Tabled, Typed, AtTable
  <2>2. CASE tables[Table(c)] = "none"
    <3>1. /\ tables' = [tables EXCEPT ![Table(c)] = "bare"]
          /\ account' = account /\ asked' = asked
      BY <2>2, <1>CreateTable DEF CreateTable
    <3>2. /\ call'[c].pc = "index" /\ call'[c].at = call[c].at
          /\ \A d \in Calls : d # c => call'[d] = call[d]
      BY <2>2, <1>CreateTable DEF CreateTable, Tabled, Typed, WorkspaceTypeOK, CallState
    <3>3. DropsAreAsked'
      BY <3>1, <3>2 DEF Tabled, DropsAreAsked
    <3>4. TablesThere'
      BY <3>1, <2>1 DEF Tabled, TablesThere, Typed, WorkspaceTypeOK
    <3>5. ASSUME NEW t \in Types, tables'[t] = "bare" PROVE LeftBare(t)'
      <4>1. CASE t = Table(c)
        BY <4>1, <3>2 DEF LeftBare, Table
      <4>2. CASE t # Table(c)
        <5>1. tables[t] = "bare"
          BY <4>2, <3>1, <3>5 DEF Tabled, Typed, WorkspaceTypeOK
        <5>2. PICK d \in Calls : call[d].pc \in {"index", "torn"} /\ Table(d) = t
          BY <5>1 DEF Tabled, BareIsHeld, LeftBare
        <5> QED BY <5>2, <3>2, <2>1 DEF LeftBare, Table
      <4> QED BY <4>1, <4>2
    <3> QED BY <3>3, <3>4, <3>5 DEF BareIsHeld
  <2>3. CASE tables[Table(c)] # "none"
    BY <2>1, <2>3, Changes, HeldStays, <1>CreateTable, Steps
       DEF CreateTable, Changed, Goes, Tabled, Typed, WorkspaceTypeOK, CallState
  <2> QED BY <2>2, <2>3
<1>IndexTable. ASSUME NEW c \in Calls, IndexTable(c) PROVE DropsAreAsked' /\ BareIsHeld' /\ TablesThere'
  <2>1. /\ Table(c) \in Types /\ call[c].pc = "index"
        /\ \A d \in Calls : d # c => call'[d] = call[d]
        /\ call'[c].pc \in {"exists", "failed"} /\ account' = account /\ asked' = asked
    BY TableIsTyped, Changes, <1>IndexTable DEF IndexTable, Tabled, Typed, AtTable, Changed, Goes, GoesOn
  <2>2. \/ tables' = tables /\ tables[Table(c)] = "none"
        \/ tables' = [tables EXCEPT ![Table(c)] = "ready"]
    BY <1>IndexTable DEF IndexTable
  <2>3. DropsAreAsked'
    BY <2>1 DEF Tabled, DropsAreAsked
  <2>4. TablesThere'
    BY <2>1, <2>2 DEF Tabled, TablesThere, Typed, WorkspaceTypeOK
  <2>5. ASSUME NEW t \in Types, tables'[t] = "bare" PROVE LeftBare(t)'
    <3>1. t # Table(c) /\ tables[t] = "bare"
      BY <2>1, <2>2, <2>5 DEF Tabled, Typed, WorkspaceTypeOK
    <3>2. PICK d \in Calls : call[d].pc \in {"index", "torn"} /\ Table(d) = t
      BY <3>1 DEF Tabled, BareIsHeld, LeftBare
    <3> QED BY <3>1, <3>2, <2>1 DEF LeftBare, Table
  <2> QED BY <2>3, <2>4, <2>5 DEF BareIsHeld
<1>TablesDone. ASSUME NEW c \in Calls, TablesDone(c) PROVE DropsAreAsked' /\ BareIsHeld' /\ TablesThere'
  BY Changes, HeldStays, <1>TablesDone DEF TablesDone, userVars, Changed, Goes, GoesOn, Tabled
<1>CreateHome. ASSUME NEW c \in Calls, CreateHome(c) PROVE DropsAreAsked' /\ BareIsHeld' /\ TablesThere'
  BY Changes, HeldStays, <1>CreateHome DEF CreateHome, userVars, Changed, Goes, GoesOn, Tabled
<1>delete_user. ASSUME NEW c \in Calls, delete_user(c) PROVE DropsAreAsked' /\ BareIsHeld' /\ TablesThere'
  BY Changes, HeldStays, <1>delete_user DEF delete_user, userVars, Changed, Goes, GoesOn, Tabled
<1>DropTable. ASSUME NEW c \in Calls, DropTable(c) PROVE DropsAreAsked' /\ BareIsHeld' /\ TablesThere'
  <2>1. /\ call[c].pc = "drop" /\ asked /\ asked' /\ Table(c) \in Types
        /\ tables' = [tables EXCEPT ![Table(c)] = "none"]
        /\ \A d \in Calls : d # c => call'[d] = call[d]
    BY TableIsTyped, Changes, <1>DropTable DEF DropTable, Tabled, DropsAreAsked, Changed, GoesOn
  <2>2. DropsAreAsked' /\ TablesThere'
    BY <2>1 DEF DropsAreAsked, TablesThere
  <2>3. ASSUME NEW t \in Types, tables'[t] = "bare" PROVE LeftBare(t)'
    <3>1. tables[t] = "bare"
      BY <2>1, <2>3 DEF Tabled, Typed, WorkspaceTypeOK
    <3>2. PICK d \in Calls : call[d].pc \in {"index", "torn"} /\ Table(d) = t
      BY <3>1 DEF Tabled, BareIsHeld, LeftBare
    <3> QED BY <3>2, <2>1 DEF LeftBare, Table
  <2> QED BY <2>2, <2>3 DEF BareIsHeld
<1>create_folder. ASSUME NEW c \in Calls, create_folder(c) PROVE DropsAreAsked' /\ BareIsHeld' /\ TablesThere'
  BY Changes, HeldStays, <1>create_folder DEF create_folder, userVars, Changed, Goes, GoesOn, Tabled
<1>AddFolder. ASSUME NEW c \in Calls, AddFolder(c) PROVE DropsAreAsked' /\ BareIsHeld' /\ TablesThere'
  BY Changes, HeldStays, <1>AddFolder DEF AddFolder, userVars, Changed, Goes, GoesOn, Tabled
<1>update_folder. ASSUME NEW c \in Calls, update_folder(c) PROVE DropsAreAsked' /\ BareIsHeld' /\ TablesThere'
  BY Changes, HeldStays, <1>update_folder DEF update_folder, userVars, Changed, Goes, GoesOn, Tabled
<1>delete_folder. ASSUME NEW c \in Calls, delete_folder(c) PROVE DropsAreAsked' /\ BareIsHeld' /\ TablesThere'
  BY Changes, HeldStays, <1>delete_folder DEF delete_folder, userVars, Changed, Goes, GoesOn, Tabled
<1>create_project. ASSUME NEW c \in Calls, create_project(c) PROVE DropsAreAsked' /\ BareIsHeld' /\ TablesThere'
  BY Changes, HeldStays, <1>create_project DEF create_project, userVars, Changed, Goes, GoesOn, Tabled
<1>LinkUserProject. ASSUME NEW c \in Calls, LinkUserProject(c) PROVE DropsAreAsked' /\ BareIsHeld' /\ TablesThere'
  BY Changes, HeldStays, <1>LinkUserProject DEF LinkUserProject, userVars, Changed, Goes, GoesOn, Tabled
<1>delete_project. ASSUME NEW c \in Calls, delete_project(c) PROVE DropsAreAsked' /\ BareIsHeld' /\ TablesThere'
  BY Changes, HeldStays, <1>delete_project DEF delete_project, userVars, Changed, Goes, GoesOn, Tabled
<1>publish_project. ASSUME NEW c \in Calls, publish_project(c) PROVE DropsAreAsked' /\ BareIsHeld' /\ TablesThere'
  BY Changes, HeldStays, <1>publish_project DEF publish_project, userVars, Changed, Goes, GoesOn, Tabled
<1>ReadProject. ASSUME NEW c \in Calls, ReadProject(c) PROVE DropsAreAsked' /\ BareIsHeld' /\ TablesThere'
  <2>1. call[c].pc = "read" /\ call'[c].pc # "drop" /\ \A d \in Calls : d # c => call'[d] = call[d]
    BY Changes, <1>ReadProject DEF Changed, Tabled
  <2> QED BY <2>1, HeldStays, <1>ReadProject DEF ReadProject, userVars
<1>AddPublic. ASSUME NEW c \in Calls, AddPublic(c) PROVE DropsAreAsked' /\ BareIsHeld' /\ TablesThere'
  BY Changes, HeldStays, <1>AddPublic DEF AddPublic, userVars, Changed, Goes, GoesOn, Tabled
<1>ReplacePublic. ASSUME NEW c \in Calls, ReplacePublic(c) PROVE DropsAreAsked' /\ BareIsHeld' /\ TablesThere'
  BY Changes, HeldStays, <1>ReplacePublic DEF ReplacePublic, userVars, Changed, Goes, GoesOn, Tabled
<1>unpublish_project. ASSUME NEW c \in Calls, unpublish_project(c) PROVE DropsAreAsked' /\ BareIsHeld' /\ TablesThere'
  BY Changes, HeldStays, <1>unpublish_project DEF unpublish_project, userVars, Changed, Goes, GoesOn, Tabled
<1>RemovePublic. ASSUME NEW c \in Calls, RemovePublic(c) PROVE DropsAreAsked' /\ BareIsHeld' /\ TablesThere'
  BY Changes, HeldStays, <1>RemovePublic DEF RemovePublic, userVars, Changed, Goes, GoesOn, Tabled
<1>Die. ASSUME NEW c \in Calls, Die(c) PROVE DropsAreAsked' /\ BareIsHeld' /\ TablesThere'
  BY Changes, HeldStays, <1>Die DEF Die, Busy, userVars, Changed, Goes, Tabled
<1>stutter. CASE UNCHANGED workspaceVars
  BY <1>stutter DEF workspaceVars, Tabled, DropsAreAsked, BareIsHeld, LeftBare, TablesThere, Table
<1> QED
  BY <1>CreateAccount, <1>DeleteAccount, <1>update_project, <1>create_user_base_data,
     <1>TableExists, <1>CreateTable, <1>IndexTable, <1>TablesDone, <1>CreateHome,
     <1>delete_user, <1>DropTable, <1>create_folder, <1>AddFolder, <1>update_folder,
     <1>delete_folder, <1>create_project, <1>LinkUserProject, <1>delete_project,
     <1>publish_project, <1>ReadProject, <1>AddPublic, <1>ReplacePublic,
     <1>unpublish_project, <1>RemovePublic, <1>Die, <1>stutter DEF WorkspaceNext

Foldered == Typed /\ PlaceIsKept

LEMMA FoldersNext ==
  ASSUME Foldered, Typed', [WorkspaceNext]_workspaceVars
  PROVE  PlaceIsKept'
<1> USE WorkspaceAssumption DEF Foldered, PlaceIsKept, Counted
<1>CreateAccount. CASE CreateAccount
  <2>1. IsFiniteSet({Home}) /\ Cardinality({Home}) = 1
    BY FS_Singleton
  <2>2. IsFiniteSet(folders') /\ Cardinality(folders') = 1 /\ UNCHANGED <<uncounted, call>>
    BY <2>1, <1>CreateAccount DEF CreateAccount
  <2> QED BY <2>2
<1>DeleteAccount. CASE DeleteAccount
  BY FS_EmptySet, <1>DeleteAccount DEF DeleteAccount
<1>update_project. CASE update_project
  BY <1>update_project DEF update_project, userVars, folderVars, projectVars, Changed, Goes, GoesOn, Busy
<1>create_user_base_data. ASSUME NEW c \in Calls, create_user_base_data(c) PROVE PlaceIsKept'
  BY Changes, <1>create_user_base_data DEF create_user_base_data, userVars, folderVars, projectVars, Changed, Goes, GoesOn, Busy
<1>TableExists. ASSUME NEW c \in Calls, TableExists(c) PROVE PlaceIsKept'
  BY Changes, <1>TableExists DEF TableExists, userVars, folderVars, projectVars, Changed, Goes, GoesOn, Busy
<1>CreateTable. ASSUME NEW c \in Calls, CreateTable(c) PROVE PlaceIsKept'
  BY Changes, <1>CreateTable DEF CreateTable, userVars, folderVars, projectVars, Changed, Goes, GoesOn, Busy
<1>IndexTable. ASSUME NEW c \in Calls, IndexTable(c) PROVE PlaceIsKept'
  BY Changes, <1>IndexTable DEF IndexTable, userVars, folderVars, projectVars, Changed, Goes, GoesOn, Busy
<1>TablesDone. ASSUME NEW c \in Calls, TablesDone(c) PROVE PlaceIsKept'
  BY Changes, <1>TablesDone DEF TablesDone, userVars, folderVars, projectVars, Changed, Goes, GoesOn, Busy
<1>CreateHome. ASSUME NEW c \in Calls, CreateHome(c) PROVE PlaceIsKept'
  <2>1. IsFiniteSet(folders \cup {Home})
    BY FS_AddElement
  <2>2. call'[c].pc # "folder" /\ \A d \in Calls : d # c => call'[d] = call[d]
    BY Changes, <1>CreateHome DEF Changed, Goes
  <2> QED BY <2>1, <2>2, <1>CreateHome DEF CreateHome, folderVars
<1>delete_user. ASSUME NEW c \in Calls, delete_user(c) PROVE PlaceIsKept'
  BY Changes, <1>delete_user DEF delete_user, userVars, folderVars, projectVars, Changed, Goes, GoesOn, Busy
<1>DropTable. ASSUME NEW c \in Calls, DropTable(c) PROVE PlaceIsKept'
  <2>1. call'[c].pc # "folder" /\ \A d \in Calls : d # c => call'[d] = call[d]
    BY Changes, <1>DropTable DEF Changed, Goes, GoesOn
  <2> QED BY <2>1, <1>DropTable DEF DropTable, folderVars
<1>create_folder. ASSUME NEW c \in Calls, create_folder(c) PROVE PlaceIsKept'
  <2>1. /\ call'[c].pc = "folder" => Cardinality(folders) < MAX_FOLDER_COUNT
        /\ \A d \in Calls : d # c => call'[d] = call[d]
    <3>1. Cardinality(folders) \in Nat
      BY FS_CardinalityType
    <3>2. /\ call' = [call EXCEPT ![c].pc = IF Cardinality(folders) >= MAX_FOLDER_COUNT
                                            THEN "failed" ELSE "folder"]
          /\ call \in [Calls -> CallState]
      BY <1>create_folder DEF create_folder, Step, Typed, WorkspaceTypeOK
    <3>3. \A d \in Calls : d # c => call'[d] = call[d]
      BY <3>2
    <3>4. call'[c].pc = IF Cardinality(folders) >= MAX_FOLDER_COUNT THEN "failed" ELSE "folder"
      BY <3>2 DEF CallState
    <3> QED BY <3>1, <3>3, <3>4, WorkspaceAssumption
  <2> QED BY <2>1, <1>create_folder DEF create_folder
<1>AddFolder. ASSUME NEW c \in Calls, AddFolder(c) PROVE PlaceIsKept'
  <2>1. /\ IsFiniteSet(folders \cup {c}) /\ Cardinality(folders) \in Nat
        /\ Cardinality(folders \cup {c}) <= Cardinality(folders) + 1
    <3>1. IsFiniteSet(folders)
      OBVIOUS
    <3>2. Cardinality(folders) \in Nat
      BY ONLY <3>1, FS_CardinalityType
    <3>3. /\ IsFiniteSet(folders \cup {c})
          /\ Cardinality(folders \cup {c}) = IF c \in folders THEN Cardinality(folders) ELSE Cardinality(folders) + 1
      BY ONLY <3>1, FS_AddElement
    <3> QED BY ONLY <3>2, <3>3
  <2>2. /\ call[c].pc = "folder" /\ call'[c].pc \in {"ok", "failed"}
        /\ \A d \in Calls : d # c => call'[d] = call[d]
    BY Changes, <1>AddFolder DEF Changed, Goes
  <2>3. /\ IsFiniteSet(folders') /\ uncounted' = uncounted
        /\ Cardinality(folders') <= Cardinality(folders) + 1 /\ Cardinality(folders') \in Nat
    <3>1. CASE folders' = folders
      BY <2>1, <3>1, <1>AddFolder DEF AddFolder
    <3>2. CASE folders' = folders \cup {c}
      BY <2>1, <3>2, FS_CardinalityType, <1>AddFolder DEF AddFolder
    <3> QED BY <3>1, <3>2, <1>AddFolder DEF AddFolder
  <2>4. ~uncounted => \A d \in Calls : ~Counted(d)'
    BY <2>2
  <2> QED BY <2>1, <2>2, <2>3, <2>4
<1>update_folder. ASSUME NEW c \in Calls, update_folder(c) PROVE PlaceIsKept'
  <2>1. PICK old \in folders : folders' = folders \/ (c \notin folders /\ folders' = (folders \ {old}) \cup {c})
    BY <1>update_folder DEF update_folder
  <2>2. /\ IsFiniteSet(folders \ {old}) /\ Cardinality(folders \ {old}) = Cardinality(folders) - 1
        /\ Cardinality(folders) \in Nat
    BY FS_RemoveElement, FS_CardinalityType
  <2>3. c \notin folders =>
          /\ IsFiniteSet((folders \ {old}) \cup {c})
          /\ Cardinality((folders \ {old}) \cup {c}) = Cardinality(folders)
    <3>1. ASSUME c \notin folders
          PROVE  /\ IsFiniteSet((folders \ {old}) \cup {c})
                 /\ Cardinality((folders \ {old}) \cup {c}) = Cardinality(folders \ {old}) + 1
      BY <2>2, <3>1, FS_AddElement
    <3> QED BY <2>2, <3>1
  <2>4. \A d \in Calls : call'[d].pc = "folder" => call[d].pc = "folder"
    BY Changes, <1>update_folder DEF Changed, Goes
  <2> QED BY <2>1, <2>3, <2>4, <1>update_folder DEF update_folder
<1>delete_folder. ASSUME NEW c \in Calls, delete_folder(c) PROVE PlaceIsKept'
  <2>1. PICK old \in folders : folders' = folders \ {old}
    BY <1>delete_folder DEF delete_folder
  <2>2. /\ IsFiniteSet(folders') /\ Cardinality(folders') = Cardinality(folders) - 1
        /\ Cardinality(folders) \in Nat
    BY <2>1, FS_RemoveElement, FS_CardinalityType
  <2>3. \A d \in Calls : call'[d].pc = "folder" => call[d].pc = "folder"
    BY Changes, <1>delete_folder DEF Changed, Goes
  <2> QED BY <2>2, <2>3, WorkspaceAssumption, <1>delete_folder DEF delete_folder
<1>create_project. ASSUME NEW c \in Calls, create_project(c) PROVE PlaceIsKept'
  BY Changes, <1>create_project DEF create_project, userVars, folderVars, projectVars, Changed, Goes, GoesOn, Busy
<1>LinkUserProject. ASSUME NEW c \in Calls, LinkUserProject(c) PROVE PlaceIsKept'
  BY Changes, <1>LinkUserProject DEF LinkUserProject, userVars, folderVars, projectVars, Changed, Goes, GoesOn, Busy
<1>delete_project. ASSUME NEW c \in Calls, delete_project(c) PROVE PlaceIsKept'
  BY Changes, <1>delete_project DEF delete_project, userVars, folderVars, projectVars, Changed, Goes, GoesOn, Busy
<1>publish_project. ASSUME NEW c \in Calls, publish_project(c) PROVE PlaceIsKept'
  BY Changes, <1>publish_project DEF publish_project, userVars, folderVars, projectVars, Changed, Goes, GoesOn, Busy
<1>ReadProject. ASSUME NEW c \in Calls, ReadProject(c) PROVE PlaceIsKept'
  <2>1. call'[c].pc # "folder" /\ \A d \in Calls : d # c => call'[d] = call[d]
    BY Changes, <1>ReadProject DEF Changed
  <2> QED BY <2>1, <1>ReadProject DEF ReadProject, folderVars
<1>AddPublic. ASSUME NEW c \in Calls, AddPublic(c) PROVE PlaceIsKept'
  BY Changes, <1>AddPublic DEF AddPublic, userVars, folderVars, projectVars, Changed, Goes, GoesOn, Busy
<1>ReplacePublic. ASSUME NEW c \in Calls, ReplacePublic(c) PROVE PlaceIsKept'
  BY Changes, <1>ReplacePublic DEF ReplacePublic, userVars, folderVars, projectVars, Changed, Goes, GoesOn, Busy
<1>unpublish_project. ASSUME NEW c \in Calls, unpublish_project(c) PROVE PlaceIsKept'
  <2>1. call'[c].pc # "folder" /\ \A d \in Calls : d # c => call'[d] = call[d]
    BY Changes, <1>unpublish_project DEF Changed, Goes, GoesOn
  <2> QED BY <2>1, <1>unpublish_project DEF unpublish_project, folderVars
<1>RemovePublic. ASSUME NEW c \in Calls, RemovePublic(c) PROVE PlaceIsKept'
  BY Changes, <1>RemovePublic DEF RemovePublic, userVars, folderVars, projectVars, Changed, Goes, GoesOn, Busy
<1>Die. ASSUME NEW c \in Calls, Die(c) PROVE PlaceIsKept'
  <2>1. call'[c].pc # "folder" /\ \A d \in Calls : d # c => call'[d] = call[d]
    BY Changes, <1>Die DEF Changed, Goes, GoesOn
  <2> QED BY <2>1, <1>Die DEF Die, folderVars
<1>stutter. CASE UNCHANGED workspaceVars
  BY <1>stutter DEF workspaceVars, userVars, folderVars, projectVars, Changed, Goes, GoesOn, Busy
<1> QED
  BY <1>CreateAccount, <1>DeleteAccount, <1>update_project, <1>create_user_base_data,
     <1>TableExists, <1>CreateTable, <1>IndexTable, <1>TablesDone, <1>CreateHome,
     <1>delete_user, <1>DropTable, <1>create_folder, <1>AddFolder, <1>update_folder,
     <1>delete_folder, <1>create_project, <1>LinkUserProject, <1>delete_project,
     <1>publish_project, <1>ReadProject, <1>AddPublic, <1>ReplacePublic,
     <1>unpublish_project, <1>RemovePublic, <1>Die, <1>stutter DEF WorkspaceNext

-----------------------------------------------------------------------------
(* Publications. *)
Copy(c) == [by |-> c, version |-> call[c].version]

Versions(list) == {p.version : p \in list}

AtMostOneIn(list) == list = {} \/ \E p \in list : list = {p}

Past(c) == call[c].pc \in {"replace", "ok", "failed"}

(* A public row is of a request that has added it. *)
AddersArePast ==
  /\ \A p \in publics : Past(p.by)
  /\ \A c \in Calls : \A p \in call[c].old : Past(p.by) /\ p.by # c

Sole == ~crossed => \A c, d \in Calls : Publishing(c) /\ Publishing(d) => c = d

(* Publications neither crossed nor died after they had seen a row. *)
Clean == ~crossed /\ \A c \in Calls : call[c].pc = "failed" => call[c].old = {}

(* Nobody has still to delete a row. *)
Settled == \A c \in Calls : call[c].pc = "replace" => call[c].old = {}

(* What a publication relies on between its statements. *)
Shape(c) ==
  /\ call[c].pc \in {"add", "unpublish"} => publics \subseteq call[c].old
  /\ call[c].pc = "replace" =>
       publics = {} \/ (Copy(c) \in publics /\ publics \subseteq call[c].old \cup {Copy(c)})

Shown ==
  Clean => /\ \A c \in Calls : Shape(c)
           /\ Settled => Versions(publics) = promised /\ AtMostOneIn(publics)

Published == Typed /\ AddersArePast /\ Sole /\ Shown

publicVars == <<publics, promised, crossed>>

OtherLabels == CallLabels \ {"read", "add", "replace", "unpublish"}

(* A request that is not about publication disturbs none. *)
LEMMA Elsewhere ==
  ASSUME Published, Typed', NEW c \in Calls, ~Publishing(c), ~Past(c), UNCHANGED publicVars,
         \E label \in OtherLabels : Goes(c, label) \/ GoesOn(c, label)
  PROVE  Published'
<1>0. PICK label \in OtherLabels : \E at :
        Changed(c, label, at, call[c].version, call[c].old)
  BY DEF Goes, GoesOn
<1>at. PICK at : Changed(c, label, at, call[c].version, call[c].old)
  BY <1>0
<1> USE <1>at DEF Published, Changed, publicVars, OtherLabels
<1>1. AddersArePast' /\ Sole'
  BY CallIsTyped DEF AddersArePast, Past, Sole, Publishing, Public, Typed, WorkspaceTypeOK
<1>2. ASSUME Clean' PROVE Clean
  BY <1>2 DEF Clean, Past
<1>3. ASSUME NEW d \in Calls, Shape(d) PROVE Shape(d)'
  BY <1>3 DEF Shape, Copy, Publishing
<1>4. Settled' => Settled
  BY DEF Settled, Past
<1> QED BY <1>1, <1>2, <1>3, <1>4 DEF Shown, Versions, AtMostOneIn

(* Neither does one that takes all public copies away. *)
LEMMA Emptied ==
  ASSUME Published, Typed', publics' = {}, promised' = {}, crossed' = crossed,
         \/ call' = call
         \/ \E c \in Calls : /\ ~Publishing(c) /\ ~Past(c)
                             /\ Changed(c, "ok", call[c].at, call[c].version, call[c].old)
  PROVE  Published'
<1> USE DEF Published, Changed
<1>1. AddersArePast' /\ Sole'
  BY CallIsTyped DEF AddersArePast, Past, Sole, Publishing, Public, Typed, WorkspaceTypeOK
<1>2. ASSUME NEW d \in Calls PROVE Shape(d)'
  BY DEF Shape
<1> QED BY <1>1, <1>2 DEF Shown, Versions, AtMostOneIn

LEMMA PublishedNext ==
  ASSUME Published, Typed', [WorkspaceNext]_workspaceVars
  PROVE  Published'
<1> USE DEF Published
<1>CreateAccount. CASE CreateAccount
  BY <1>CreateAccount DEF CreateAccount, projectVars, AddersArePast, Past, Sole, Publishing, Shown, Clean,
     Shape, Copy, Settled, Versions, AtMostOneIn
<1>DeleteAccount. CASE DeleteAccount
  BY Emptied, <1>DeleteAccount DEF DeleteAccount
<1>update_project. CASE update_project
  BY <1>update_project DEF update_project, AddersArePast, Past, Sole, Publishing, Shown, Clean, Shape, Copy,
     Settled, Versions, AtMostOneIn
<1>create_user_base_data. ASSUME NEW c \in Calls, create_user_base_data(c) PROVE Published'
  <2>1. ~Publishing(c) /\ ~Past(c) /\ UNCHANGED publicVars
    BY Changes, <1>create_user_base_data DEF create_user_base_data, Publishing, Past, publicVars, projectVars
  <2>2. \E label \in OtherLabels : Goes(c, label) \/ GoesOn(c, label)
    BY Changes, <1>create_user_base_data DEF OtherLabels, CallLabels
  <2> QED BY <2>1, <2>2, Elsewhere
<1>TableExists. ASSUME NEW c \in Calls, TableExists(c) PROVE Published'
  <2>1. ~Publishing(c) /\ ~Past(c) /\ UNCHANGED publicVars
    BY Changes, <1>TableExists DEF TableExists, Publishing, Past, publicVars, projectVars
  <2>2. \E label \in OtherLabels : Goes(c, label) \/ GoesOn(c, label)
    BY Changes, <1>TableExists DEF OtherLabels, CallLabels
  <2> QED BY <2>1, <2>2, Elsewhere
<1>CreateTable. ASSUME NEW c \in Calls, CreateTable(c) PROVE Published'
  <2>1. ~Publishing(c) /\ ~Past(c) /\ UNCHANGED publicVars
    BY Changes, <1>CreateTable DEF CreateTable, Publishing, Past, publicVars, projectVars
  <2>2. \E label \in OtherLabels : Goes(c, label) \/ GoesOn(c, label)
    BY Changes, <1>CreateTable DEF OtherLabels, CallLabels
  <2> QED BY <2>1, <2>2, Elsewhere
<1>IndexTable. ASSUME NEW c \in Calls, IndexTable(c) PROVE Published'
  <2>1. ~Publishing(c) /\ ~Past(c) /\ UNCHANGED publicVars
    BY Changes, <1>IndexTable DEF IndexTable, Publishing, Past, publicVars, projectVars
  <2>2. \E label \in OtherLabels : Goes(c, label) \/ GoesOn(c, label)
    BY Changes, <1>IndexTable DEF OtherLabels, CallLabels
  <2> QED BY <2>1, <2>2, Elsewhere
<1>TablesDone. ASSUME NEW c \in Calls, TablesDone(c) PROVE Published'
  <2>1. ~Publishing(c) /\ ~Past(c) /\ UNCHANGED publicVars
    BY Changes, <1>TablesDone DEF TablesDone, Publishing, Past, publicVars, projectVars
  <2>2. \E label \in OtherLabels : Goes(c, label) \/ GoesOn(c, label)
    BY Changes, <1>TablesDone DEF OtherLabels, CallLabels
  <2> QED BY <2>1, <2>2, Elsewhere
<1>CreateHome. ASSUME NEW c \in Calls, CreateHome(c) PROVE Published'
  <2>1. ~Publishing(c) /\ ~Past(c) /\ UNCHANGED publicVars
    BY Changes, <1>CreateHome DEF CreateHome, Publishing, Past, publicVars, projectVars
  <2>2. \E label \in OtherLabels : Goes(c, label) \/ GoesOn(c, label)
    BY Changes, <1>CreateHome DEF OtherLabels, CallLabels
  <2> QED BY <2>1, <2>2, Elsewhere
<1>delete_user. ASSUME NEW c \in Calls, delete_user(c) PROVE Published'
  <2>1. ~Publishing(c) /\ ~Past(c) /\ UNCHANGED publicVars
    BY Changes, <1>delete_user DEF delete_user, Publishing, Past, publicVars, projectVars
  <2>2. \E label \in OtherLabels : Goes(c, label) \/ GoesOn(c, label)
    BY Changes, <1>delete_user DEF OtherLabels, CallLabels
  <2> QED BY <2>1, <2>2, Elsewhere
<1>DropTable. ASSUME NEW c \in Calls, DropTable(c) PROVE Published'
  <2>1. ~Publishing(c) /\ ~Past(c) /\ UNCHANGED publicVars
    BY Changes, <1>DropTable DEF DropTable, Publishing, Past, publicVars, projectVars
  <2>2. \E label \in OtherLabels : Goes(c, label) \/ GoesOn(c, label)
    BY Changes, <1>DropTable DEF OtherLabels, CallLabels
  <2> QED BY <2>1, <2>2, Elsewhere
<1>create_folder. ASSUME NEW c \in Calls, create_folder(c) PROVE Published'
  <2>1. ~Publishing(c) /\ ~Past(c) /\ UNCHANGED publicVars
    BY Changes, <1>create_folder DEF create_folder, Publishing, Past, publicVars, projectVars
  <2>2. \E label \in OtherLabels : Goes(c, label) \/ GoesOn(c, label)
    BY Changes, <1>create_folder DEF OtherLabels, CallLabels
  <2> QED BY <2>1, <2>2, Elsewhere
<1>AddFolder. ASSUME NEW c \in Calls, AddFolder(c) PROVE Published'
  <2>1. ~Publishing(c) /\ ~Past(c) /\ UNCHANGED publicVars
    BY Changes, <1>AddFolder DEF AddFolder, Publishing, Past, publicVars, projectVars
  <2>2. \E label \in OtherLabels : Goes(c, label) \/ GoesOn(c, label)
    BY Changes, <1>AddFolder DEF OtherLabels, CallLabels
  <2> QED BY <2>1, <2>2, Elsewhere
<1>update_folder. ASSUME NEW c \in Calls, update_folder(c) PROVE Published'
  <2>1. ~Publishing(c) /\ ~Past(c) /\ UNCHANGED publicVars
    BY Changes, <1>update_folder DEF update_folder, Publishing, Past, publicVars, projectVars
  <2>2. \E label \in OtherLabels : Goes(c, label) \/ GoesOn(c, label)
    BY Changes, <1>update_folder DEF OtherLabels, CallLabels
  <2> QED BY <2>1, <2>2, Elsewhere
<1>delete_folder. ASSUME NEW c \in Calls, delete_folder(c) PROVE Published'
  <2>1. ~Publishing(c) /\ ~Past(c) /\ UNCHANGED publicVars
    BY Changes, <1>delete_folder DEF delete_folder, Publishing, Past, publicVars, projectVars
  <2>2. \E label \in OtherLabels : Goes(c, label) \/ GoesOn(c, label)
    BY Changes, <1>delete_folder DEF OtherLabels, CallLabels
  <2> QED BY <2>1, <2>2, Elsewhere
<1>create_project. ASSUME NEW c \in Calls, create_project(c) PROVE Published'
  <2>1. ~Publishing(c) /\ ~Past(c) /\ UNCHANGED publicVars
    BY Changes, <1>create_project DEF create_project, Publishing, Past, publicVars, projectVars
  <2>2. \E label \in OtherLabels : Goes(c, label) \/ GoesOn(c, label)
    BY Changes, <1>create_project DEF OtherLabels, CallLabels
  <2> QED BY <2>1, <2>2, Elsewhere
<1>LinkUserProject. ASSUME NEW c \in Calls, LinkUserProject(c) PROVE Published'
  <2>1. ~Publishing(c) /\ ~Past(c) /\ UNCHANGED publicVars
    BY Changes, <1>LinkUserProject DEF LinkUserProject, Publishing, Past, publicVars, projectVars
  <2>2. \E label \in OtherLabels : Goes(c, label) \/ GoesOn(c, label)
    BY Changes, <1>LinkUserProject DEF OtherLabels, CallLabels
  <2> QED BY <2>1, <2>2, Elsewhere
<1>delete_project. ASSUME NEW c \in Calls, delete_project(c) PROVE Published'
  BY Emptied, Changes, <1>delete_project DEF delete_project, Publishing, Past, Goes
<1>publish_project. ASSUME NEW c \in Calls, publish_project(c) PROVE Published'
  <2>1. call[c].pc = "idle" /\ Goes(c, "read") /\ UNCHANGED <<publics, promised>>
    BY Changes, <1>publish_project DEF publish_project
  <2>2. AddersArePast'
    BY <2>1, CallIsTyped DEF AddersArePast, Past, Goes, Changed, Public, Typed, WorkspaceTypeOK
  <2>3. Sole'
    BY <2>1, <1>publish_project DEF publish_project, Sole, Publishing, Goes, Changed
  <2>4. Clean' => Clean
    BY <2>1, <1>publish_project DEF publish_project, Clean, Goes, Changed
  <2>5. \A d \in Calls : Shape(d) => Shape(d)'
    BY <2>1 DEF Shape, Copy, Goes, Changed
  <2>6. Settled' => Settled
    BY <2>1 DEF Settled, Goes, Changed
  <2> QED BY <2>1, <2>2, <2>3, <2>4, <2>5, <2>6 DEF Shown, Versions, AtMostOneIn
<1>ReadProject. ASSUME NEW c \in Calls, ReadProject(c) PROVE Published'
  <2>1. PICK old \in FirstPublic :
          Changed(c, IF project = "open" THEN "add" ELSE "failed", call[c].at, version, old)
    BY Changes, <1>ReadProject
  <2>2. call[c].pc = "read" /\ UNCHANGED publicVars
    BY <1>ReadProject DEF ReadProject, publicVars, projectVars
  <2>3. old \subseteq publics
    BY DEF FirstPublic
  <2>4. AddersArePast'
    BY <2>1, <2>2, <2>3, CallIsTyped DEF AddersArePast, Past, Changed, publicVars, Public, Typed, WorkspaceTypeOK
  <2>5. Sole'
    BY <2>1, <2>2 DEF Sole, Publishing, Changed, publicVars
  <2>6. ASSUME Clean' PROVE Clean /\ Settled /\ \A d \in Calls : Publishing(d) => d = c
    BY <2>1, <2>2, <2>6 DEF Clean, Changed, publicVars, Sole, Publishing, Settled
  <2>7. ASSUME Clean' PROVE publics \subseteq old
    BY <2>6, <2>7 DEF Shown, AtMostOneIn, FirstPublic
  <2>8. ASSUME Clean', NEW d \in Calls PROVE Shape(d)'
    BY <2>1, <2>2, <2>6, <2>7, <2>8 DEF Shape, Publishing, Changed, publicVars
  <2> QED BY <2>2, <2>4, <2>5, <2>6, <2>8 DEF Shown, Versions, AtMostOneIn, publicVars
<1>AddPublic. ASSUME NEW c \in Calls, AddPublic(c) PROVE Published'
  <2>1. call[c].pc = "add" /\ (Goes(c, "failed") \/ Goes(c, "replace")) /\ crossed' = crossed
    BY Changes, <1>AddPublic DEF AddPublic
  <2>2. Sole'
    BY <2>1 DEF Sole, Publishing, Goes, Changed
  <2>3. ASSUME Clean' PROVE Clean /\ Settled /\ \A d \in Calls : Publishing(d) => d = c
    BY <2>1, <2>3 DEF Clean, Goes, Changed, Sole, Publishing, Settled
  <2>4. CASE Goes(c, "failed")
    <3>1. UNCHANGED <<publics, promised>>
      BY <2>1, <2>4, <1>AddPublic DEF AddPublic, Step, Goes, Changed, Typed, WorkspaceTypeOK, CallState
    <3>2. AddersArePast'
      BY <3>1, <2>4, CallIsTyped DEF AddersArePast, Past, Goes, Changed, Public, Typed, WorkspaceTypeOK
    <3>3. ASSUME Clean', NEW d \in Calls PROVE Shape(d)'
      BY <2>3, <3>3, <2>4 DEF Shape, Publishing, Goes, Changed
    <3> QED BY <3>1, <3>2, <3>3, <2>2, <2>3 DEF Shown, Versions, AtMostOneIn
  <2>5. CASE Goes(c, "replace")
    <3>1. /\ publics' = publics \cup {Copy(c)}
          /\ promised' = {call[c].version} \cup Versions(call[c].old)
      BY <2>1, <2>5, <1>AddPublic DEF AddPublic, Step, Goes, Changed, Copy, Versions, Typed, WorkspaceTypeOK, CallState
    <3>2. Copy(c)' = Copy(c) /\ Copy(c).by = c /\ Copy(c).version = call[c].version
      BY <2>5 DEF Copy, Goes, Changed
    <3>3. AddersArePast'
      BY <3>1, <3>2, <2>5, CallIsTyped DEF AddersArePast, Past, Goes, Changed, Public, Typed, WorkspaceTypeOK
    <3>4. ASSUME Clean', NEW d \in Calls PROVE Shape(d)'
      <4>1. CASE d = c
        BY <2>1, <2>3, <3>4, <3>1, <3>2, <2>5, <4>1 DEF Shape, Shown, Goes, Changed
      <4>2. CASE d # c
        BY <2>3, <3>4, <2>5, <4>2 DEF Shape, Publishing, Goes, Changed
      <4> QED BY <4>1, <4>2
    <3>5. ASSUME Clean', Settled' PROVE Versions(publics') = promised' /\ AtMostOneIn(publics')
      <4>1. call[c].old = {} /\ publics = {}
        BY <2>1, <2>3, <2>5, <3>5 DEF Shown, Shape, Settled, Goes, Changed
      <4> QED BY <4>1, <3>1, <3>2 DEF Versions, AtMostOneIn
    <3> QED BY <2>2, <3>3, <3>4, <3>5 DEF Shown, Versions, AtMostOneIn
  <2> QED BY <2>1, <2>4, <2>5
<1>ReplacePublic. ASSUME NEW c \in Calls, ReplacePublic(c) PROVE Published'
  <2>1. /\ call[c].pc = "replace" /\ Goes(c, "ok") /\ crossed' = crossed
        /\ publics' = publics \ call[c].old
        /\ promised' = {call[c].version} \cap Versions(publics)
    BY Changes, <1>ReplacePublic DEF ReplacePublic, Versions
  <2>2. Sole'
    BY <2>1 DEF Sole, Publishing, Goes, Changed
  <2>3. AddersArePast'
    BY <2>1, CallIsTyped DEF AddersArePast, Past, Goes, Changed, Public, Typed, WorkspaceTypeOK
  <2>4. ASSUME Clean' PROVE Clean /\ \A d \in Calls : Publishing(d) => d = c
    BY <2>1, <2>4 DEF Clean, Goes, Changed, Sole, Publishing
  <2>5. ASSUME Clean', NEW d \in Calls PROVE Shape(d)'
    BY <2>4, <2>5, <2>1 DEF Shape, Publishing, Goes, Changed
  <2>6. ASSUME Clean' PROVE Versions(publics') = promised' /\ AtMostOneIn(publics')
    <3>1. publics = {} \/ (Copy(c) \in publics /\ publics \subseteq call[c].old \cup {Copy(c)})
      BY <2>1, <2>4, <2>6 DEF Shown, Shape
    <3>2. CASE publics = {}
      BY <2>1, <3>2 DEF Versions, AtMostOneIn
    <3>3. CASE Copy(c) \in publics /\ publics \subseteq call[c].old \cup {Copy(c)}
      <4>1. CASE Copy(c) \in call[c].old
        BY <2>1, <4>1 DEF AddersArePast, Copy
      <4>2. CASE Copy(c) \notin call[c].old
        <5>1. publics' = {Copy(c)}
          BY <2>1, <3>3, <4>2
        <5>2. promised' = {call[c].version}
          BY <2>1, <3>3 DEF Versions, Copy
        <5> QED BY <5>1, <5>2 DEF Versions, AtMostOneIn, Copy
      <4> QED BY <4>1, <4>2
    <3> QED BY <3>1, <3>2, <3>3
  <2> QED BY <2>2, <2>3, <2>5, <2>6 DEF Shown, Versions, AtMostOneIn
<1>unpublish_project. ASSUME NEW c \in Calls, unpublish_project(c) PROVE Published'
  <2>1. CASE Goes(c, "failed")
    <3>1. ~Publishing(c) /\ ~Past(c) /\ UNCHANGED <<publics, promised>>
      BY Changes, <1>unpublish_project DEF unpublish_project, Publishing, Past
    <3>2. AddersArePast'
      BY <3>1, <2>1, CallIsTyped DEF AddersArePast, Past, Goes, Changed, Public, Typed, WorkspaceTypeOK
    <3>3. Sole'
      BY <2>1, <1>unpublish_project DEF unpublish_project, Sole, Publishing, Goes, Changed
    <3>4. Clean' => Clean
      BY <3>1, <2>1, <1>unpublish_project DEF unpublish_project, Clean, Past, Goes, Changed
    <3>5. \A d \in Calls : Shape(d) => Shape(d)'
      BY <2>1, <3>1 DEF Shape, Copy, Publishing, Goes, Changed
    <3>6. Settled' => Settled
      BY <2>1, <3>1 DEF Settled, Past, Goes, Changed
    <3> QED BY <3>1, <3>2, <3>3, <3>4, <3>5, <3>6 DEF Shown, Versions, AtMostOneIn
  <2>2. CASE \E old \in FirstPublic : Changed(c, "unpublish", call[c].at, call[c].version, old)
    <3>1. PICK old \in FirstPublic : Changed(c, "unpublish", call[c].at, call[c].version, old)
      BY <2>2
    <3>2. /\ call[c].pc = "idle" /\ UNCHANGED <<publics, promised>>
          /\ crossed' = (crossed \/ \E d \in Calls : Publishing(d))
      BY Changes, <1>unpublish_project DEF unpublish_project
    <3>3. old \subseteq publics
      BY DEF FirstPublic
    <3>4. AddersArePast'
      BY <3>1, <3>2, <3>3, CallIsTyped DEF AddersArePast, Past, Changed, Public, Typed, WorkspaceTypeOK
    <3>5. Sole'
      BY <3>1, <3>2 DEF Sole, Publishing, Changed
    <3>6. ASSUME Clean' PROVE Clean /\ Settled /\ \A d \in Calls : ~Publishing(d)
      BY <3>1, <3>2, <3>6 DEF Clean, Changed, Publishing, Settled
    <3>7. ASSUME Clean' PROVE publics \subseteq old
      BY <3>6, <3>7 DEF Shown, AtMostOneIn, FirstPublic
    <3>8. ASSUME Clean', NEW d \in Calls PROVE Shape(d)'
      BY <3>1, <3>2, <3>6, <3>7, <3>8 DEF Shape, Publishing, Changed
    <3> QED BY <3>2, <3>4, <3>5, <3>6, <3>8 DEF Shown, Versions, AtMostOneIn
  <2> QED BY <2>1, <2>2, Changes, <1>unpublish_project
<1>RemovePublic. ASSUME NEW c \in Calls, RemovePublic(c) PROVE Published'
  <2>1. /\ call[c].pc = "unpublish" /\ Goes(c, "ok") /\ crossed' = crossed
        /\ publics' = publics \ call[c].old /\ promised' = {}
    BY Changes, <1>RemovePublic DEF RemovePublic
  <2>2. Sole'
    BY <2>1 DEF Sole, Publishing, Goes, Changed
  <2>3. AddersArePast'
    BY <2>1, CallIsTyped DEF AddersArePast, Past, Goes, Changed, Public, Typed, WorkspaceTypeOK
  <2>4. ASSUME Clean' PROVE Clean /\ \A d \in Calls : Publishing(d) => d = c
    BY <2>1, <2>4 DEF Clean, Goes, Changed, Sole, Publishing
  <2>5. ASSUME Clean' PROVE publics' = {}
    BY <2>1, <2>4, <2>5 DEF Shown, Shape
  <2>6. ASSUME Clean', NEW d \in Calls PROVE Shape(d)'
    BY <2>4, <2>5, <2>6, <2>1 DEF Shape, Publishing, Goes, Changed
  <2> QED BY <2>1, <2>2, <2>3, <2>5, <2>6 DEF Shown, Versions, AtMostOneIn
<1>Die. ASSUME NEW c \in Calls, Die(c) PROVE Published'
  <2>torn. CASE call[c].pc = "index"
    <3>1. Goes(c, "torn") /\ ~Publishing(c) /\ ~Past(c) /\ UNCHANGED publicVars
      BY <2>torn, Changes, <1>Die DEF Die, Publishing, Past, publicVars, projectVars
    <3>2. \E label \in OtherLabels : Goes(c, label) \/ GoesOn(c, label)
      BY <3>1 DEF OtherLabels, CallLabels
    <3> QED BY <3>1, <3>2, Elsewhere
  <2>dead. CASE call[c].pc # "index"
    <3>1. Busy(c) /\ Goes(c, "failed") /\ UNCHANGED publicVars
      BY <2>dead, Changes, <1>Die DEF Die, publicVars, projectVars
    <3>2. AddersArePast'
      BY <3>1, CallIsTyped DEF AddersArePast, Past, Goes, Changed, publicVars, Public, Typed, WorkspaceTypeOK
    <3>3. Sole'
      BY <3>1 DEF Sole, Publishing, Goes, Changed, publicVars
    <3>4. ASSUME Clean' PROVE Clean /\ call[c].old = {}
      BY <3>1, <3>4 DEF Clean, Busy, Goes, Changed, publicVars
    <3>5. \A d \in Calls : Shape(d) => Shape(d)'
      BY <3>1 DEF Shape, Copy, Goes, Changed, publicVars
    <3>6. Clean' /\ Settled' => Settled
      BY <3>1, <3>4 DEF Settled, Goes, Changed
    <3> QED BY <3>1, <3>2, <3>3, <3>4, <3>5, <3>6 DEF Shown, Versions, AtMostOneIn, publicVars
  <2> QED BY <2>torn, <2>dead
<1>stutter. CASE UNCHANGED workspaceVars
  BY <1>stutter DEF workspaceVars, AddersArePast, Past, Sole, Publishing, Shown, Clean, Shape, Copy, Settled, Versions, AtMostOneIn
<1> QED
  BY <1>CreateAccount, <1>DeleteAccount, <1>update_project, <1>create_user_base_data,
     <1>TableExists, <1>CreateTable, <1>IndexTable, <1>TablesDone, <1>CreateHome,
     <1>delete_user, <1>DropTable, <1>create_folder, <1>AddFolder, <1>update_folder,
     <1>delete_folder, <1>create_project, <1>LinkUserProject, <1>delete_project,
     <1>publish_project, <1>ReadProject, <1>AddPublic, <1>ReplacePublic,
     <1>unpublish_project, <1>RemovePublic, <1>Die, <1>stutter DEF WorkspaceNext

-----------------------------------------------------------------------------
LEMMA InvariantsInit ==
  ASSUME WorkspaceInit PROVE Typed /\ Tabled /\ Foldered /\ Published
<1>1. Typed
  BY TypedInit
<1>2. Tabled
  BY <1>1 DEF Tabled, DropsAreAsked, BareIsHeld, TablesThere, WorkspaceInit
<1>3. IsFiniteSet(folders) /\ Cardinality(folders) = 0
  BY FS_EmptySet DEF WorkspaceInit
<1>4. Foldered
  BY <1>1, <1>3, WorkspaceAssumption DEF Foldered, PlaceIsKept, Counted, WorkspaceInit
<1>5. Published
  BY <1>1 DEF Published, AddersArePast, Sole, Shown, Shape, Publishing, Versions, AtMostOneIn, WorkspaceInit
<1> QED BY <1>1, <1>2, <1>4, <1>5

(* Tables, folders and public copies are looked after apart; all three     *)
(* rest on the types.                                                      *)
LEMMA InvariantsHold ==
  WorkspaceSpec => [](Typed /\ Tabled /\ Foldered /\ Published)
<1>1. WorkspaceInit => Typed /\ Tabled /\ Foldered /\ Published
  BY InvariantsInit
<1>2. Typed /\ Tabled /\ Foldered /\ Published /\ [WorkspaceNext]_workspaceVars
        => (Typed /\ Tabled /\ Foldered /\ Published)'
  <2> SUFFICES ASSUME Typed, Tabled, Foldered, Published, [WorkspaceNext]_workspaceVars
               PROVE  (Typed /\ Tabled /\ Foldered /\ Published)'
    OBVIOUS
  <2>1. Typed'
    BY TypedNext
  <2>2. Tabled'
    BY <2>1, TablesNext DEF Tabled
  <2>3. Foldered'
    BY <2>1, FoldersNext DEF Foldered
  <2>4. Published'
    BY <2>1, PublishedNext
  <2> QED BY <2>1, <2>2, <2>3, <2>4
<1> QED BY <1>1, <1>2, PTL DEF WorkspaceSpec

(* Every request is in a state of its handler, at a table that exists.     *)
THEOREM WorkspaceTypeCorrect == WorkspaceSpec => []WorkspaceTypeOK
<1>1. Typed => WorkspaceTypeOK
  BY DEF Typed
<1> QED BY <1>1, InvariantsHold, PTL

(* A user's tables are there from the day the account is made until        *)
(* somebody asks to drop them, whatever POST /user/data-schema does,       *)
(* however often and however many at once; and each is whole but for one   *)
(* that a POST is at, or died at, between the table and its indices.  That *)
(* a bare table has such a POST holds from the start; the account's        *)
(* trigger passes the table over.                                          *)
THEOREM TablesAreKept == WorkspaceSpec => []WorkspaceKeepsTables
<1>1. Tabled => WorkspaceKeepsTables
  BY DEF Tabled, BareIsHeld, LeftBare, TablesThere, WorkspaceKeepsTables, Typed, WorkspaceTypeOK
<1> QED BY <1>1, InvariantsHold, PTL

(* create_folder keeps to MAX_FOLDER_COUNT, unless two requests count      *)
(* before either adds, or the home folder is added without a count.        *)
THEOREM LimitIsKept == WorkspaceSpec => []FolderLimit
<1>1. Foldered => FolderLimit
  BY DEF Foldered, PlaceIsKept, FolderLimit
<1> QED BY <1>1, InvariantsHold, PTL

(* publish_project and unpublish_project leave at most one public copy,    *)
(* the one published last, if none overlapped and none died half way.      *)
THEOREM OneCopy == WorkspaceSpec => []OnePublicCopy
<1>1. Published => OnePublicCopy
  <2> SUFFICES ASSUME Published, Clean, \A c \in Calls : ~Publishing(c)
               PROVE  {p.version : p \in publics} = promised /\ Cardinality(publics) <= 1
    BY DEF OnePublicCopy, Clean
  <2>1. Settled
    BY DEF Settled, Publishing
  <2>2. Versions(publics) = promised /\ AtMostOneIn(publics)
    BY <2>1 DEF Published, Shown
  <2>3. Cardinality(publics) <= 1
    <3>1. CASE publics = {}
      <4>1. Cardinality({}) = 0
        BY FS_EmptySet
      <4> QED BY <3>1, <4>1
    <3>2. ASSUME NEW p \in publics, publics = {p} PROVE Cardinality(publics) <= 1
      <4>1. Cardinality({p}) = 1
        BY FS_Singleton
      <4> QED BY <3>2, <4>1
    <3> QED BY <2>2, <3>1, <3>2 DEF AtMostOneIn
  <2> QED BY <2>2, <2>3 DEF Versions
<1> QED BY <1>1, InvariantsHold, PTL

-----------------------------------------------------------------------------
(* Scenarios.  A row belongs to one scenario from its link on (OneLink);   *)
(* the request that inserted it owns it until then (InHand), and a request *)
(* about a row of a scenario can meet it nowhere else (TargetIsOwn).  As   *)
(* long as no screen is stale, a feature of a scenario has one row or one  *)
(* request on its way, and never both (Alone): so what is drawn changes as *)
(* the answered edits say (ShownRight).                                    *)
UniqueIds == \A r, q \in rows : r.id = q.id => r = q

OneLink == \A l, k \in links : l.row = k.row => l = k

KnownRows(e) ==
  /\ editor[e].pc # "idle" => /\ editor[e].scenario \in Scenarios
                              /\ scenario[editor[e].scenario] # "none"
  /\ editor[e].row <= lastRow
  /\ editor[e].pc \notin {"link", "ok", "failed"} => editor[e].row = 0
  /\ editor[e].pc \in {"insert", "link"} => editor[e].target \in Origin \cup {New}
  /\ editor[e].pc \in {"update", "remove"} => editor[e].target \in RowIds
  /\ editor[e].pc \in {"drop", "sweep"} => editor[e].target = New
  /\ editor[e].pc \in {"lookup", "update", "remove"} => editor[e].target \in Origin \cup 1..lastRow

(* A row that is inserted and not linked yet is the request's own. *)
InHand(e) ==
  /\ editor[e].row # 0 => \A f \in Editors : editor[f].row = editor[e].row => f = e
  /\ editor[e].pc = "link" =>
       /\ editor[e].row # 0
       /\ \A l \in links : l.row # editor[e].row
       /\ \A f \in Editors : editor[f].pc \in {"lookup", "update", "remove"} => editor[f].target # editor[e].row
       /\ \A r \in rows : r.id = editor[e].row =>
            r.origin = editor[e].target /\ r.edit = editor[e].edit /\ r.value = e

(* A row that a request is about is in no other scenario. *)
TargetIsOwn(e) ==
  editor[e].pc \in {"lookup", "update", "remove"} =>
    /\ \A r \in rows : r.id = editor[e].target =>
         \/ [scenario |-> editor[e].scenario, row |-> r.id] \in links
         \/ scenario[editor[e].scenario] = "gone"
    /\ \A l \in links : l.row = editor[e].target => l.scenario = editor[e].scenario

OnItsWay(e, s, o) ==
  /\ editor[e].pc \notin {"idle", "ok", "failed"}
  /\ editor[e].scenario = s /\ editor[e].target = o

Has(s, r) == r \in rows /\ [scenario |-> s, row |-> r.id] \in links

AloneIn(s) ==
  \A o \in Origin :
    /\ \A r, q \in rows : Has(s, r) /\ Has(s, q) /\ r.origin = o /\ q.origin = o => r = q
    /\ \A r \in rows, e \in Editors : Has(s, r) /\ r.origin = o => ~OnItsWay(e, s, o)
    /\ \A e, f \in Editors : OnItsWay(e, s, o) /\ OnItsWay(f, s, o) => e = f

Alone == ~overtaken => \A s \in Scenarios : AloneIn(s)

(* What the scenario draws under id k. *)
Draws(s, k, v) ==
  \/ k \in Origin /\ v = Unedited /\ \A r \in rows : Has(s, r) => r.origin # k
  \/ \E r \in rows : Has(s, r) /\ r.edit # "d" /\ k = Key(r) /\ v = r.value

ShownIn(s) ==
  /\ scenario[s] = "none" => shown[s] = [o \in Origin |-> Unedited]
  /\ scenario[s] = "live" =>
       \A k, v : k \in DOMAIN shown[s] /\ v = shown[s][k] <=> Draws(s, k, v)

ShownRight ==
  /\ shown = [s \in Scenarios |-> shown[s]]
  /\ ~overtaken => \A s \in Scenarios : ShownIn(s)

RowsKept == ScenarioTypeOK /\ UniqueIds /\ OneLink
          /\ \A e \in Editors : KnownRows(e) /\ InHand(e) /\ TargetIsOwn(e)

ScenarioIInv == RowsKept /\ OrphansAreExplained /\ Alone /\ ShownRight

-----------------------------------------------------------------------------
LEMMA ScenarioInitInv == ASSUME ScenarioInit PROVE ScenarioIInv
<1> USE ScenarioAssumption DEF ScenarioInit
<1>1. /\ rows = {} /\ links = {} /\ lastRow = 0 /\ overtaken = FALSE
      /\ \A s \in Scenarios : scenario[s] = "none"
      /\ \A e \in Editors : /\ editor[e].pc = "idle" /\ editor[e].scenario = NoScenario /\ editor[e].row = 0
      /\ scenario \in [Scenarios -> {"none", "live", "gone"}]
  BY DEF Idle
<1>2. editor \in [Editors -> Request]
  BY DEF Idle, Request
<1>3. ScenarioTypeOK
  <2>1. lastRow \in 0..MaxRows
    BY <1>1
  <2>2. rows \subseteq Row /\ links \subseteq Link /\ overtaken \in BOOLEAN
        /\ (\A r \in rows : r.id <= lastRow)
        /\ \A l \in links : scenario[l.scenario] = "live" /\ \E r \in rows : r.id = l.row
    BY <1>1
  <2> QED BY <1>1, <1>2, <2>1, <2>2, Zenon DEF ScenarioTypeOK
<1>4. \A e \in Editors : KnownRows(e) /\ InHand(e) /\ TargetIsOwn(e)
  BY <1>1 DEF KnownRows, InHand, TargetIsOwn
<1>5. Alone
  BY <1>1 DEF Alone, AloneIn, Has, OnItsWay
<1>6. ShownRight
  BY <1>1 DEF ShownRight, ShownIn
<1> QED BY <1>1, <1>3, <1>4, <1>5, <1>6 DEF ScenarioIInv, RowsKept, UniqueIds, OneLink, OrphansAreExplained

(* What a step of one request leaves of the requests. *)
Moved(e, pc, row) ==
  /\ editor'[e].pc = pc /\ editor'[e].row = row
  /\ editor'[e].scenario = editor[e].scenario /\ editor'[e].target = editor[e].target
  /\ editor'[e].edit = editor[e].edit
  /\ \A f \in Editors : f # e => editor'[f] = editor[f]
  /\ editor' \in [Editors -> Request]

Labels == {"idle", "lookup", "insert", "link", "update", "remove", "drop", "sweep", "ok", "failed"}

LEMMA EditorGoes ==
  ASSUME ScenarioTypeOK, NEW e \in Editors, NEW pc \in Labels, Goto(e, pc)
  PROVE  Moved(e, pc, editor[e].row)
BY DEF ScenarioTypeOK, Request, Goto, Moved, Labels

LEMMA Inserts ==
  ASSUME ScenarioTypeOK, NEW e \in Editors, NEW n \in 0..MaxRows,
         editor' = [editor EXCEPT ![e].pc = "link", ![e].row = n]
  PROVE  Moved(e, "link", n)
<1>1. editor \in [Editors -> Request]
  BY DEF ScenarioTypeOK
<1>2. /\ editor'[e] = [editor[e] EXCEPT !.pc = "link", !.row = n]
      /\ \A f \in Editors : f # e => editor'[f] = editor[f]
  BY <1>1
<1>3. editor'[e] \in Request
  <2>1. editor[e] \in Request
    BY <1>1
  <2> QED BY ONLY <1>2, <2>1, n \in 0..MaxRows DEF Request
<1>4. editor' \in [Editors -> Request]
  BY <1>1, <1>2, <1>3
<1> QED BY <1>1, <1>2, <1>4 DEF Request, Moved

LEMMA Sends ==
  ASSUME ScenarioTypeOK, NEW e \in Editors, NEW s \in Scenarios, NEW label \in Labels,
         NEW t \in Origin \cup RowIds \cup {New}, NEW edit \in {"n", "m", "d"}, Send(e, s, label, t, edit)
  PROVE  /\ editor[e].pc = "idle" /\ scenario[s] = "live"
         /\ editor'[e].pc = label /\ editor'[e].scenario = s /\ editor'[e].target = t
         /\ editor'[e].row = 0 /\ editor'[e].edit = edit
         /\ \A f \in Editors : f # e => editor'[f] = editor[f]
         /\ editor' \in [Editors -> Request]
BY ScenarioAssumption DEF ScenarioTypeOK, Request, Send, Labels

LEMMA RowFacts ==
  ASSUME ScenarioTypeOK
  PROVE  /\ \A r \in rows : /\ r.id \in RowIds /\ r.id <= lastRow /\ r.origin \in Origin \cup {New}
                            /\ r.id \notin Origin /\ r.id # New /\ r.id # 0
         /\ \A l \in links : /\ l.scenario \in Scenarios /\ l.row \in RowIds
                             /\ l = [scenario |-> l.scenario, row |-> l.row]
                             /\ scenario[l.scenario] = "live" /\ l.row <= lastRow
         /\ \A e \in Editors : /\ editor[e].row \in 0..MaxRows /\ editor[e].pc \in Labels
                               /\ editor[e].target \in Origin \cup RowIds \cup {New}
                               /\ editor[e].edit \in {"n", "m", "d"}
                               /\ editor[e].scenario \in Scenarios \cup {NoScenario}
         /\ lastRow \in 0..MaxRows /\ New \notin Origin /\ New \notin RowIds
         /\ \A o \in Origin : o \notin RowIds
BY ScenarioAssumption DEF ScenarioTypeOK, Row, Link, Request, RowIds, Labels

(* A step that touches neither the tables nor what they should show. *)
LEMMA TablesRest ==
  ASSUME ScenarioIInv, UNCHANGED <<scenario, rows, links, shown>>, overtaken' = overtaken
  PROVE  ShownRight'
<1>1. \A s, k, v : Draws(s, k, v)' <=> Draws(s, k, v)
  BY DEF Draws, Has, Key
<1>2. \A s \in Scenarios : ShownIn(s) => ShownIn(s)'
  BY <1>1 DEF ShownIn
<1> QED BY <1>2 DEF ScenarioIInv, ShownRight

-----------------------------------------------------------------------------
(* One lemma for each action. *)
LEMMA CreateScenarioInv ==
  ASSUME ScenarioIInv, NEW s \in Scenarios, CreateScenario(s) PROVE ScenarioIInv'
<1>0. ScenarioTypeOK /\ OrphansAreExplained /\ RowsKept /\ Alone /\ ShownRight
  BY DEF ScenarioIInv, RowsKept
<1>1. /\ scenario[s] = "none" /\ scenario'[s] = "live" /\ scenario' \in [Scenarios -> {"none", "live", "gone"}]
      /\ \A t \in Scenarios : t # s => scenario'[t] = scenario[t]
      /\ UNCHANGED <<rows, links, lastRow, editor, shown, overtaken>>
  BY <1>0 DEF CreateScenario, ScenarioTypeOK
<1>2. \A l \in links : l.scenario # s
  BY <1>0, <1>1, RowFacts
<1>3. ScenarioTypeOK'
  BY <1>0, <1>1, <1>2, RowFacts DEF ScenarioTypeOK, RowIds
<1>4. UniqueIds'
  BY <1>0, <1>1, <1>2, RowFacts DEF ScenarioIInv, RowsKept, UniqueIds
<1>5. OneLink'
  BY <1>0, <1>1, <1>2, RowFacts DEF ScenarioIInv, RowsKept, OneLink
<1>6. \A f \in Editors : KnownRows(f)'
  BY <1>0, <1>1, <1>2, RowFacts DEF ScenarioIInv, RowsKept, KnownRows
<1>7. \A f \in Editors : InHand(f)'
  BY <1>0, <1>1, <1>2, RowFacts DEF ScenarioIInv, RowsKept, KnownRows, InHand
<1>8. \A f \in Editors : TargetIsOwn(f)'
  BY <1>0, <1>1, <1>2, RowFacts DEF ScenarioIInv, RowsKept, KnownRows, TargetIsOwn
<1>9. OrphansAreExplained'
  BY <1>0, <1>1, <1>2, RowFacts DEF ScenarioIInv, RowsKept, OrphansAreExplained, Linked, KnownRows
<1>10. Alone'
  BY <1>0, <1>1, <1>2, RowFacts DEF ScenarioIInv, RowsKept, Alone, AloneIn, OnItsWay, Has
<1>11. ShownRight'
  <2>1. \A t, k, v : Draws(t, k, v)' <=> Draws(t, k, v)
    BY <1>1 DEF Draws, Has, Key
  <2>2. \A r \in rows : ~Has(s, r)
    BY <1>2 DEF Has
  <2>3. ~overtaken => ShownIn(s)'
    <3>1. \A k, v : Draws(s, k, v) <=> k \in Origin /\ v = Unedited
      BY <2>2 DEF Draws, Has
    <3>2. ~overtaken => shown'[s] = [o \in Origin |-> Unedited]
      BY <1>0, <1>1 DEF ShownRight, ShownIn
    <3>3. ~overtaken => \A k, v : k \in DOMAIN shown'[s] /\ v = shown'[s][k] <=> k \in Origin /\ v = Unedited
      BY <3>2
    <3> QED BY <1>1, <2>1, <3>1, <3>3 DEF ShownIn
  <2>4. ~overtaken => \A t \in Scenarios : t # s => ShownIn(t)'
    BY <1>0, <1>1, <2>1 DEF ShownRight, ShownIn
  <2> QED BY <1>0, <1>1, <2>3, <2>4 DEF ShownRight
<1> QED BY <1>3, <1>4, <1>5, <1>6, <1>7, <1>8, <1>9, <1>10, <1>11 DEF ScenarioIInv, RowsKept

LEMMA SendCreateInv ==
  ASSUME ScenarioIInv, NEW e \in Editors, NEW s \in Scenarios, SendCreate(e, s) PROVE ScenarioIInv'
<1>0. ScenarioTypeOK /\ OrphansAreExplained /\ RowsKept /\ Alone /\ ShownRight
  BY DEF ScenarioIInv, RowsKept
<1>1. /\ editor[e].pc = "idle" /\ scenario[s] = "live" /\ editor'[e].pc = "insert" /\ editor'[e].scenario = s
      /\ editor'[e].target = New /\ editor'[e].row = 0
      /\ \A f \in Editors : f # e => editor'[f] = editor[f]
      /\ editor' \in [Editors -> Request] /\ UNCHANGED <<scenario, rows, links, lastRow, shown, overtaken>>
  BY <1>0, Sends DEF SendCreate, Labels
<1>2. ScenarioTypeOK'
  BY <1>0, <1>1, RowFacts DEF ScenarioTypeOK, RowIds
<1>3. UniqueIds'
  BY <1>0, <1>1, RowFacts DEF ScenarioIInv, RowsKept, UniqueIds
<1>4. OneLink'
  BY <1>0, <1>1, RowFacts DEF ScenarioIInv, RowsKept, OneLink
<1>5. \A f \in Editors : KnownRows(f)'
  BY <1>0, <1>1, RowFacts DEF ScenarioIInv, RowsKept, KnownRows
<1>6. \A f \in Editors : InHand(f)'
  BY <1>0, <1>1, RowFacts DEF ScenarioIInv, RowsKept, KnownRows, InHand
<1>7. \A f \in Editors : TargetIsOwn(f)'
  BY <1>0, <1>1, RowFacts DEF ScenarioIInv, RowsKept, KnownRows, TargetIsOwn
<1>8. OrphansAreExplained'
  BY <1>0, <1>1, RowFacts DEF ScenarioIInv, RowsKept, OrphansAreExplained, Linked, KnownRows
<1>9. Alone'
  BY <1>0, <1>1, RowFacts DEF ScenarioIInv, RowsKept, Alone, AloneIn, OnItsWay, Has
<1>10. ShownRight'
  BY <1>1, TablesRest
<1> QED BY <1>2, <1>3, <1>4, <1>5, <1>6, <1>7, <1>8, <1>9, <1>10 DEF ScenarioIInv, RowsKept

LEMMA SendDropInv ==
  ASSUME ScenarioIInv, NEW e \in Editors, NEW s \in Scenarios, SendDrop(e, s) PROVE ScenarioIInv'
<1>0. ScenarioTypeOK /\ OrphansAreExplained /\ RowsKept /\ Alone /\ ShownRight
  BY DEF ScenarioIInv, RowsKept
<1>1. /\ editor[e].pc = "idle" /\ scenario[s] = "live" /\ editor'[e].pc = "drop" /\ editor'[e].scenario = s
      /\ editor'[e].target = New /\ editor'[e].row = 0
      /\ \A f \in Editors : f # e => editor'[f] = editor[f]
      /\ editor' \in [Editors -> Request] /\ UNCHANGED <<scenario, rows, links, lastRow, shown, overtaken>>
  BY <1>0, Sends DEF SendDrop, Labels
<1>2. ScenarioTypeOK'
  BY <1>0, <1>1, RowFacts DEF ScenarioTypeOK, RowIds
<1>3. UniqueIds'
  BY <1>0, <1>1, RowFacts DEF ScenarioIInv, RowsKept, UniqueIds
<1>4. OneLink'
  BY <1>0, <1>1, RowFacts DEF ScenarioIInv, RowsKept, OneLink
<1>5. \A f \in Editors : KnownRows(f)'
  BY <1>0, <1>1, RowFacts DEF ScenarioIInv, RowsKept, KnownRows
<1>6. \A f \in Editors : InHand(f)'
  BY <1>0, <1>1, RowFacts DEF ScenarioIInv, RowsKept, KnownRows, InHand
<1>7. \A f \in Editors : TargetIsOwn(f)'
  BY <1>0, <1>1, RowFacts DEF ScenarioIInv, RowsKept, KnownRows, TargetIsOwn
<1>8. OrphansAreExplained'
  BY <1>0, <1>1, RowFacts DEF ScenarioIInv, RowsKept, OrphansAreExplained, Linked, KnownRows
<1>9. Alone'
  BY <1>0, <1>1, RowFacts DEF ScenarioIInv, RowsKept, Alone, AloneIn, OnItsWay, Has
<1>10. ShownRight'
  BY <1>1, TablesRest
<1> QED BY <1>2, <1>3, <1>4, <1>5, <1>6, <1>7, <1>8, <1>9, <1>10 DEF ScenarioIInv, RowsKept

LEMMA SendEditInv ==
  ASSUME ScenarioIInv, NEW e \in Editors, NEW s \in Scenarios, NEW edit \in {"m", "d"}, SendEdit(e, s, edit)
  PROVE  ScenarioIInv'
<1>0. ScenarioTypeOK /\ OrphansAreExplained /\ RowsKept /\ Alone /\ ShownRight
  BY DEF ScenarioIInv, RowsKept
<1>1. PICK t \in Origin \cup {r.id : r \in RowsOf(s)} :
        /\ Send(e, s, "lookup", t, edit)
        /\ overtaken' = (overtaken \/ (t \in Origin /\ Stale(s, t)))
        /\ UNCHANGED <<scenario, rows, links, lastRow, shown>>
  BY DEF SendEdit
<1>2. t \in Origin \/ \E r \in rows : r.id = t /\ [scenario |-> s, row |-> r.id] \in links
  BY <1>1 DEF RowsOf
<1>3. t \in Origin \cup RowIds /\ t \in Origin \cup 1..lastRow
  <2>1. \A r \in rows : r.id \in RowIds /\ r.id \in 1..lastRow
    BY <1>0, RowFacts, ScenarioAssumption DEF RowIds
  <2> QED BY <1>2, <2>1
<1>4. /\ editor[e].pc = "idle" /\ scenario[s] = "live" /\ editor'[e].pc = "lookup" /\ editor'[e].scenario = s
      /\ editor'[e].target = t /\ editor'[e].row = 0
      /\ \A f \in Editors : f # e => editor'[f] = editor[f]
      /\ editor' \in [Editors -> Request] /\ UNCHANGED <<scenario, rows, links, lastRow, shown>>
  BY <1>0, <1>1, <1>3, Sends DEF Labels
<1>5. overtaken' \in BOOLEAN /\ (overtaken => overtaken')
  BY <1>0, <1>1 DEF ScenarioTypeOK
<1>6. ~overtaken' => ~overtaken /\ (t \in Origin =>
        /\ \A r \in rows : Has(s, r) => r.origin # t
        /\ \A f \in Editors : ~OnItsWay(f, s, t))
  BY <1>1, <1>5 DEF Stale, RowsOf, Has, OnItsWay
<1>7. ScenarioTypeOK'
  BY <1>0, <1>3, <1>4, <1>5, RowFacts DEF ScenarioTypeOK, RowIds
<1>8. UniqueIds'
  BY <1>0, <1>3, <1>4, <1>5, RowFacts DEF ScenarioIInv, RowsKept, UniqueIds
<1>9. OneLink'
  BY <1>0, <1>3, <1>4, <1>5, RowFacts DEF ScenarioIInv, RowsKept, OneLink
<1>10. \A f \in Editors : KnownRows(f)'
  BY <1>0, <1>3, <1>4, <1>5, RowFacts DEF ScenarioIInv, RowsKept, KnownRows
<1>11. \A f \in Editors : InHand(f)'
  <2>1. \A f \in Editors : editor[f].pc = "link" => editor[f].row # t
    <3>1. \A f \in Editors : editor[f].pc = "link" => editor[f].row \in RowIds
                                /\ \A l \in links : l.row # editor[f].row
      BY <1>0, RowFacts, ScenarioAssumption DEF RowsKept, InHand, RowIds
    <3>2. \A r : [scenario |-> s, row |-> r].row = r
      OBVIOUS
    <3> QED BY <1>0, <1>2, <3>1, <3>2, RowFacts
  <2> QED BY <1>0, <1>4, <2>1, RowFacts DEF RowsKept, KnownRows, InHand
<1>12. \A f \in Editors : TargetIsOwn(f)'
  <2>1. TargetIsOwn(e)'
    <3>1. CASE t \in Origin
      BY <1>0, <1>4, <3>1, RowFacts DEF TargetIsOwn
    <3>2. ASSUME NEW r \in rows, r.id = t, [scenario |-> s, row |-> r.id] \in links PROVE TargetIsOwn(e)'
      <4>1. \A l \in links : l.row = t => l = [scenario |-> s, row |-> r.id]
        BY <1>0, <3>2 DEF RowsKept, OneLink
      <4>2. [scenario |-> s, row |-> t] \in links
        BY <3>2
      <4> QED BY <1>4, <4>1, <4>2 DEF TargetIsOwn
    <3> QED BY <1>2, <3>1, <3>2
  <2>2. \A f \in Editors : f # e => TargetIsOwn(f)'
    BY <1>0, <1>4 DEF RowsKept, TargetIsOwn
  <2> QED BY <2>1, <2>2
<1>13. OrphansAreExplained'
  BY <1>0, <1>3, <1>4, <1>5, RowFacts DEF ScenarioIInv, RowsKept, OrphansAreExplained, Linked, KnownRows
<1>14. Alone'
  <2>1. \A f \in Editors : \A u, o : f # e => (OnItsWay(f, u, o)' <=> OnItsWay(f, u, o))
    BY <1>4 DEF OnItsWay
  <2>2. \A u, o : OnItsWay(e, u, o)' => u = s /\ o = t
    BY <1>4 DEF OnItsWay
  <2>3. \A u, r : Has(u, r)' <=> Has(u, r)
    BY <1>4 DEF Has
  <2> QED BY <1>0, <1>4, <1>6, <2>1, <2>2, <2>3 DEF Alone, AloneIn
<1>15. ShownRight'
  <2>1. \A u, k, v : Draws(u, k, v)' <=> Draws(u, k, v)
    BY <1>4 DEF Draws, Has, Key
  <2> QED BY <1>0, <1>4, <1>5, <2>1 DEF ShownRight, ShownIn
<1> QED BY <1>7, <1>8, <1>9, <1>10, <1>11, <1>12, <1>13, <1>14, <1>15 DEF ScenarioIInv, RowsKept

LEMMA LookupUpdateInv == ASSUME ScenarioIInv, NEW e \in Editors, LookupUpdate(e) PROVE ScenarioIInv'
<1>0. ScenarioTypeOK /\ OrphansAreExplained /\ RowsKept /\ Alone /\ ShownRight
  BY DEF ScenarioIInv, RowsKept
<1>1. PICK pc \in {"update", "insert", "failed"} :
        /\ Goto(e, pc)
        /\ pc = "update" => \E r \in rows : r.id = editor[e].target
        /\ pc = "insert" => editor[e].target \in Origin
  BY DEF LookupUpdate
<1>2. /\ Moved(e, pc, editor[e].row) /\ editor[e].pc = "lookup"
      /\ UNCHANGED <<scenario, rows, links, lastRow, shown, overtaken>>
      /\ pc \in {"update", "insert", "failed"}
  BY <1>0, <1>1, EditorGoes DEF LookupUpdate, Labels
<1>3. pc = "update" => editor[e].target \in RowIds
  BY <1>0, <1>1, RowFacts
<1>4. ScenarioTypeOK'
  BY <1>0, <1>1, <1>2, <1>3, RowFacts DEF Moved, ScenarioTypeOK, RowIds
<1>5. UniqueIds'
  BY <1>0, <1>1, <1>2, <1>3, RowFacts DEF Moved, ScenarioIInv, RowsKept, UniqueIds
<1>6. OneLink'
  BY <1>0, <1>1, <1>2, <1>3, RowFacts DEF Moved, ScenarioIInv, RowsKept, OneLink
<1>7. \A f \in Editors : KnownRows(f)'
  BY <1>0, <1>1, <1>2, <1>3, RowFacts DEF Moved, ScenarioIInv, RowsKept, KnownRows
<1>8. \A f \in Editors : InHand(f)'
  BY <1>0, <1>1, <1>2, <1>3, RowFacts DEF Moved, ScenarioIInv, RowsKept, KnownRows, InHand
<1>9. \A f \in Editors : TargetIsOwn(f)'
  BY <1>0, <1>1, <1>2, <1>3, RowFacts DEF Moved, ScenarioIInv, RowsKept, KnownRows, TargetIsOwn
<1>10. OrphansAreExplained'
  BY <1>0, <1>1, <1>2, <1>3, RowFacts DEF Moved, ScenarioIInv, RowsKept, OrphansAreExplained, Linked, KnownRows
<1>11. Alone'
  BY <1>0, <1>1, <1>2, <1>3, RowFacts DEF Moved, ScenarioIInv, RowsKept, Alone, AloneIn, OnItsWay, Has
<1>12. ShownRight'
  BY <1>2, TablesRest
<1> QED BY <1>4, <1>5, <1>6, <1>7, <1>8, <1>9, <1>10, <1>11, <1>12 DEF Moved, ScenarioIInv, RowsKept

LEMMA LookupDeleteInv == ASSUME ScenarioIInv, NEW e \in Editors, LookupDelete(e) PROVE ScenarioIInv'
<1>0. ScenarioTypeOK /\ OrphansAreExplained /\ RowsKept /\ Alone /\ ShownRight
  BY DEF ScenarioIInv, RowsKept
<1>1. PICK pc \in {"remove", "insert", "failed"} :
        /\ Goto(e, pc)
        /\ pc = "remove" => \E r \in rows : r.id = editor[e].target
        /\ pc = "insert" => editor[e].target \in Origin
  BY DEF LookupDelete
<1>2. /\ Moved(e, pc, editor[e].row) /\ editor[e].pc = "lookup"
      /\ UNCHANGED <<scenario, rows, links, lastRow, shown, overtaken>>
      /\ pc \in {"remove", "insert", "failed"}
  BY <1>0, <1>1, EditorGoes DEF LookupDelete, Labels
<1>3. pc = "remove" => editor[e].target \in RowIds
  BY <1>0, <1>1, RowFacts
<1>4. ScenarioTypeOK'
  BY <1>0, <1>1, <1>2, <1>3, RowFacts DEF Moved, ScenarioTypeOK, RowIds
<1>5. UniqueIds'
  BY <1>0, <1>1, <1>2, <1>3, RowFacts DEF Moved, ScenarioIInv, RowsKept, UniqueIds
<1>6. OneLink'
  BY <1>0, <1>1, <1>2, <1>3, RowFacts DEF Moved, ScenarioIInv, RowsKept, OneLink
<1>7. \A f \in Editors : KnownRows(f)'
  BY <1>0, <1>1, <1>2, <1>3, RowFacts DEF Moved, ScenarioIInv, RowsKept, KnownRows
<1>8. \A f \in Editors : InHand(f)'
  BY <1>0, <1>1, <1>2, <1>3, RowFacts DEF Moved, ScenarioIInv, RowsKept, KnownRows, InHand
<1>9. \A f \in Editors : TargetIsOwn(f)'
  BY <1>0, <1>1, <1>2, <1>3, RowFacts DEF Moved, ScenarioIInv, RowsKept, KnownRows, TargetIsOwn
<1>10. OrphansAreExplained'
  BY <1>0, <1>1, <1>2, <1>3, RowFacts DEF Moved, ScenarioIInv, RowsKept, OrphansAreExplained, Linked, KnownRows
<1>11. Alone'
  BY <1>0, <1>1, <1>2, <1>3, RowFacts DEF Moved, ScenarioIInv, RowsKept, Alone, AloneIn, OnItsWay, Has
<1>12. ShownRight'
  BY <1>2, TablesRest
<1> QED BY <1>4, <1>5, <1>6, <1>7, <1>8, <1>9, <1>10, <1>11, <1>12 DEF Moved, ScenarioIInv, RowsKept

(* What an answered edit makes of the view that is to be shown. *)
LEMMA ShownWithRow ==
  ASSUME NEW s \in Scenarios, NEW m, shown = [t \in Scenarios |-> shown[t]],
         ShownIn(s), scenario[s] = "live", scenario' = scenario, shown' = ShownWith(s, m),
         \A k, v : k # Key(m) => (Draws(s, k, v)' <=> Draws(s, k, v)),
         \A v : Draws(s, Key(m), v)' <=> m.edit # "d" /\ v = m.value
  PROVE  ShownIn(s)' /\ shown' = [t \in Scenarios |-> shown'[t]] /\ \A t \in Scenarios \ {s} : shown'[t] = shown[t]
<1>1. /\ shown' = [t \in Scenarios |-> shown'[t]] /\ \A t \in Scenarios \ {s} : shown'[t] = shown[t]
      /\ shown'[s] = IF m.edit = "d" THEN Without(shown[s], Key(m)) ELSE With(shown[s], Key(m), m.value)
  BY DEF ShownWith
<1>2. \A k, v : k \in DOMAIN shown[s] /\ v = shown[s][k] <=> Draws(s, k, v)
  BY DEF ShownIn
<1>3. \A k, v : k \in DOMAIN shown'[s] /\ v = shown'[s][k] <=> Draws(s, k, v)'
  <2>1. CASE m.edit = "d"
    BY <1>1, <1>2, <2>1 DEF Without
  <2>2. CASE m.edit # "d"
    BY <1>1, <1>2, <2>2 DEF With
  <2> QED BY <2>1, <2>2
<1> QED BY <1>1, <1>3 DEF ShownIn

LEMMA ShownAfterRemoval ==
  ASSUME NEW s \in Scenarios, NEW m, shown = [t \in Scenarios |-> shown[t]],
         ShownIn(s), scenario[s] = "live", scenario' = scenario, shown' = ShownAfterRemove(s, m),
         \A k, v : k # Key(m) => (Draws(s, k, v)' <=> Draws(s, k, v)),
         \A v : Draws(s, Key(m), v)' <=> m.origin # New /\ v = Unedited
  PROVE  ShownIn(s)' /\ shown' = [t \in Scenarios |-> shown'[t]] /\ \A t \in Scenarios \ {s} : shown'[t] = shown[t]
<1>1. /\ shown' = [t \in Scenarios |-> shown'[t]] /\ \A t \in Scenarios \ {s} : shown'[t] = shown[t]
      /\ shown'[s] = IF m.origin = New THEN Without(shown[s], Key(m)) ELSE With(shown[s], Key(m), Unedited)
  BY DEF ShownAfterRemove
<1>2. \A k, v : k \in DOMAIN shown[s] /\ v = shown[s][k] <=> Draws(s, k, v)
  BY DEF ShownIn
<1>3. \A k, v : k \in DOMAIN shown'[s] /\ v = shown'[s][k] <=> Draws(s, k, v)'
  <2>1. CASE m.origin = New
    BY <1>1, <1>2, <2>1 DEF Without
  <2>2. CASE m.origin # New
    BY <1>1, <1>2, <2>2 DEF With
  <2> QED BY <2>1, <2>2
<1> QED BY <1>1, <1>3 DEF ShownIn

(* Without a stale screen, each feature a scenario draws has one row. *)
LEMMA OneRowEach ==
  ASSUME RowsKept, Alone, ~overtaken, NEW s \in Scenarios, NEW m \in rows, Has(s, m)
  PROVE  \A r \in rows : Has(s, r) /\ Key(r) = Key(m) => r = m
<1>1. ScenarioTypeOK
  BY DEF RowsKept
<1> QED BY <1>1, RowFacts DEF RowsKept, UniqueIds, Alone, AloneIn, Key

LEMMA InsertFeatureInv == ASSUME ScenarioIInv, NEW e \in Editors, InsertFeature(e) PROVE ScenarioIInv'
<1> DEFINE m == [id |-> lastRow + 1, origin |-> editor[e].target, edit |-> editor[e].edit, value |-> e]
<1>0. ScenarioTypeOK /\ OrphansAreExplained /\ RowsKept /\ Alone /\ ShownRight
  BY DEF ScenarioIInv, RowsKept
<1>1. lastRow + 1 \in RowIds /\ lastRow + 1 \in 0..MaxRows /\ lastRow + 1 # 0
  BY <1>0, RowFacts, ScenarioAssumption DEF InsertFeature, RowIds
<1>2. /\ editor[e].pc = "insert" /\ lastRow' = lastRow + 1 /\ rows' = rows \cup {m}
      /\ Moved(e, "link", lastRow + 1) /\ UNCHANGED <<scenario, links, shown, overtaken>>
  BY <1>0, <1>1, Inserts DEF InsertFeature
<1>3. /\ \A r \in rows : r.id # lastRow + 1
      /\ \A l \in links : l.row # lastRow + 1
      /\ \A f \in Editors : editor[f].row <= lastRow /\ editor[f].row # lastRow + 1
  BY <1>0, RowFacts DEF RowsKept, KnownRows
<1>4. m \in Row /\ m.id = lastRow + 1 /\ m.origin = editor[e].target /\ m.edit = editor[e].edit /\ m.value = e
      /\ m.origin \in Origin \cup {New}
  BY <1>0, <1>1, <1>2, RowFacts DEF Row, RowsKept, KnownRows
<1>5. \A t, r : Has(t, r)' <=> Has(t, r)
  BY <1>2, <1>3, <1>4 DEF Has
<1>6. \A r \in rows' : r \in rows \/ r = m
  BY <1>2
<1> HIDE DEF m
<1>7. ScenarioTypeOK'
  BY <1>0, <1>1, <1>2, <1>3, <1>4, <1>6, RowFacts DEF Moved, ScenarioTypeOK, RowIds
<1>8. UniqueIds'
  BY <1>0, <1>1, <1>2, <1>3, <1>4, <1>6, RowFacts DEF Moved, ScenarioIInv, RowsKept, UniqueIds
<1>9. OneLink'
  BY <1>0, <1>1, <1>2, <1>3, <1>4, <1>6, RowFacts DEF Moved, ScenarioIInv, RowsKept, OneLink
<1>10. \A f \in Editors : KnownRows(f)'
  BY <1>0, <1>1, <1>2, <1>3, <1>4, <1>6, RowFacts DEF Moved, ScenarioIInv, RowsKept, KnownRows
<1>11. \A f \in Editors : InHand(f)'
  BY <1>0, <1>1, <1>2, <1>3, <1>4, <1>6, RowFacts DEF Moved, ScenarioIInv, RowsKept, KnownRows, InHand
<1>12. \A f \in Editors : TargetIsOwn(f)'
  BY <1>0, <1>1, <1>2, <1>3, <1>4, <1>6, RowFacts DEF Moved, ScenarioIInv, RowsKept, KnownRows, TargetIsOwn
<1>13. OrphansAreExplained'
  BY <1>0, <1>1, <1>2, <1>3, <1>4, <1>6, RowFacts DEF Moved, ScenarioIInv, RowsKept, OrphansAreExplained, Linked, KnownRows
<1>14. Alone'
  <2>1. \A f \in Editors : \A t, o : OnItsWay(f, t, o)' <=> OnItsWay(f, t, o)
    BY <1>2 DEF Moved, OnItsWay
  <2>2. \A t, r : Has(t, r) => r \in rows
    BY DEF Moved, Has
  <2> QED BY <1>0, <1>2, <1>5, <2>1, <2>2 DEF Moved, Alone, AloneIn
<1>15. ShownRight'
  <2>1. \A t, r : Has(t, r) => r \in rows
    BY DEF Moved, Has
  <2>2. \A t, k, v : Draws(t, k, v)' <=> Draws(t, k, v)
    BY <1>2, <1>5, <2>1 DEF Moved, Draws, Key
  <2> QED BY <1>0, <1>2, <2>2 DEF Moved, ShownRight, ShownIn
<1> QED BY <1>7, <1>8, <1>9, <1>10, <1>11, <1>12, <1>13, <1>14, <1>15 DEF Moved, ScenarioIInv, RowsKept

LEMMA InsertLinkInv == ASSUME ScenarioIInv, NEW e \in Editors, InsertLink(e) PROVE ScenarioIInv'
<1> DEFINE mine == {r \in rows : r.id = editor[e].row}
<1>0. ScenarioTypeOK /\ OrphansAreExplained /\ RowsKept /\ Alone /\ ShownRight
  BY DEF ScenarioIInv, RowsKept
<1>1. editor[e].pc = "link" /\ UNCHANGED <<scenario, rows, lastRow, overtaken>>
  BY DEF InsertLink
<1>s. PICK s \in Scenarios : s = editor[e].scenario
  BY <1>0, <1>1 DEF RowsKept, KnownRows
<1>2. /\ s \in Scenarios /\ scenario[s] # "none" /\ editor[e].target \in Origin \cup {New}
      /\ s = editor[e].scenario
      /\ editor[e].row # 0 /\ \A l \in links : l.row # editor[e].row
      /\ \A f \in Editors : editor[f].row = editor[e].row => f = e
  BY <1>0, <1>1, <1>s DEF RowsKept, KnownRows, InHand
<1>3. CASE ~(scenario[s] = "live" /\ mine # {})
  <2>1. Goto(e, "failed") /\ UNCHANGED <<links, shown>>
    BY <1>3, <1>s DEF InsertLink
  <2>2. Moved(e, "failed", editor[e].row)
    BY <1>0, <2>1, EditorGoes DEF Labels
  <2>3. scenario[s] = "gone" \/ \A r \in rows : r.id # editor[e].row
    BY <1>0, <1>2, <1>3 DEF ScenarioTypeOK
  <2>4. ScenarioTypeOK'
    BY <1>0, <1>1, <1>2, <2>1, <2>2, <2>3, RowFacts DEF Moved, ScenarioTypeOK, RowIds
  <2>5. UniqueIds'
    BY <1>0, <1>1, <1>2, <2>1, <2>2, <2>3, RowFacts DEF Moved, ScenarioIInv, RowsKept, UniqueIds
  <2>6. OneLink'
    BY <1>0, <1>1, <1>2, <2>1, <2>2, <2>3, RowFacts DEF Moved, ScenarioIInv, RowsKept, OneLink
  <2>7. \A f \in Editors : KnownRows(f)'
    BY <1>0, <1>1, <1>2, <2>1, <2>2, <2>3, RowFacts DEF Moved, ScenarioIInv, RowsKept, KnownRows
  <2>8. \A f \in Editors : InHand(f)'
    BY <1>0, <1>1, <1>2, <2>1, <2>2, <2>3, RowFacts DEF Moved, ScenarioIInv, RowsKept, KnownRows, InHand
  <2>9. \A f \in Editors : TargetIsOwn(f)'
    BY <1>0, <1>1, <1>2, <2>1, <2>2, <2>3, RowFacts DEF Moved, ScenarioIInv, RowsKept, KnownRows, TargetIsOwn
  <2>10. OrphansAreExplained'
    BY <1>0, <1>1, <1>2, <2>1, <2>2, <2>3, RowFacts DEF Moved, ScenarioIInv, RowsKept, OrphansAreExplained, Linked, KnownRows
  <2>11. Alone'
    BY <1>0, <1>1, <1>2, <2>1, <2>2, <2>3, RowFacts DEF Moved, ScenarioIInv, RowsKept, Alone, AloneIn, OnItsWay, Has
  <2>12. ShownRight'
    BY <1>1, <2>1, TablesRest
  <2> QED BY <2>4, <2>5, <2>6, <2>7, <2>8, <2>9, <2>10, <2>11, <2>12 DEF Moved, ScenarioIInv, RowsKept
<1>4. CASE scenario[s] = "live" /\ mine # {}
  <2>1. PICK m \in rows : m.id = editor[e].row
    BY <1>4
  <2>2. mine = {m}
    BY <1>0, <2>1 DEF RowsKept, UniqueIds
  <2>3. (CHOOSE r \in mine : TRUE) = m
    BY <2>2
  <2>4. /\ links' = links \cup {[scenario |-> s, row |-> m.id]} /\ shown' = ShownWith(s, m) /\ Goto(e, "ok")
    BY <1>4, <1>s, <2>1, <2>3 DEF InsertLink
  <2>5. Moved(e, "ok", editor[e].row)
    BY <1>0, <2>4, EditorGoes DEF Labels
  <2>6. /\ m.origin = editor[e].target /\ m.edit = editor[e].edit /\ m.value = e
        /\ m.id \in RowIds /\ [scenario |-> s, row |-> m.id] \in Link
    BY <1>0, <1>1, <1>2, <2>1, RowFacts DEF RowsKept, InHand, Link
  <2>7. /\ \A t : ~Has(t, m)
        /\ \A t, r : Has(t, r)' <=> Has(t, r) \/ (t = s /\ r = m)
    <3>1. \A t : ~Has(t, m)
      BY <1>2, <2>1 DEF Has
    <3>2. \A r \in rows : r.id = m.id => r = m
      BY <1>0, <2>1 DEF RowsKept, UniqueIds
    <3> QED BY <1>1, <2>1, <2>4, <3>1, <3>2 DEF Has
  <2>8. \A l \in links' : l \in links \/ (l.scenario = s /\ l.row = m.id /\ l = [scenario |-> s, row |-> m.id])
    BY <2>4
  <2>9. scenario[s] = "live" /\ links \subseteq links'
    BY <1>4, <2>4
  <2>10. ScenarioTypeOK'
    BY <1>0, <1>1, <1>2, <2>1, <2>5, <2>6, <2>8, <2>9, RowFacts DEF Moved, ScenarioTypeOK, RowIds
  <2>11. UniqueIds'
    BY <1>0, <1>1, <1>2, <2>1, <2>5, <2>6, <2>8, <2>9, RowFacts DEF Moved, ScenarioIInv, RowsKept, UniqueIds
  <2>12. OneLink'
    BY <1>0, <1>1, <1>2, <2>1, <2>5, <2>6, <2>8, <2>9, RowFacts DEF Moved, ScenarioIInv, RowsKept, OneLink
  <2>13. \A f \in Editors : KnownRows(f)'
    BY <1>0, <1>1, <1>2, <2>1, <2>5, <2>6, <2>8, <2>9, RowFacts DEF Moved, ScenarioIInv, RowsKept, KnownRows
  <2>14. \A f \in Editors : InHand(f)'
    BY <1>0, <1>1, <1>2, <2>1, <2>5, <2>6, <2>8, <2>9, RowFacts DEF Moved, ScenarioIInv, RowsKept, KnownRows, InHand
  <2>15. \A f \in Editors : TargetIsOwn(f)'
    <3>1. \A f \in Editors : editor[f].pc \in {"lookup", "update", "remove"} => editor[f].target # m.id
      BY <1>0, <1>1, <2>1 DEF Moved, RowsKept, InHand
    <3> QED BY <1>0, <1>1, <2>5, <2>8, <2>9, <3>1 DEF Moved, RowsKept, TargetIsOwn
  <2>16. OrphansAreExplained'
    <3>1. Linked(m)'
      <4>1. [scenario |-> s, row |-> m.id].row = m.id /\ [scenario |-> s, row |-> m.id] \in links'
        BY <2>4
      <4> QED BY <4>1 DEF Moved, Linked
    <3>2. \A r \in rows : (Linked(r) => Linked(r)') /\ (r.id = editor[e].row => r = m)
      BY <1>0, <2>1, <2>9 DEF Moved, Linked, RowsKept, UniqueIds
    <3> QED BY <1>0, <1>1, <2>5, <3>1, <3>2 DEF Moved, OrphansAreExplained
  <2>17. Alone'
    <3>1. \A f \in Editors : \A t, o : OnItsWay(f, t, o)' <=> OnItsWay(f, t, o) /\ f # e
      BY <1>1, <2>5 DEF Moved, OnItsWay
    <3>2. OnItsWay(e, s, m.origin)
      BY <1>1, <1>2, <2>6 DEF Moved, OnItsWay
    <3> QED BY <1>0, <1>1, <1>2, <2>1, <2>7, <3>1, <3>2 DEF Moved, Alone, AloneIn
  <2>18. ShownRight'
    <3> SUFFICES ASSUME shown = [t \in Scenarios |-> shown[t]]
                 PROVE  /\ shown' = [t \in Scenarios |-> shown'[t]]
                        /\ ~overtaken => \A t \in Scenarios : ShownIn(t)'
      BY <1>0, <1>1 DEF Moved, ShownRight
    <3>1. shown' = [t \in Scenarios |-> shown'[t]] /\ \A t \in Scenarios \ {s} : shown'[t] = shown[t]
      BY <2>4 DEF Moved, ShownWith
    <3> SUFFICES ASSUME ~overtaken, NEW t \in Scenarios PROVE ShownIn(t)'
      BY <3>1
    <3>2. CASE t # s
      <4>1. \A k, v : Draws(t, k, v)' <=> Draws(t, k, v)
        BY <1>1, <2>7, <3>2 DEF Moved, Draws, Key
      <4> QED BY <1>0, <1>1, <3>1, <3>2, <4>1 DEF Moved, ShownRight, ShownIn
    <3>3. CASE t = s
      <4>1. \A r \in rows : Has(s, r) => Key(r) # Key(m)
        <5>1. OnItsWay(e, s, m.origin)
          BY <1>1, <1>2, <2>6 DEF Moved, OnItsWay
        <5>2. \A r \in rows : Has(s, r) /\ m.origin \in Origin => r.origin # m.origin
          BY <1>0, <1>2, <5>1 DEF Moved, Alone, AloneIn
        <5>3. \A r \in rows : Has(s, r) => r.id # m.id
          BY <1>2, <2>1 DEF Moved, Has
        <5> QED BY <1>0, <2>1, <5>2, <5>3, RowFacts DEF Moved, Key
      <4>2. Key(m) \in Origin => m.origin = Key(m)
        BY <1>0, <2>1, RowFacts DEF Moved, Key
      <4>3. \A o \in Origin : m.origin = o => Key(m) = o
        BY <1>0, RowFacts DEF Moved, Key
      <4>4. \A t1, r : Has(t1, r) => r \in rows
        BY DEF Moved, Has
      <4>5. \A v : Draws(s, Key(m), v)' <=> m.edit # "d" /\ v = m.value
        BY <1>1, <2>1, <2>7, <4>1, <4>2, <4>4 DEF Moved, Draws, Key
      <4>6. \A k, v : k # Key(m) => (Draws(s, k, v)' <=> Draws(s, k, v))
        BY <1>1, <2>1, <2>7, <4>3 DEF Moved, Draws, Key
      <4> QED BY <1>0, <1>1, <1>2, <2>4, <2>9, <3>3, <4>5, <4>6, ShownWithRow DEF Moved, ShownRight
    <3> QED BY <3>2, <3>3
  <2> QED BY <2>10, <2>11, <2>12, <2>13, <2>14, <2>15, <2>16, <2>17, <2>18 DEF Moved, ScenarioIInv, RowsKept
<1> QED BY <1>3, <1>4

LEMMA UpdateFeatureInv == ASSUME ScenarioIInv, NEW e \in Editors, UpdateFeature(e) PROVE ScenarioIInv'
<1> DEFINE mine == {r \in rows : r.id = editor[e].target}
<1>0. ScenarioTypeOK /\ OrphansAreExplained /\ RowsKept /\ Alone /\ ShownRight
  BY DEF ScenarioIInv, RowsKept
<1>1. editor[e].pc = "update" /\ UNCHANGED <<scenario, links, lastRow, overtaken>>
  BY DEF UpdateFeature
<1>s. PICK s \in Scenarios : s = editor[e].scenario
  BY <1>0, <1>1 DEF RowsKept, KnownRows
<1>2. /\ s = editor[e].scenario /\ scenario[s] \in {"live", "gone"}
      /\ \A r \in rows : r.id = editor[e].target =>
            [scenario |-> s, row |-> r.id] \in links \/ scenario[s] = "gone"
      /\ \A l \in links : l.row = editor[e].target => l.scenario = s
      /\ \A f \in Editors : editor[f].pc = "link" => editor[f].row # editor[e].target
  BY <1>0, <1>1, <1>s DEF RowsKept, KnownRows, TargetIsOwn, InHand, ScenarioTypeOK
<1>3. CASE mine = {}
  <2>1. Goto(e, "failed") /\ UNCHANGED <<rows, shown>>
    BY <1>3 DEF UpdateFeature
  <2>2. Moved(e, "failed", editor[e].row) /\ editor[e].row = 0
    BY <1>0, <1>1, <2>1, EditorGoes DEF Labels, RowsKept, KnownRows
  <2>3. ScenarioTypeOK'
    BY <1>0, <1>1, <2>1, <2>2, RowFacts DEF Moved, ScenarioTypeOK, RowIds
  <2>4. UniqueIds'
    BY <1>0, <1>1, <2>1, <2>2, RowFacts DEF Moved, ScenarioIInv, RowsKept, UniqueIds
  <2>5. OneLink'
    BY <1>0, <1>1, <2>1, <2>2, RowFacts DEF Moved, ScenarioIInv, RowsKept, OneLink
  <2>6. \A f \in Editors : KnownRows(f)'
    BY <1>0, <1>1, <2>1, <2>2, RowFacts DEF Moved, ScenarioIInv, RowsKept, KnownRows
  <2>7. \A f \in Editors : InHand(f)'
    BY <1>0, <1>1, <2>1, <2>2, RowFacts DEF Moved, ScenarioIInv, RowsKept, KnownRows, InHand
  <2>8. \A f \in Editors : TargetIsOwn(f)'
    BY <1>0, <1>1, <2>1, <2>2, RowFacts DEF Moved, ScenarioIInv, RowsKept, KnownRows, TargetIsOwn
  <2>9. OrphansAreExplained'
    BY <1>0, <1>1, <2>1, <2>2, RowFacts DEF Moved, ScenarioIInv, RowsKept, OrphansAreExplained, Linked, KnownRows
  <2>10. Alone'
    BY <1>0, <1>1, <2>1, <2>2, RowFacts DEF Moved, ScenarioIInv, RowsKept, Alone, AloneIn, OnItsWay, Has
  <2>11. ShownRight'
    BY <1>1, <2>1, TablesRest
  <2> QED BY <2>3, <2>4, <2>5, <2>6, <2>7, <2>8, <2>9, <2>10, <2>11 DEF Moved, ScenarioIInv, RowsKept
<1>4. CASE mine # {}
  <2>1. PICK old \in rows : old.id = editor[e].target
    BY <1>4
  <2>2. mine = {old}
    BY <1>0, <2>1 DEF RowsKept, UniqueIds
  <2>3. (CHOOSE r \in mine : TRUE) = old
    BY <2>2
  <2> DEFINE new == [old EXCEPT !.value = e]
  <2>4. /\ rows' = (rows \ {old}) \cup {new} /\ shown' = ShownWith(s, new) /\ Goto(e, "ok")
    BY <1>s, <1>4, <2>3 DEF UpdateFeature
  <2>5. Moved(e, "ok", editor[e].row) /\ editor[e].row = 0
    BY <1>0, <1>1, <2>4, EditorGoes DEF Labels, RowsKept, KnownRows
  <2>6. old \in Row /\ new \in Row /\ new.id = old.id /\ new.origin = old.origin /\ new.edit = old.edit
        /\ new.value = e
    BY <1>0, <2>1 DEF ScenarioTypeOK, Row
  <2> HIDE DEF new
  <2>7. \A r \in rows : r.id = old.id => r = old
    BY <1>0, <2>1 DEF RowsKept, UniqueIds
  <2>8. /\ \A r \in rows' : (r \in rows /\ r.id # old.id) \/ r = new
        /\ new \in rows' /\ \A r \in rows : r # old => r \in rows'
    BY <2>4, <2>7
  <2>9. /\ \A t : Has(t, new)' <=> Has(t, old)
        /\ \A t, r : r # new => (Has(t, r)' <=> Has(t, r) /\ r # old)
        /\ \A t \in Scenarios \ {s} : ~Has(t, old)
    <3>1. \A t : [scenario |-> t, row |-> old.id].row = old.id /\ [scenario |-> t, row |-> old.id].scenario = t
      OBVIOUS
    <3>2. \A t \in Scenarios \ {s} : ~Has(t, old)
      BY <1>2, <2>1, <3>1 DEF Has
    <3> QED BY <1>1, <2>1, <2>4, <2>6, <2>8, <3>2 DEF Has
  <2>10. \A r \in rows : Linked(r)' <=> Linked(r)
    BY <1>1 DEF Linked
  <2>11. Linked(new)' <=> Linked(old)
    BY <1>1, <2>6 DEF Linked
  <2>12. ScenarioTypeOK'
    BY <1>0, <1>1, <1>2, <2>1, <2>5, <2>6, <2>7, <2>8, RowFacts DEF Moved, ScenarioTypeOK, RowIds
  <2>13. UniqueIds'
    BY <1>0, <1>1, <1>2, <2>1, <2>5, <2>6, <2>7, <2>8, RowFacts DEF Moved, ScenarioIInv, RowsKept, UniqueIds
  <2>14. OneLink'
    BY <1>0, <1>1, <1>2, <2>1, <2>5, <2>6, <2>7, <2>8, RowFacts DEF Moved, ScenarioIInv, RowsKept, OneLink
  <2>15. \A f \in Editors : KnownRows(f)'
    BY <1>0, <1>1, <1>2, <2>1, <2>5, <2>6, <2>7, <2>8, RowFacts DEF Moved, ScenarioIInv, RowsKept, KnownRows
  <2>16. \A f \in Editors : InHand(f)'
    BY <1>0, <1>1, <1>2, <2>1, <2>5, <2>6, <2>7, <2>8, RowFacts DEF Moved, ScenarioIInv, RowsKept, KnownRows, InHand
  <2>17. \A f \in Editors : TargetIsOwn(f)'
    BY <1>0, <1>1, <1>2, <2>1, <2>5, <2>6, <2>7, <2>8, RowFacts DEF Moved, ScenarioIInv, RowsKept, KnownRows, TargetIsOwn
  <2>18. OrphansAreExplained'
    BY <1>0, <1>1, <2>1, <2>5, <2>6, <2>8, <2>10, <2>11 DEF Moved, OrphansAreExplained
  <2>19. Alone'
    <3>1. \A f \in Editors : \A t, o : OnItsWay(f, t, o)' => OnItsWay(f, t, o)
      BY <1>1, <2>5 DEF Moved, OnItsWay
    <3> SUFFICES ASSUME ~overtaken, NEW t \in Scenarios, NEW o \in Origin
                 PROVE  /\ \A r, q \in rows' : Has(t, r)' /\ Has(t, q)' /\ r.origin = o /\ q.origin = o => r = q
                        /\ \A r \in rows', f \in Editors : Has(t, r)' /\ r.origin = o => ~OnItsWay(f, t, o)'
                        /\ \A f, g \in Editors : OnItsWay(f, t, o)' /\ OnItsWay(g, t, o)' => f = g
      BY <1>1 DEF Moved, Alone, AloneIn
    <3>2. /\ \A r, q \in rows : Has(t, r) /\ Has(t, q) /\ r.origin = o /\ q.origin = o => r = q
          /\ \A r \in rows, f \in Editors : Has(t, r) /\ r.origin = o => ~OnItsWay(f, t, o)
          /\ \A f, g \in Editors : OnItsWay(f, t, o) /\ OnItsWay(g, t, o) => f = g
      BY <1>0 DEF Moved, Alone, AloneIn
    <3>3. \A r \in rows' : Has(t, r)' => \E q \in rows : Has(t, q) /\ q.origin = r.origin
                                             /\ (r = new => q = old) /\ (r # new => q = r /\ q # old)
      BY <2>1, <2>6, <2>8, <2>9
    <3> QED BY <3>1, <3>2, <3>3
  <2>20. ShownRight'
    <3> SUFFICES ASSUME shown = [t \in Scenarios |-> shown[t]]
                 PROVE  /\ shown' = [t \in Scenarios |-> shown'[t]]
                        /\ ~overtaken => \A t \in Scenarios : ShownIn(t)'
      BY <1>0, <1>1 DEF Moved, ShownRight
    <3>1. shown' = [t \in Scenarios |-> shown'[t]] /\ \A t \in Scenarios \ {s} : shown'[t] = shown[t]
      BY <2>4 DEF Moved, ShownWith
    <3> SUFFICES ASSUME ~overtaken, NEW t \in Scenarios PROVE ShownIn(t)'
      BY <3>1
    <3>0. /\ \A u, r : Has(u, r) => r \in rows
          /\ \A u, r : Has(u, r)' => r \in rows'
          /\ Key(new) = Key(old)
      BY <2>6 DEF Moved, Has, Key
    <3>2. CASE t # s
      <4>1. \A r : Has(t, r)' <=> Has(t, r)
        BY <2>9, <3>0, <3>2, <2>4, <2>7, <2>8, <2>6
      <4>2. \A k, v : Draws(t, k, v)' <=> Draws(t, k, v)
        BY <3>0, <4>1 DEF Moved, Draws, Key
      <4> QED BY <1>0, <1>1, <3>1, <3>2, <4>2 DEF Moved, ShownRight, ShownIn
    <3>3. CASE t = s /\ scenario[s] = "gone"
      BY <1>1, <3>3 DEF Moved, ShownIn
    <3>4. CASE t = s /\ scenario[s] = "live"
      <4>1. Has(s, old)
        BY <1>2, <2>1, <3>4 DEF Moved, Has
      <4>2. \A r \in rows : Has(s, r) /\ Key(r) = Key(old) => r = old
        BY <1>0, <2>1, <4>1, OneRowEach
      <4>3. \A r : Has(s, r)' <=> r = new \/ (Has(s, r) /\ r # old)
        BY <2>9, <4>1, <3>0, <2>7, <2>6, <2>8
      <4>4. \A o \in Origin : old.origin = o => Key(old) = o
        BY <1>0, RowFacts DEF Moved, Key
      <4>5. Key(old) \in Origin => old.origin = Key(old)
        BY <1>0, <2>1, RowFacts DEF Moved, Key
      <4>6. \A v : Draws(s, Key(new), v)' <=> new.edit # "d" /\ v = new.value
        BY <2>6, <2>8, <3>0, <4>2, <4>3, <4>5 DEF Moved, Draws, Key
      <4>7. \A k, v : k # Key(new) => (Draws(s, k, v)' <=> Draws(s, k, v))
        BY <2>1, <2>6, <2>8, <3>0, <4>1, <4>3, <4>4 DEF Moved, Draws, Key
      <4> QED BY <1>0, <1>1, <2>4, <3>4, <4>6, <4>7, ShownWithRow DEF Moved, ShownRight
    <3> QED BY <1>2, <3>2, <3>3, <3>4
  <2> QED BY <2>12, <2>13, <2>14, <2>15, <2>16, <2>17, <2>18, <2>19, <2>20 DEF Moved, ScenarioIInv, RowsKept
<1> QED BY <1>3, <1>4

LEMMA RemoveFeatureInv == ASSUME ScenarioIInv, NEW e \in Editors, RemoveFeature(e) PROVE ScenarioIInv'
<1> DEFINE mine == {r \in rows : r.id = editor[e].target}
<1>0. ScenarioTypeOK /\ OrphansAreExplained /\ RowsKept /\ Alone /\ ShownRight
  BY DEF ScenarioIInv, RowsKept
<1>1. editor[e].pc = "remove" /\ UNCHANGED <<scenario, lastRow, overtaken>> /\ Goto(e, "ok")
  BY DEF RemoveFeature
<1>s. PICK s \in Scenarios : s = editor[e].scenario
  BY <1>0, <1>1 DEF RowsKept, KnownRows
<1>2. /\ s = editor[e].scenario /\ scenario[s] \in {"live", "gone"} /\ editor[e].target \in RowIds
      /\ \A r \in rows : r.id = editor[e].target =>
            [scenario |-> s, row |-> r.id] \in links \/ scenario[s] = "gone"
      /\ \A l \in links : l.row = editor[e].target => l.scenario = s
      /\ rows' = rows \ mine /\ links' = {l \in links : l.row # editor[e].target}
      /\ shown' = IF mine = {} THEN shown ELSE ShownAfterRemove(s, CHOOSE r \in mine : TRUE)
  BY <1>0, <1>1, <1>s DEF RowsKept, KnownRows, TargetIsOwn, ScenarioTypeOK, RemoveFeature
<1>3. Moved(e, "ok", editor[e].row) /\ editor[e].row = 0
  BY <1>0, <1>1, EditorGoes DEF Labels, RowsKept, KnownRows
<1>4. /\ \A r : r \in rows' <=> r \in rows /\ r.id # editor[e].target
      /\ \A l : l \in links' <=> l \in links /\ l.row # editor[e].target
  BY <1>2
<1>5. \A t, r : Has(t, r)' <=> Has(t, r) /\ r.id # editor[e].target
  BY <1>2, <1>4 DEF Has
<1>6. \A t \in Scenarios \ {s} : \A r : Has(t, r) => r.id # editor[e].target
  <2>1. \A t, r : [scenario |-> t, row |-> r].row = r /\ [scenario |-> t, row |-> r].scenario = t
    OBVIOUS
  <2> QED BY <1>2, <2>1 DEF Has
<1>7. \A r \in rows' : r \in rows /\ (Linked(r)' <=> Linked(r))
  BY <1>4 DEF Linked
<1> HIDE DEF mine
<1>8. ScenarioTypeOK'
  BY <1>0, <1>1, <1>2, <1>3, <1>4, RowFacts DEF Moved, ScenarioTypeOK, RowIds
<1>9. UniqueIds'
  BY <1>0, <1>1, <1>2, <1>3, <1>4, RowFacts DEF Moved, ScenarioIInv, RowsKept, UniqueIds
<1>10. OneLink'
  BY <1>0, <1>1, <1>2, <1>3, <1>4, RowFacts DEF Moved, ScenarioIInv, RowsKept, OneLink
<1>11. \A f \in Editors : KnownRows(f)'
  BY <1>0, <1>1, <1>2, <1>3, <1>4, RowFacts DEF Moved, ScenarioIInv, RowsKept, KnownRows
<1>12. \A f \in Editors : InHand(f)'
  BY <1>0, <1>1, <1>2, <1>3, <1>4, RowFacts DEF Moved, ScenarioIInv, RowsKept, KnownRows, InHand
<1>13. \A f \in Editors : TargetIsOwn(f)'
  BY <1>0, <1>1, <1>2, <1>3, <1>4, RowFacts DEF Moved, ScenarioIInv, RowsKept, KnownRows, TargetIsOwn
<1>14. OrphansAreExplained'
  BY <1>0, <1>1, <1>3, <1>7 DEF Moved, OrphansAreExplained
<1>15. Alone'
  <2>1. \A f \in Editors : \A t, o : OnItsWay(f, t, o)' => OnItsWay(f, t, o)
    BY <1>1, <1>3 DEF Moved, OnItsWay
  <2>2. rows' \subseteq rows /\ \A t, r : Has(t, r)' => Has(t, r)
    BY <1>4, <1>5
  <2> QED BY <1>0, <1>1, <2>1, <2>2 DEF Moved, Alone, AloneIn
<1>16. ShownRight'
  <2> SUFFICES ASSUME shown = [t \in Scenarios |-> shown[t]]
               PROVE  /\ shown' = [t \in Scenarios |-> shown'[t]]
                      /\ ~overtaken => \A t \in Scenarios : ShownIn(t)'
    BY <1>0, <1>1 DEF Moved, ShownRight
  <2>0. \A u, r : Has(u, r) => r \in rows
    BY DEF Moved, Has
  <2>1. shown' = [t \in Scenarios |-> shown'[t]] /\ \A t \in Scenarios \ {s} : shown'[t] = shown[t]
    BY <1>2 DEF Moved, ShownAfterRemove
  <2> SUFFICES ASSUME ~overtaken, NEW t \in Scenarios PROVE ShownIn(t)'
    BY <2>1
  <2>2. CASE t # s
    <3>1. \A r : Has(t, r)' <=> Has(t, r)
      BY <1>5, <1>6, <2>2
    <3>2. \A k, v : Draws(t, k, v)' <=> Draws(t, k, v)
      BY <1>4, <1>5, <2>0, <3>1 DEF Moved, Draws, Key
    <3> QED BY <1>0, <1>1, <2>1, <2>2, <3>2 DEF Moved, ShownRight, ShownIn
  <2>3. CASE t = s /\ scenario[s] = "gone"
    BY <1>1, <2>3 DEF Moved, ShownIn
  <2>4. CASE t = s /\ scenario[s] = "live" /\ mine = {}
    <3>1. \A r : r \in rows => r.id # editor[e].target
      BY <2>4 DEF Moved, mine
    <3>2. \A r : Has(s, r)' <=> Has(s, r)
      BY <1>5, <2>0, <3>1
    <3>3. \A k, v : Draws(s, k, v)' <=> Draws(s, k, v)
      BY <1>4, <2>0, <3>1, <3>2 DEF Moved, Draws, Key
    <3> QED BY <1>0, <1>1, <1>2, <2>4, <3>3 DEF Moved, ShownRight, ShownIn
  <2>5. CASE t = s /\ scenario[s] = "live" /\ mine # {}
    <3>1. PICK old \in rows : old.id = editor[e].target
      BY <2>5 DEF Moved, mine
    <3>2. mine = {old}
      BY <1>0, <3>1 DEF Moved, RowsKept, UniqueIds, mine
    <3>3. shown' = ShownAfterRemove(s, old)
      <4>1. (CHOOSE r \in mine : TRUE) = old
        BY <3>2
      <4> QED BY <1>2, <2>5, <4>1
    <3>4. Has(s, old)
      BY <1>2, <2>5, <3>1 DEF Moved, Has
    <3>5. \A r \in rows : Has(s, r) /\ Key(r) = Key(old) => r = old
      BY <1>0, <3>1, <3>4, OneRowEach
    <3>6. /\ \A r \in rows : r.id = editor[e].target <=> r = old
          /\ \A r : Has(s, r)' <=> Has(s, r) /\ r # old
      BY <1>0, <1>5, <2>0, <3>1 DEF Moved, RowsKept, UniqueIds
    <3>7. /\ \A o \in Origin : old.origin = o => Key(old) = o
          /\ Key(old) \in Origin => old.origin = Key(old)
          /\ old.origin # New => old.origin \in Origin /\ Key(old) = old.origin
          /\ old.origin = New => Key(old) \notin Origin
      BY <1>0, <3>1, RowFacts DEF Moved, Key
    <3>8. \A v : Draws(s, Key(old), v)' <=> old.origin # New /\ v = Unedited
      <4>1. \A r \in rows' : Has(s, r)' => r \in rows /\ Key(r) # Key(old)
        BY <1>4, <3>5, <3>6
      <4>2. \A r \in rows', o \in Origin : r.origin = o => Key(r) = o
        BY <1>0, RowFacts DEF Moved, Key
      <4> QED BY <3>7, <4>1, <4>2 DEF Moved, Draws, Key
    <3>9. \A k, v : k # Key(old) => (Draws(s, k, v)' <=> Draws(s, k, v))
      BY <1>4, <2>0, <3>1, <3>6, <3>7 DEF Moved, Draws, Key
    <3> QED BY <1>0, <1>1, <2>5, <3>3, <3>8, <3>9, ShownAfterRemoval DEF Moved, ShownRight
  <2> QED BY <1>2, <2>2, <2>3, <2>4, <2>5
<1> QED BY <1>8, <1>9, <1>10, <1>11, <1>12, <1>13, <1>14, <1>15, <1>16 DEF Moved, ScenarioIInv, RowsKept

LEMMA DropScenarioInv == ASSUME ScenarioIInv, NEW e \in Editors, DropScenario(e) PROVE ScenarioIInv'
<1>0. ScenarioTypeOK /\ OrphansAreExplained /\ RowsKept /\ Alone /\ ShownRight
  BY DEF ScenarioIInv, RowsKept
<1>1. editor[e].pc = "drop" /\ UNCHANGED <<rows, lastRow, shown, overtaken>> /\ Goto(e, "sweep")
  BY DEF DropScenario
<1>s. PICK s \in Scenarios : s = editor[e].scenario
  BY <1>0, <1>1 DEF RowsKept, KnownRows
<1>2. /\ s = editor[e].scenario /\ scenario[s] # "none" /\ scenario'[s] = "gone"
      /\ \A t \in Scenarios \ {s} : scenario'[t] = scenario[t]
      /\ scenario' \in [Scenarios -> {"none", "live", "gone"}]
      /\ links' = {l \in links : l.scenario # s}
  BY <1>0, <1>1, <1>s DEF RowsKept, KnownRows, ScenarioTypeOK, DropScenario
<1>3. Moved(e, "sweep", editor[e].row) /\ editor[e].row = 0 /\ editor[e].target = New
  BY <1>0, <1>1, EditorGoes DEF Labels, RowsKept, KnownRows
<1>4. \A l : l \in links' <=> l \in links /\ l.scenario # s
  BY <1>2
<1>5. \A t, r : Has(t, r)' <=> Has(t, r) /\ t # s
  BY <1>1, <1>4 DEF Has
<1>6. ScenarioTypeOK'
  BY <1>0, <1>1, <1>2, <1>3, <1>4, RowFacts DEF Moved, ScenarioTypeOK, RowIds
<1>7. UniqueIds'
  BY <1>0, <1>1, <1>2, <1>3, <1>4, RowFacts DEF Moved, ScenarioIInv, RowsKept, UniqueIds
<1>8. OneLink'
  BY <1>0, <1>1, <1>2, <1>3, <1>4, RowFacts DEF Moved, ScenarioIInv, RowsKept, OneLink
<1>9. \A f \in Editors : KnownRows(f)'
  BY <1>0, <1>1, <1>2, <1>3, <1>4, RowFacts DEF Moved, ScenarioIInv, RowsKept, KnownRows
<1>10. \A f \in Editors : InHand(f)'
  BY <1>0, <1>1, <1>2, <1>3, <1>4, RowFacts DEF Moved, ScenarioIInv, RowsKept, KnownRows, InHand
<1>11. \A f \in Editors : TargetIsOwn(f)'
  <2>1. \A t, r : [scenario |-> t, row |-> r].scenario = t
    OBVIOUS
  <2> QED BY <1>0, <1>1, <1>2, <1>3, <1>4, <2>1, RowFacts DEF Moved, RowsKept, KnownRows, TargetIsOwn
<1>12. OrphansAreExplained'
  BY <1>0, <1>1, <1>2, <1>3, <1>4, RowFacts DEF Moved, ScenarioIInv, RowsKept, OrphansAreExplained, Linked, KnownRows
<1>13. Alone'
  <2>1. \A t : \A f \in Editors, o \in Origin : OnItsWay(f, t, o)' <=> OnItsWay(f, t, o)
    BY <1>0, <1>1, <1>3, RowFacts DEF Moved, OnItsWay
  <2>2. \A t, r : Has(t, r)' => Has(t, r)
    BY <1>5
  <2> QED BY <1>0, <1>1, <2>1, <2>2 DEF Moved, Alone, AloneIn
<1>14. ShownRight'
  <2>1. \A t \in Scenarios \ {s} : \A k, v : Draws(t, k, v)' <=> Draws(t, k, v)
    BY <1>1, <1>5 DEF Moved, Draws, Key
  <2>2. \A t \in Scenarios : ShownIn(t) => ShownIn(t)'
    BY <1>1, <1>2, <2>1 DEF Moved, ShownIn
  <2> QED BY <1>0, <1>1, <2>2 DEF Moved, ShownRight
<1> QED BY <1>6, <1>7, <1>8, <1>9, <1>10, <1>11, <1>12, <1>13, <1>14 DEF Moved, ScenarioIInv, RowsKept

LEMMA delete_orphansInv == ASSUME ScenarioIInv, NEW e \in Editors, delete_orphans(e) PROVE ScenarioIInv'
<1>0. ScenarioTypeOK /\ OrphansAreExplained /\ RowsKept /\ Alone /\ ShownRight
  BY DEF ScenarioIInv, RowsKept
<1>1. /\ editor[e].pc = "sweep" /\ rows' = {r \in rows : Linked(r)} /\ Goto(e, "ok")
      /\ UNCHANGED <<scenario, links, lastRow, shown, overtaken>>
  BY DEF delete_orphans
<1>2. Moved(e, "ok", editor[e].row) /\ editor[e].row = 0 /\ editor[e].target = New
  BY <1>0, <1>1, EditorGoes DEF Labels, RowsKept, KnownRows
<1>3. \A r : r \in rows' <=> r \in rows /\ Linked(r)
  BY <1>1
<1>4. \A t, r : Has(t, r)' <=> Has(t, r)
  <2>1. \A t, r : [scenario |-> t, row |-> r.id].row = r.id
    OBVIOUS
  <2> QED BY <1>1, <1>3, <2>1 DEF Has, Linked
<1>5. \A r \in rows' : Linked(r)'
  BY <1>1, <1>3 DEF Linked
<1>6. ScenarioTypeOK'
  BY <1>0, <1>1, <1>2, <1>3 DEF Moved, ScenarioTypeOK, Linked
<1>7. UniqueIds'
  BY <1>0, <1>1, <1>2, <1>3, RowFacts DEF Moved, ScenarioIInv, RowsKept, UniqueIds
<1>8. OneLink'
  BY <1>0, <1>1, <1>2, <1>3, RowFacts DEF Moved, ScenarioIInv, RowsKept, OneLink
<1>9. \A f \in Editors : KnownRows(f)'
  BY <1>0, <1>1, <1>2, <1>3, RowFacts DEF Moved, ScenarioIInv, RowsKept, KnownRows
<1>10. \A f \in Editors : InHand(f)'
  BY <1>0, <1>1, <1>2, <1>3, RowFacts DEF Moved, ScenarioIInv, RowsKept, KnownRows, InHand
<1>11. \A f \in Editors : TargetIsOwn(f)'
  BY <1>0, <1>1, <1>2, <1>3, RowFacts DEF Moved, ScenarioIInv, RowsKept, KnownRows, TargetIsOwn
<1>12. OrphansAreExplained'
  BY <1>5 DEF Moved, OrphansAreExplained
<1>13. Alone'
  <2>1. \A t : \A f \in Editors, o \in Origin : OnItsWay(f, t, o)' => OnItsWay(f, t, o)
    BY <1>0, <1>1, <1>2, RowFacts DEF Moved, OnItsWay
  <2> QED BY <1>0, <1>1, <1>3, <1>4, <2>1 DEF Moved, Alone, AloneIn
<1>14. ShownRight'
  <2>1. \A t, r : Has(t, r) => r \in rows /\ r \in rows'
    BY <1>4 DEF Moved, Has
  <2>2. \A t, k, v : Draws(t, k, v)' <=> Draws(t, k, v)
    BY <1>3, <1>4, <2>1 DEF Moved, Draws, Key
  <2>3. \A t \in Scenarios : ShownIn(t) => ShownIn(t)'
    BY <1>1, <2>2 DEF Moved, ShownIn
  <2> QED BY <1>0, <1>1, <2>3 DEF Moved, ShownRight
<1> QED BY <1>6, <1>7, <1>8, <1>9, <1>10, <1>11, <1>12, <1>13, <1>14 DEF Moved, ScenarioIInv, RowsKept

LEMMA ScenarioNextInv == ASSUME ScenarioIInv, [ScenarioNext]_scenarioVars PROVE ScenarioIInv'
<1>1. ASSUME NEW s \in Scenarios, CreateScenario(s) PROVE ScenarioIInv'
  BY <1>1, CreateScenarioInv
<1>2. ASSUME NEW e \in Editors, NEW s \in Scenarios,
             SendCreate(e, s) \/ SendUpdate(e, s) \/ SendDelete(e, s) \/ SendDrop(e, s)
      PROVE  ScenarioIInv'
  BY <1>2, SendCreateInv, SendDropInv, SendEditInv DEF SendUpdate, SendDelete
<1>3. ASSUME NEW e \in Editors,
             \/ LookupUpdate(e) \/ LookupDelete(e) \/ InsertFeature(e) \/ InsertLink(e)
             \/ UpdateFeature(e) \/ RemoveFeature(e) \/ DropScenario(e) \/ delete_orphans(e)
      PROVE  ScenarioIInv'
  BY <1>3, LookupUpdateInv, LookupDeleteInv, InsertFeatureInv, InsertLinkInv, UpdateFeatureInv,
     RemoveFeatureInv, DropScenarioInv, delete_orphansInv, Zenon
<1>4. CASE UNCHANGED scenarioVars
  <2>1. UNCHANGED <<scenario, rows, links, lastRow, editor, shown, overtaken>>
    BY <1>4 DEF scenarioVars
  <2>2. RowsKept' /\ OrphansAreExplained' /\ Alone'
    BY <2>1 DEF ScenarioIInv, RowsKept, ScenarioTypeOK, UniqueIds, OneLink, KnownRows, InHand, TargetIsOwn, OrphansAreExplained,
                Linked, Alone, AloneIn, OnItsWay, Has
  <2>3. ShownRight'
    BY <2>1, TablesRest
  <2> QED BY <2>2, <2>3 DEF ScenarioIInv
<1> QED BY <1>1, <1>2, <1>3, <1>4 DEF ScenarioNext

-----------------------------------------------------------------------------
(* Rows, links and requests fit each other in every reachable state.       *)
THEOREM ScenarioInvariance == ScenarioSpec => []ScenarioIInv
BY ScenarioInitInv, ScenarioNextInv, PTL DEF ScenarioSpec

(* Every table keeps its type, ids are given out in order, and no link     *)
(* names a scenario or a feature that has gone.                            *)
THEOREM ScenarioTypeCorrect == ScenarioSpec => []ScenarioTypeOK
BY ScenarioInvariance, PTL DEF ScenarioIInv, RowsKept

(* Scenario features without a link are about to be linked, were refused,  *)
(* or are about to be swept.                                               *)
THEOREM OrphansExplained == ScenarioSpec => []OrphansAreExplained
BY ScenarioInvariance, PTL DEF ScenarioIInv

(* As long as no feature is edited from a stale screen, every scenario     *)
(* shows exactly the edits that were answered.                             *)
THEOREM EditsAreShown == ScenarioSpec => []ScenarioShowsItsEdits
<1>1. ASSUME ScenarioIInv PROVE ScenarioShowsItsEdits
  <2> SUFFICES ASSUME ~overtaken, NEW s \in Scenarios, scenario[s] = "live"
               PROVE  Overlay(s) = {[id |-> k, value |-> shown[s][k]] : k \in DOMAIN shown[s]}
    BY DEF ScenarioShowsItsEdits
  <2>1. \A k, v : k \in DOMAIN shown[s] /\ v = shown[s][k] <=> Draws(s, k, v)
    BY <1>1 DEF ScenarioIInv, ShownRight, ShownIn
  <2>2. ScenarioTypeOK
    BY <1>1 DEF ScenarioIInv, RowsKept
  <2>3. \A x : x \in Untouched(s) <=>
                 \E o \in Origin : x = [id |-> o, value |-> Unedited] /\ \A r \in rows : Has(s, r) => r.origin # o
    BY DEF Untouched, RowsOf, Has
  <2>4. \A r \in rows : r.edit \in {"n", "m"} <=> r.edit # "d"
    BY <2>2 DEF ScenarioTypeOK, Row
  <2>5. \A x : x \in Drawn(s) <=>
                 \E r \in rows : Has(s, r) /\ r.edit # "d" /\ x = [id |-> Key(r), value |-> r.value]
    BY <2>4 DEF Drawn, RowsOf, Has, Key
  <2>6. \A x : x \in Overlay(s) <=> \E k, v : x = [id |-> k, value |-> v] /\ Draws(s, k, v)
    BY <2>3, <2>5 DEF Overlay, Draws
  <2>7. \A x : x \in Overlay(s) <=> \E k \in DOMAIN shown[s] : x = [id |-> k, value |-> shown[s][k]]
    BY <2>1, <2>6
  <2> QED BY <2>7
<1> QED BY <1>1, ScenarioInvariance, PTL

-----------------------------------------------------------------------------
(* What is on disk, and where: everything lies in something that exists.   *)
FolderIds == LayerIds \cup Clients

Paths ==
  {<<u>> : u \in Users}
    \cup {<<u, x>> : u \in Users, x \in FolderIds \cup FileNames}
    \cup {<<u, x, n>> : u \in Users, x \in LayerIds, n \in FileNames}
    \cup {<<u, d, f>> : u \in Users, d \in Clients, f \in {"file", "metadata"}}
    \cup {<<u, x, n, f>> : u \in Users, x \in LayerIds, n \in FileNames, f \in {"data", "metadata"}}

Parts_of == {"data", "metadata"} \X Clients

DiskOK ==
  /\ DOMAIN disk \subseteq Paths
  /\ \A u \in Users, x \in FolderIds \cup FileNames : Exists(<<u, x>>) => Exists(<<u>>)
  /\ \A u \in Users, d \in Clients, f \in {"file", "metadata"} :
       Exists(<<u, d, f>>) => Exists(<<u, d>>)
  /\ \A u \in Users, x \in LayerIds, n \in FileNames :
       Exists(<<u, x, n>>) => Exists(<<u, x>>) /\ disk[<<u, x, n>>] = {}
  /\ \A u \in Users, x \in LayerIds, n \in FileNames, f \in {"data", "metadata"} :
       Exists(<<u, x, n, f>>) => Exists(<<u, x, n>>) /\ disk[<<u, x, n, f>>] \subseteq Parts_of
  /\ \A u \in Users, n \in FileNames : Exists(<<u, n>>) => disk[<<u, n>>] \subseteq Parts_of

Within(q, f) == <<client[q].user, client[q].folder, f>>

Content(q, f) == <<client[q].user, client[q].folder, client[q].name, f>>

(* Where a request of each kind can be. *)
OpeningAt == {"sweep", "expel", "home", "make home", "make"}

Stages == [upload |-> OpeningAt \cup {"write", "validate", "clean", "idle", "done", "failed"},
           import |-> {"read", "drop", "clean", "idle", "done", "failed"},
           export |-> OpeningAt \cup {"make inner", "write", "metadata", "zip", "remove", "send",
                                      "idle", "done", "failed"}]

RequestOK(q) ==
  /\ client[q].pc \in Stages[client[q].kind]
  /\ client[q].pc = "idle" => client[q].kind = "upload"
  /\ client[q].kind = "upload" /\ client[q].pc # "idle" => client[q].folder = q
  /\ client[q].kind = "export" => client[q].folder \in LayerIds
  /\ client[q].kind = "import" =>
       /\ client[q].folder \in Clients /\ Is(client[q].folder, {"upload"}, "done")
       /\ client[client[q].folder].user = client[q].user
  /\ client[q].why # "" <=> client[q].pc \in {"clean", "failed"}
  /\ client[q].pc = "clean" => client[q].why \in {"own", "broken"}
  /\ client[q].why = "raised" => client[q].kind = "upload"
  /\ client[q].why = "gone" => client[q].kind = "import"
  /\ client[q].pc \notin {"sweep", "expel"} => client[q].listed = {}
  /\ client[q].pc # "expel" => client[q].victim = {}
  /\ client[q].listed \cap client[q].victim = {}

Begun(q) == client[q].pc # "idle"

(* Requests that run together have met, and history is of those that began. *)
MeetingsOK ==
  /\ met \in [Clients -> SUBSET Clients]
  /\ \A q \in Clients : q \notin met[q]
  /\ \A q \in Clients : \A r \in met[q] : Begun(q) /\ Begun(r)
  /\ \A q, r \in Running : q # r => r \in met[q]
  /\ unsettled \subseteq {q \in Clients : Begun(q)}
  /\ waited \subseteq {q \in Clients : Begun(q)}

-----------------------------------------------------------------------------
(* A request that no other disturbed finds its home and folder as it left  *)
(* them.                                                                   *)
Undisturbed(q) == q \notin unsettled /\ ~\E r \in met[q] : SameFolder(q, r)

HomesStay(q) ==
  q \notin unsettled =>
    /\ \A u \in client[q].listed : Exists(<<u>>)
    /\ client[q].pc = "make home" => ~Exists(HomeOf(q))
    /\ client[q].pc \in {"make", "make inner", "write", "validate", "metadata", "zip", "remove", "send"}
         => Exists(HomeOf(q))
    /\ client[q].pc \in {"remove", "send"} => Exists(ZipOf(q))

FolderIsOwn(q) ==
  Undisturbed(q) =>
    /\ client[q].pc \in {"home", "make home", "make"} => ~Exists(FolderOf(q))
    /\ client[q].pc \in {"make inner", "write", "validate"} => Exists(FolderOf(q))
    /\ client[q].pc = "validate" => Exists(Within(q, "file"))
    /\ client[q].pc = "make inner" => ~Exists(Within(q, client[q].name))

InnerIsOwn(q) ==
  client[q].kind = "export" /\ Undisturbed(q) =>
    /\ client[q].pc \in {"write", "metadata", "zip"} => Exists(Within(q, client[q].name))
    /\ client[q].pc = "write" => ~Exists(Content(q, "data"))
    /\ client[q].pc \in {"metadata", "zip"} =>
         Exists(Content(q, "data")) /\ disk[Content(q, "data")] = {<<"data", q>>}
    /\ client[q].pc = "zip" =>
         Exists(Content(q, "metadata")) /\ disk[Content(q, "metadata")] = {<<"metadata", q>>}

BothParts(q) == {<<"data", q>>, <<"metadata", q>>}

Candidates(q) == {q} \cup {r \in met[q] : client[r].kind = "export" /\ ZipOf(r) = ZipOf(q)}

ZipIsWhole(q) ==
  client[q].kind = "export" /\ (\A r \in Candidates(q) : Undisturbed(r)) =>
    /\ client[q].pc \in {"remove", "send"} => \E r \in Candidates(q) : disk[ZipOf(q)] = BothParts(r)
    /\ client[q].pc = "done" => \E r \in Candidates(q) : client[q].answer = BothParts(r)

BrokenForACause(q) ==
  client[q].why = "broken" /\ client[q].kind # "import" => ~Undisturbed(q)

-----------------------------------------------------------------------------
(* An upload's folder comes and goes as a whole, and waits for its import. *)
UploadFolderOK(d) ==
  client[d].kind = "upload" /\ Begun(d) =>
    /\ client[d].pc \in OpeningAt => ~Exists(FolderOf(d))
    /\ client[d].pc \in {"validate", "done"} /\ Exists(FolderOf(d)) => Exists(Within(d, "file"))
    /\ client[d].pc = "done" /\ Exists(FolderOf(d)) => Exists(Within(d, "metadata"))

(* A home that is old has been waited for, and who saw it old knows.       *)
AgedAfter(d) ==
  client[d].kind = "upload" /\ client[d].pc \in {"write", "validate", "done"} =>
    /\ client[d].user \in aged => d \in waited
    /\ \A e \in Clients : client[d].user \in client[e].victim =>
                            d \in waited \/ d \in unsettled \/ d \in met[e]

ImportsOf(d) == {i \in Clients : client[i].kind = "import" /\ client[i].folder = d}

UploadWaits(d) ==
  /\ Is(d, {"upload"}, "done") /\ d \notin waited /\ d \notin unsettled
  /\ \A i \in ImportsOf(d) : client[i].pc \in {"read", "drop"}
  => Exists(FolderOf(d))

GoneForACause(q) ==
  client[q].kind = "import" /\ client[q].why \in {"gone", "broken"} =>
    LostForACause(client[q].folder, q)

(* Who accounts for a folder: an export that is about to send does not.    *)
AccountsFor(r) ==
  \/ client[r].pc \in RunningAt \ {"send"} \/ client[r].why = "crash"
  \/ Is(r, {"upload"}, "done") /\ ImportsOf(r) = {}
  \/ client[r].pc = "failed" /\ (client[r].kind = "export" \/ client[r].why = "raised")

FoldersHaveACause ==
  \A u \in Users, x \in FolderIds :
    Exists(<<u, x>>) => \E r \in Clients : FolderOf(r) = <<u, x>> /\ AccountsFor(r)

FilesState ==
  /\ client \in [Clients -> ClientState]
  /\ aged \subseteq {u \in Users : Exists(<<u>>)}
  /\ DiskOK /\ MeetingsOK
  /\ \A q \in Clients : RequestOK(q)

FilesIInv ==
  /\ FilesState /\ FoldersHaveACause
  /\ \A q \in Clients : HomesStay(q) /\ FolderIsOwn(q) /\ InnerIsOwn(q) /\ ZipIsWhole(q)
                          /\ BrokenForACause(q)
  /\ \A q \in Clients : UploadFolderOK(q) /\ AgedAfter(q) /\ UploadWaits(q) /\ GoneForACause(q)


-----------------------------------------------------------------------------
(* Paths: what lies below one, and what it lies in. *)
LEMMA PrefixElements ==
  ASSUME NEW S, NEW s \in Seq(S), NEW t \in Seq(S)
  PROVE  IsPrefix(s, t) <=> Len(s) <= Len(t) /\ \A i \in 1..Len(s) : s[i] = t[i]
<1>1. ASSUME Len(s) <= Len(t)
      PROVE  /\ SubSeq(t, 1, Len(s)) \in Seq(S)
             /\ Len(SubSeq(t, 1, Len(s))) = Len(s)
             /\ \A i \in 1..Len(s) : SubSeq(t, 1, Len(s))[i] = t[i]
  <2>1. /\ Len(s) \in Nat /\ Len(t) \in Nat /\ \A i \in 1..Len(s) : t[i] \in S
    BY <1>1, LenProperties, ElementOfSeq
  <2> QED BY <1>1, <2>1, SubSeqProperties
<1>2. SubSeq(s, 1, Len(s)) = s
  BY SubSeqFull
<1>3. CASE ~(Len(s) <= Len(t))
  BY <1>3 DEF IsPrefix
<1>4. CASE Len(s) <= Len(t)
  <2>1. (\A i \in 1..Len(s) : s[i] = t[i]) => s = SubSeq(t, 1, Len(s))
    BY <1>1, <1>4, SeqEqual
  <2>2. s = SubSeq(t, 1, Len(s)) => \A i \in 1..Len(s) : s[i] = t[i]
    BY <1>1, <1>4
  <2> QED BY <1>2, <1>4, <2>1, <2>2 DEF IsPrefix
<1> QED BY <1>3, <1>4

(* What lies at or below a home, a folder, a folder within an export. *)
LEMMA BelowPath ==
  ASSUME NEW S, NEW s \in Seq(S), NEW p \in Seq(S)
  PROVE  /\ Len(s) = 1 => (IsPrefix(s, p) <=> Len(p) >= 1 /\ s[1] = p[1])
         /\ Len(s) = 2 => (IsPrefix(s, p) <=> Len(p) >= 2 /\ s[1] = p[1] /\ s[2] = p[2])
         /\ Len(s) = 3 =>
              (IsPrefix(s, p) <=> Len(p) >= 3 /\ s[1] = p[1] /\ s[2] = p[2] /\ s[3] = p[3])
<1>1. Len(p) \in Nat
  BY LenProperties
<1>2. 1..1 = {1} /\ 1..2 = {1, 2} /\ 1..3 = {1, 2, 3}
  OBVIOUS
<1>3. IsPrefix(s, p) <=> Len(s) <= Len(p) /\ \A i \in 1..Len(s) : s[i] = p[i]
  BY PrefixElements
<1> QED BY <1>1, <1>2, <1>3

(* Below a home lies what starts with its user.                            *)
LEMMA BelowHome ==
  ASSUME NEW u, NEW v, NEW y, NEW m, NEW f
  PROVE  /\ IsPrefix(<<u>>, <<v>>) <=> u = v
         /\ IsPrefix(<<u>>, <<v, y>>) <=> u = v
         /\ IsPrefix(<<u>>, <<v, y, m>>) <=> u = v
         /\ IsPrefix(<<u>>, <<v, y, m, f>>) <=> u = v
<1>1. PICK S : {u, v, y, m, f} \subseteq S
  OBVIOUS
<1>2. ASSUME NEW s \in Seq(S), NEW p \in Seq(S), s = <<u>>, p = <<v>>
      PROVE  IsPrefix(s, p) <=> u = v
  <2>1. Len(s) = 1 /\ s[1] = u
    BY <1>2
  <2>2. Len(p) = 1 /\ p[1] = v
    BY <1>2
  <2> QED BY <2>1, <2>2, BelowPath
<1>3. ASSUME NEW s \in Seq(S), NEW p \in Seq(S), s = <<u>>, p = <<v, y>>
      PROVE  IsPrefix(s, p) <=> u = v
  <2>1. Len(s) = 1 /\ s[1] = u
    BY <1>3
  <2>2. Len(p) = 2 /\ p[1] = v
    BY <1>3
  <2> QED BY <2>1, <2>2, BelowPath
<1>4. ASSUME NEW s \in Seq(S), NEW p \in Seq(S), s = <<u>>, p = <<v, y, m>>
      PROVE  IsPrefix(s, p) <=> u = v
  <2>1. Len(s) = 1 /\ s[1] = u
    BY <1>4
  <2>2. Len(p) = 3 /\ p[1] = v
    BY <1>4
  <2> QED BY <2>1, <2>2, BelowPath
<1>5. ASSUME NEW s \in Seq(S), NEW p \in Seq(S), s = <<u>>, p = <<v, y, m, f>>
      PROVE  IsPrefix(s, p) <=> u = v
  <2>1. Len(s) = 1 /\ s[1] = u
    BY <1>5
  <2>2. Len(p) = 4 /\ p[1] = v
    BY <1>5
  <2> QED BY <2>1, <2>2, BelowPath
<1>6. <<u>> \in Seq(S) /\ <<v>> \in Seq(S) /\ <<v, y>> \in Seq(S) /\ <<v, y, m>> \in Seq(S) /\ <<v, y, m, f>> \in Seq(S)
  BY <1>1
<1> QED BY <1>2, <1>3, <1>4, <1>5, <1>6

(* Below a folder lies what starts with its user and its name.             *)
InFolder(u, x, v, y, path) == IsPrefix(<<u, x>>, path) <=> u = v /\ x = y

LEMMA BelowFolder ==
  ASSUME NEW u, NEW x, NEW v, NEW y, NEW m, NEW f
  PROVE  /\ ~IsPrefix(<<u, x>>, <<v>>)
         /\ InFolder(u, x, v, y, <<v, y>>)
         /\ InFolder(u, x, v, y, <<v, y, m>>)
         /\ InFolder(u, x, v, y, <<v, y, m, f>>)
<1>1. PICK S : {u, x, v, y, m, f} \subseteq S
  OBVIOUS
<1>2. ASSUME NEW s \in Seq(S), NEW p \in Seq(S), s = <<u, x>>, p = <<v>>
      PROVE  ~IsPrefix(s, p)
  <2>1. Len(s) = 2 /\ s[1] = u /\ s[2] = x
    BY <1>2
  <2>2. Len(p) = 1 /\ p[1] = v
    BY <1>2
  <2> QED BY <2>1, <2>2, BelowPath
<1>3. ASSUME NEW s \in Seq(S), NEW p \in Seq(S), s = <<u, x>>, p = <<v, y>>
      PROVE  IsPrefix(s, p) <=> u = v /\ x = y
  <2>1. Len(s) = 2 /\ s[1] = u /\ s[2] = x
    BY <1>3
  <2>2. Len(p) = 2 /\ p[1] = v /\ p[2] = y
    BY <1>3
  <2> QED BY <2>1, <2>2, BelowPath
<1>4. ASSUME NEW s \in Seq(S), NEW p \in Seq(S), s = <<u, x>>, p = <<v, y, m>>
      PROVE  IsPrefix(s, p) <=> u = v /\ x = y
  <2>1. Len(s) = 2 /\ s[1] = u /\ s[2] = x
    BY <1>4
  <2>2. Len(p) = 3 /\ p[1] = v /\ p[2] = y
    BY <1>4
  <2> QED BY <2>1, <2>2, BelowPath
<1>5. ASSUME NEW s \in Seq(S), NEW p \in Seq(S), s = <<u, x>>, p = <<v, y, m, f>>
      PROVE  IsPrefix(s, p) <=> u = v /\ x = y
  <2>1. Len(s) = 2 /\ s[1] = u /\ s[2] = x
    BY <1>5
  <2>2. Len(p) = 4 /\ p[1] = v /\ p[2] = y
    BY <1>5
  <2> QED BY <2>1, <2>2, BelowPath
<1>6. <<u, x>> \in Seq(S) /\ <<v>> \in Seq(S) /\ <<v, y>> \in Seq(S) /\ <<v, y, m>> \in Seq(S) /\ <<v, y, m, f>> \in Seq(S)
  BY <1>1
<1> QED BY <1>2, <1>3, <1>4, <1>5, <1>6 DEF InFolder

(* Below the folder within an export lie the files of that export.         *)
LEMMA BelowInner ==
  ASSUME NEW u, NEW x, NEW n
  PROVE  /\ \A v : ~IsPrefix(<<u, x, n>>, <<v>>)
         /\ \A v, y : ~IsPrefix(<<u, x, n>>, <<v, y>>)
         /\ \A v, y, m : IsPrefix(<<u, x, n>>, <<v, y, m>>) <=> u = v /\ x = y /\ n = m
         /\ \A v, y, m, f : IsPrefix(<<u, x, n>>, <<v, y, m, f>>) <=> u = v /\ x = y /\ n = m
<1>1. ASSUME NEW v PROVE ~IsPrefix(<<u, x, n>>, <<v>>)
  <2>1. PICK S : {u, x, n, v} \subseteq S
    OBVIOUS
  <2>2. ASSUME NEW s \in Seq(S), NEW p \in Seq(S), s = <<u, x, n>>, p = <<v>>
        PROVE  ~IsPrefix(s, p)
    <3>1. Len(s) = 3 /\ Len(p) = 1
      BY <2>2
    <3> QED BY <3>1, BelowPath
  <2>3. <<u, x, n>> \in Seq(S) /\ <<v>> \in Seq(S)
    BY <2>1
  <2> QED BY <2>2, <2>3
<1>2. ASSUME NEW v, NEW y PROVE ~IsPrefix(<<u, x, n>>, <<v, y>>)
  <2>1. PICK S : {u, x, n, v, y} \subseteq S
    OBVIOUS
  <2>2. ASSUME NEW s \in Seq(S), NEW p \in Seq(S), s = <<u, x, n>>, p = <<v, y>>
        PROVE  ~IsPrefix(s, p)
    <3>1. Len(s) = 3 /\ Len(p) = 2
      BY <2>2
    <3> QED BY <3>1, BelowPath
  <2>3. <<u, x, n>> \in Seq(S) /\ <<v, y>> \in Seq(S)
    BY <2>1
  <2> QED BY <2>2, <2>3
<1>3. ASSUME NEW v, NEW y, NEW m
      PROVE  IsPrefix(<<u, x, n>>, <<v, y, m>>) <=> u = v /\ x = y /\ n = m
  <2>1. PICK S : {u, x, n, v, y, m} \subseteq S
    OBVIOUS
  <2>2. ASSUME NEW s \in Seq(S), NEW p \in Seq(S), s = <<u, x, n>>, p = <<v, y, m>>
        PROVE  IsPrefix(s, p) <=> u = v /\ x = y /\ n = m
    <3>1. Len(s) = 3 /\ s[1] = u /\ s[2] = x /\ s[3] = n
      BY <2>2
    <3>2. Len(p) = 3 /\ p[1] = v /\ p[2] = y /\ p[3] = m
      BY <2>2
    <3> QED BY <3>1, <3>2, BelowPath
  <2>3. <<u, x, n>> \in Seq(S) /\ <<v, y, m>> \in Seq(S)
    BY <2>1
  <2> QED BY <2>2, <2>3
<1>4. ASSUME NEW v, NEW y, NEW m, NEW f
      PROVE  IsPrefix(<<u, x, n>>, <<v, y, m, f>>) <=> u = v /\ x = y /\ n = m
  <2>1. PICK S : {u, x, n, v, y, m, f} \subseteq S
    OBVIOUS
  <2>2. ASSUME NEW s \in Seq(S), NEW p \in Seq(S), s = <<u, x, n>>, p = <<v, y, m, f>>
        PROVE  IsPrefix(s, p) <=> u = v /\ x = y /\ n = m
    <3>1. Len(s) = 3 /\ s[1] = u /\ s[2] = x /\ s[3] = n
      BY <2>2
    <3>2. Len(p) = 4 /\ p[1] = v /\ p[2] = y /\ p[3] = m
      BY <2>2
    <3> QED BY <3>1, <3>2, BelowPath
  <2>3. <<u, x, n>> \in Seq(S) /\ <<v, y, m, f>> \in Seq(S)
    BY <2>1
  <2> QED BY <2>2, <2>3
<1> QED BY <1>1, <1>2, <1>3, <1>4

(* One name more makes a path one longer.                                  *)
LEMMA Appended ==
  ASSUME NEW u, NEW x, NEW n, NEW f
  PROVE  Append(<<u, x>>, n) = <<u, x, n>> /\ Append(<<u, x, n>>, f) = <<u, x, n, f>>
<1> DEFINE S == {u, x, n, f}
<1>1. /\ <<u, x>> \in Seq(S) /\ Len(<<u, x>>) = 2 
      /\ <<u, x, n>> \in Seq(S) /\ Len(<<u, x, n>>) = 3
      /\ <<u, x, n, f>> \in Seq(S) /\ Len(<<u, x, n, f>>) = 4
  OBVIOUS
<1>2. Append(<<u, x>>, n) \in Seq(S) /\ Len(Append(<<u, x>>, n)) = 3
      /\ \A i \in 1..3 : Append(<<u, x>>, n)[i] = <<u, x, n>>[i]
  BY <1>1
<1>3. Append(<<u, x, n>>, f) \in Seq(S) /\ Len(Append(<<u, x, n>>, f)) = 4
      /\ \A i \in 1..4 : Append(<<u, x, n>>, f)[i] = <<u, x, n, f>>[i]
  BY <1>1
<1>4. Append(<<u, x>>, n) = <<u, x, n>>
  BY <1>1, <1>2, SeqEqual
<1> QED BY <1>1, <1>3, <1>4, SeqEqual

(* Front drops the last name.                                              *)
LEMMA ParentIn ==
  ASSUME NEW S, NEW p \in Seq(S), NEW r \in Seq(S), Len(p) = Len(r) + 1,
         \A i \in 1..Len(r) : p[i] = r[i]
  PROVE  Front(p) = r
<1>1. Len(r) \in Nat /\ Len(p) - 1 = Len(r) /\ \A i \in 1..Len(r) : p[i] \in S
  BY LenProperties, ElementOfSeq
<1>2. /\ SubSeq(p, 1, Len(r)) \in Seq(S) /\ Len(SubSeq(p, 1, Len(r))) = Len(r)
      /\ \A i \in 1..Len(r) : SubSeq(p, 1, Len(r))[i] = r[i]
  BY <1>1, SubSeqProperties
<1> QED BY <1>1, <1>2, SeqEqual DEF Front

(* The folders that the paths of DATA_DIR lie in, for names of one set.    *)
LEMMA ParentsIn ==
  ASSUME NEW S, NEW u \in S, NEW x \in S, NEW n \in S, NEW f \in S
  PROVE  Front(<<u, x>>) = <<u>> /\ Front(<<u, x, n>>) = <<u, x>>
         /\ Front(<<u, x, n, f>>) = <<u, x, n>>
<1>1. Front(<<u, x>>) = <<u>>
  <2>1. /\ <<u>> \in Seq(S) /\ <<u, x>> \in Seq(S) /\ Len(<<u, x>>) = Len(<<u>>) + 1
        /\ \A i \in 1..Len(<<u>>) : <<u, x>>[i] = <<u>>[i]
    OBVIOUS
  <2> QED BY <2>1, ParentIn
<1>2. Front(<<u, x, n>>) = <<u, x>>
  <2>1. /\ <<u, x>> \in Seq(S) /\ <<u, x, n>> \in Seq(S)
        /\ Len(<<u, x, n>>) = Len(<<u, x>>) + 1
        /\ \A i \in 1..Len(<<u, x>>) : <<u, x, n>>[i] = <<u, x>>[i]
    OBVIOUS
  <2> QED BY <2>1, ParentIn
<1>3. Front(<<u, x, n, f>>) = <<u, x, n>>
  <2>1. /\ <<u, x, n>> \in Seq(S) /\ <<u, x, n, f>> \in Seq(S)
        /\ Len(<<u, x, n, f>>) = Len(<<u, x, n>>) + 1
        /\ \A i \in 1..Len(<<u, x, n>>) : <<u, x, n, f>>[i] = <<u, x, n>>[i]
    OBVIOUS
  <2> QED BY <2>1, ParentIn
<1> QED BY <1>1, <1>2, <1>3

(* The same for any names.                                                 *)
LEMMA Parents ==
  ASSUME NEW u, NEW x, NEW n, NEW f
  PROVE  Front(<<u, x>>) = <<u>> /\ Front(<<u, x, n>>) = <<u, x>>
         /\ Front(<<u, x, n, f>>) = <<u, x, n>>
<1>1. PICK S : {u, x, n, f} \subseteq S
  OBVIOUS
<1> QED BY <1>1, ParentsIn

-----------------------------------------------------------------------------
(* What a step may do on disk: put one entry there, or remove a folder or a *)
(* home with all that is in it.                                            *)
Put(path, pieces) ==
  /\ DOMAIN disk' = DOMAIN disk \cup {path}
  /\ disk'[path] = pieces
  /\ \A p \in DOMAIN disk : p # path => disk'[p] = disk[p]

FolderGone(u, x) ==
  /\ \A v : <<v>> \in DOMAIN disk' <=> <<v>> \in DOMAIN disk
  /\ \A v, y : <<v, y>> \in DOMAIN disk' <=> <<v, y>> \in DOMAIN disk /\ (v # u \/ y # x)
  /\ \A v, y, m : <<v, y, m>> \in DOMAIN disk' <=> <<v, y, m>> \in DOMAIN disk /\ (v # u \/ y # x)
  /\ \A v, y, m, f : <<v, y, m, f>> \in DOMAIN disk'
                       <=> <<v, y, m, f>> \in DOMAIN disk /\ (v # u \/ y # x)
  /\ \A p \in DOMAIN disk' : p \in DOMAIN disk /\ disk'[p] = disk[p]

HomeGone(u) ==
  /\ \A v : <<v>> \in DOMAIN disk' <=> <<v>> \in DOMAIN disk /\ v # u
  /\ \A v, y : <<v, y>> \in DOMAIN disk' <=> <<v, y>> \in DOMAIN disk /\ v # u
  /\ \A v, y, m : <<v, y, m>> \in DOMAIN disk' <=> <<v, y, m>> \in DOMAIN disk /\ v # u
  /\ \A v, y, m, f : <<v, y, m, f>> \in DOMAIN disk' <=> <<v, y, m, f>> \in DOMAIN disk /\ v # u
  /\ \A p \in DOMAIN disk' : p \in DOMAIN disk /\ disk'[p] = disk[p]

AgesWell == aged' \subseteq aged /\ \A u \in aged' : <<u>> \in DOMAIN disk'

(* Stored with a file: one entry more, and no home ages by it.             *)
LEMMA Puts ==
  ASSUME NEW path, NEW pieces, Stored(WithFile(path, pieces))
  PROVE  Put(path, pieces) /\ AgesWell
BY DEF Stored, WithFile, Put, AgesWell

(* async_delete_dir: what lies below the path goes, the rest stays.        *)
LEMMA Removes ==
  ASSUME NEW path, async_delete_dir(path)
  PROVE  /\ \A p : p \in DOMAIN disk' <=> p \in DOMAIN disk /\ ~IsPrefix(path, p)
         /\ \A p \in DOMAIN disk' : p \in DOMAIN disk /\ disk'[p] = disk[p]
         /\ AgesWell
BY DEF async_delete_dir, Stored, Without_tree, AgesWell

(* Of a folder, with the shapes that paths have.                           *)
LEMMA FolderGoes ==
  ASSUME NEW u, NEW x, async_delete_dir(<<u, x>>)
  PROVE  FolderGone(u, x) /\ AgesWell
<1>1. \A v : ~IsPrefix(<<u, x>>, <<v>>)
  BY BelowFolder
<1>2. \A v, y : InFolder(u, x, v, y, <<v, y>>)
  BY BelowFolder
<1>3. \A v, y, m : InFolder(u, x, v, y, <<v, y, m>>)
  BY BelowFolder
<1>4. \A v, y, m, f : InFolder(u, x, v, y, <<v, y, m, f>>)
  BY BelowFolder
<1> QED BY <1>1, <1>2, <1>3, <1>4, Removes DEF FolderGone, InFolder

(* Of a home.                                                              *)
LEMMA HomeGoes ==
  ASSUME NEW u, async_delete_dir(<<u>>)
  PROVE  HomeGone(u) /\ AgesWell
<1>1. \A v : IsPrefix(<<u>>, <<v>>) <=> u = v
  BY BelowHome
<1>2. \A v, y : IsPrefix(<<u>>, <<v, y>>) <=> u = v
  BY BelowHome
<1>3. \A v, y, m : IsPrefix(<<u>>, <<v, y, m>>) <=> u = v
  BY BelowHome
<1>4. \A v, y, m, f : IsPrefix(<<u>>, <<v, y, m, f>>) <=> u = v
  BY BelowHome
<1> QED BY <1>1, <1>2, <1>3, <1>4, Removes DEF HomeGone

(* Names of the parts of a path do not collide. *)
LEMMA PathNamesDiffer ==
  /\ \A x \in LayerIds : x \notin Clients /\ x \notin FileNames
  /\ \A x \in Clients : x \notin LayerIds /\ x \notin FileNames
  /\ \A x \in FolderIds : x \notin FileNames
BY FilesAssumption DEF FolderIds

(* DATA_DIR stays in order when a folder goes, ...                         *)
LEMMA DiskOKFolderGone ==
  ASSUME DiskOK, NEW u \in Users, NEW x \in FolderIds, FolderGone(u, x)
  PROVE  DiskOK'
<1>1. DOMAIN disk' \subseteq Paths
  BY DEF DiskOK, FolderGone
<1>2. \A v \in Users, y \in FolderIds \cup FileNames : Exists(<<v, y>>)' => Exists(<<v>>)'
  BY DEF DiskOK, FolderGone, Exists
<1>3. \A v \in Users, d \in Clients, f \in {"file", "metadata"} :
         Exists(<<v, d, f>>)' => Exists(<<v, d>>)'
  BY DEF DiskOK, FolderGone, Exists
<1>4. \A v \in Users, y \in LayerIds, n \in FileNames :
         Exists(<<v, y, n>>)' => Exists(<<v, y>>)' /\ disk'[<<v, y, n>>] = {}
  BY DEF DiskOK, FolderGone, Exists
<1>5. \A v \in Users, y \in LayerIds, n \in FileNames, f \in {"data", "metadata"} :
         Exists(<<v, y, n, f>>)' => Exists(<<v, y, n>>)' /\ disk'[<<v, y, n, f>>] \subseteq Parts_of
  BY DEF DiskOK, FolderGone, Exists
<1>6. \A v \in Users, n \in FileNames : Exists(<<v, n>>)' => disk'[<<v, n>>] \subseteq Parts_of
  BY DEF DiskOK, FolderGone, Exists
<1> QED BY <1>1, <1>2, <1>3, <1>4, <1>5, <1>6 DEF DiskOK

(* ... when a home goes, ...                                               *)
LEMMA DiskOKHomeGone ==
  ASSUME DiskOK, NEW u \in Users, HomeGone(u)
  PROVE  DiskOK'
<1>1. DOMAIN disk' \subseteq Paths
  BY DEF DiskOK, HomeGone
<1>2. \A v \in Users, y \in FolderIds \cup FileNames : Exists(<<v, y>>)' => Exists(<<v>>)'
  BY DEF DiskOK, HomeGone, Exists
<1>3. \A v \in Users, d \in Clients, f \in {"file", "metadata"} :
         Exists(<<v, d, f>>)' => Exists(<<v, d>>)'
  BY DEF DiskOK, HomeGone, Exists
<1>4. \A v \in Users, y \in LayerIds, n \in FileNames :
         Exists(<<v, y, n>>)' => Exists(<<v, y>>)' /\ disk'[<<v, y, n>>] = {}
  BY DEF DiskOK, HomeGone, Exists
<1>5. \A v \in Users, y \in LayerIds, n \in FileNames, f \in {"data", "metadata"} :
         Exists(<<v, y, n, f>>)' => Exists(<<v, y, n>>)' /\ disk'[<<v, y, n, f>>] \subseteq Parts_of
  BY DEF DiskOK, HomeGone, Exists
<1>6. \A v \in Users, n \in FileNames : Exists(<<v, n>>)' => disk'[<<v, n>>] \subseteq Parts_of
  BY DEF DiskOK, HomeGone, Exists
<1> QED BY <1>1, <1>2, <1>3, <1>4, <1>5, <1>6 DEF DiskOK

(* ... and when an entry is put into something that exists.                *)
LEMMA DiskOKPut ==
  ASSUME DiskOK, NEW path \in Paths, NEW pieces, Put(path, pieces),
         \A v \in Users, y \in FolderIds \cup FileNames : path = <<v, y>> => Exists(<<v>>),
         \A v \in Users, d \in Clients, f \in {"file", "metadata"} :
           path = <<v, d, f>> => Exists(<<v, d>>),
         \A v \in Users, y \in LayerIds, n \in FileNames :
           path = <<v, y, n>> => Exists(<<v, y>>) /\ pieces = {},
         \A v \in Users, y \in LayerIds, n \in FileNames, f \in {"data", "metadata"} :
           path = <<v, y, n, f>> => Exists(<<v, y, n>>) /\ pieces \subseteq Parts_of,
         \A v \in Users, n \in FileNames : path = <<v, n>> => pieces \subseteq Parts_of
  PROVE  DiskOK'
<1>1. DOMAIN disk' \subseteq Paths
  BY DEF DiskOK, Put
<1>2. \A v \in Users, y \in FolderIds \cup FileNames : Exists(<<v, y>>)' => Exists(<<v>>)'
  BY DEF DiskOK, Put, Exists
<1>3. \A v \in Users, d \in Clients, f \in {"file", "metadata"} :
         Exists(<<v, d, f>>)' => Exists(<<v, d>>)'
  BY DEF DiskOK, Put, Exists
<1>4. \A v \in Users, y \in LayerIds, n \in FileNames :
         Exists(<<v, y, n>>)' => Exists(<<v, y>>)' /\ disk'[<<v, y, n>>] = {}
  BY DEF DiskOK, Put, Exists
<1>5. \A v \in Users, y \in LayerIds, n \in FileNames, f \in {"data", "metadata"} :
         Exists(<<v, y, n, f>>)' => Exists(<<v, y, n>>)' /\ disk'[<<v, y, n, f>>] \subseteq Parts_of
  BY DEF DiskOK, Put, Exists
<1>6. \A v \in Users, n \in FileNames : Exists(<<v, n>>)' => disk'[<<v, n>>] \subseteq Parts_of
  BY DEF DiskOK, Put, Exists
<1> QED BY <1>1, <1>2, <1>3, <1>4, <1>5, <1>6 DEF DiskOK

-----------------------------------------------------------------------------
(* What a step does to the requests: those that began stay what they are.  *)
SameRequest(q) ==
  /\ client'[q].kind = client[q].kind /\ client'[q].user = client[q].user
  /\ client'[q].folder = client[q].folder /\ client'[q].name = client[q].name

RequestMoves(q, pc, why, listed, victim, answer) ==
  /\ client' \in [Clients -> ClientState] /\ SameRequest(q)
  /\ client'[q].pc = pc /\ client'[q].why = why /\ client'[q].listed = listed
  /\ client'[q].victim = victim /\ client'[q].answer = answer
  /\ \A p \in Clients : p # q => client'[p] = client[p]

Advances(q, pc) ==
  RequestMoves(q, pc, client[q].why, client[q].listed, client[q].victim, client[q].answer)

Stops(q, why) ==
  RequestMoves(q, IF client[q].kind = "export" THEN "failed" ELSE "clean", why, {}, {}, client[q].answer)

Frame ==
  /\ client' \in [Clients -> ClientState]
  /\ \A r \in Clients : Begun(r) => SameRequest(r) /\ client'[r].pc # "idle"
  /\ met' \in [Clients -> SUBSET Clients]
  /\ \A r \in Clients : met[r] \subseteq met'[r]
  /\ unsettled \subseteq unsettled' /\ waited \subseteq waited'

RequestLabels == RunningAt \cup {"idle", "done", "failed"}

(* To changes the label of a request and nothing else.                     *)
LEMMA GoesTo ==
  ASSUME FilesState, NEW q \in Clients, NEW pc \in RequestLabels, To(q, pc)
  PROVE  Advances(q, pc)
<1>1. client'[q] = [client[q] EXCEPT !.pc = pc] /\ \A p \in Clients : p # q => client'[p] = client[p]
  BY DEF FilesState, To
<1>2. client[q] \in ClientState /\ client \in [Clients -> ClientState]
  BY DEF FilesState
<1>3. client'[q] \in ClientState
  BY <1>1, <1>2 DEF ClientState, RequestLabels
<1>4. client' \in [Clients -> ClientState]
  BY <1>1, <1>2, <1>3 DEF To
<1> QED BY <1>1, <1>2, <1>4 DEF FilesState, ClientState, Advances, RequestMoves, SameRequest

(* GivesUp ends a request, or sends it to clean up.                        *)
LEMMA GaveUp ==
  ASSUME FilesState, NEW q \in Clients, NEW why \in {"own", "broken"}, GivesUp(q, why)
  PROVE  Stops(q, why)
<1> DEFINE pc == IF client[q].kind = "export" THEN "failed" ELSE "clean"
<1>1. /\ client'[q] = [client[q] EXCEPT !.why = why, !.listed = {}, !.victim = {}, !.pc = pc]
      /\ \A p \in Clients : p # q => client'[p] = client[p]
  BY DEF FilesState, GivesUp
<1>2. pc \in RequestLabels
  BY DEF RequestLabels, RunningAt
<1>3. client[q] \in ClientState /\ client \in [Clients -> ClientState]
  BY DEF FilesState
<1>4. client'[q] \in ClientState
  BY <1>1, <1>2, <1>3 DEF ClientState, RequestLabels
<1>5. client' \in [Clients -> ClientState]
  BY <1>1, <1>3, <1>4 DEF GivesUp
<1> QED BY <1>1, <1>3, <1>5 DEF FilesState, ClientState, Stops, RequestMoves, SameRequest

(* What is known of a request. *)
LEMMA RequestFacts ==
  ASSUME FilesState, NEW q \in Clients
  PROVE  /\ client[q] \in ClientState /\ RequestOK(q)
         /\ client[q].pc \in RequestLabels /\ client[q].kind \in Kinds /\ client[q].user \in Users
         /\ client[q].folder \in FolderIds /\ client[q].name \in FileNames
         /\ client[q].listed \subseteq Users /\ client[q].victim \subseteq Users
         /\ client[q].answer \subseteq Parts_of
         /\ q \in Running <=> client[q].pc \in RunningAt
         /\ q \in Running => Begun(q)
BY DEF FilesState, ClientState, RequestLabels, FolderIds, Parts_of, Running, Begun, RunningAt

(* A request of each kind is at a stage of its kind.                       *)
LEMMA StageFacts ==
  ASSUME FilesState, NEW q \in Clients
  PROVE  /\ client[q].kind \in {"upload", "import", "export"}
         /\ client[q].kind = "upload" => client[q].pc \in Stages["upload"]
         /\ client[q].kind = "import" => client[q].pc \in Stages["import"]
         /\ client[q].kind = "export" => client[q].pc \in Stages["export"]
         /\ Stages["upload"] = OpeningAt \cup {"write", "validate", "clean", "idle", "done", "failed"}
         /\ Stages["import"] = {"read", "drop", "clean", "idle", "done", "failed"}
         /\ Stages["export"] = OpeningAt \cup {"make inner", "write", "metadata", "zip", "remove",
                                               "send", "idle", "done", "failed"}
BY RequestFacts DEF RequestOK, Kinds, Stages

(* The paths of a request, written out.                                    *)
LEMMA PathFacts ==
  ASSUME NEW q \in Clients, NEW f
  PROVE  /\ Inner(q) = Within(q, client[q].name)
         /\ Append(FolderOf(q), f) = Within(q, f)
         /\ Append(Inner(q), f) = Content(q, f)
         /\ Front(FolderOf(q)) = HomeOf(q) /\ Front(Inner(q)) = FolderOf(q)
<1> DEFINE u == client[q].user  x == client[q].folder  n == client[q].name
<1>1. FolderOf(q) = <<u, x>> /\ HomeOf(q) = <<u>>
  BY DEF FolderOf, HomeOf
<1>2. Append(<<u, x>>, n) = <<u, x, n>> /\ Append(<<u, x>>, f) = <<u, x, f>>
  BY Appended
<1>3. Append(<<u, x, n>>, f) = <<u, x, n, f>>
  BY Appended
<1>4. Front(<<u, x>>) = <<u>> /\ Front(<<u, x, n>>) = <<u, x>>
  BY Parents
<1> QED BY <1>1, <1>2, <1>3, <1>4 DEF Inner, Within, Content

(* A running request stays in the frame, whatever it goes to. *)
LEMMA MoveIsFrame ==
  ASSUME FilesState, NEW q \in Clients, q \in Running, NEW pc \in RequestLabels \ {"idle"}, NEW why, NEW listed,
         NEW victim, NEW answer, RequestMoves(q, pc, why, listed, victim, answer),
         met' = met, unsettled \subseteq unsettled', waited' = waited
  PROVE  Frame
<1>1. met \in [Clients -> SUBSET Clients]
  BY DEF FilesState, MeetingsOK
<1>2. \A r \in Clients : Begun(r) => SameRequest(r) /\ client'[r].pc # "idle"
  BY DEF RequestMoves, Begun, SameRequest
<1> QED BY <1>1, <1>2 DEF Frame, RequestMoves

(* Meetings stay as they were when a running request moves.                *)
LEMMA MeetingsKept ==
  ASSUME FilesState, NEW q \in Clients, q \in Running, NEW pc \in RequestLabels \ {"idle"}, NEW why, NEW listed,
         NEW victim, NEW answer, RequestMoves(q, pc, why, listed, victim, answer),
         met' = met, unsettled' \subseteq {r \in Clients : Begun(r)}, waited' = waited
  PROVE  MeetingsOK'
<1>1. \A r \in Clients : Begun(r) => client'[r].pc # "idle"
  BY DEF RequestMoves, Begun
<1>2. \A r \in Clients : client'[r].pc \in RunningAt => r \in Running
  BY DEF RequestMoves, Running
<1>3. \A r \in Clients : \A s \in met[r] : s \in Clients
  BY DEF FilesState, MeetingsOK
<1> QED BY <1>1, <1>2, <1>3 DEF FilesState, MeetingsOK, Running, Begun

(* Other requests are as well typed as before. *)
LEMMA RequestsOfOthers ==
  ASSUME FilesState, NEW q \in Clients, client[q].pc # "done",
         \A p \in Clients : p # q => client'[p] = client[p]
  PROVE  \A p \in Clients : p # q => RequestOK(p)'
<1> TAKE p \in Clients
<1> HAVE p # q
<1>1. RequestOK(p) /\ client'[p] = client[p]
  BY DEF FilesState
<1>2. client[p].kind = "import" =>
        /\ client[p].folder \in Clients /\ client[p].folder # q
        /\ client'[client[p].folder] = client[client[p].folder]
  BY <1>1 DEF RequestOK, Is
<1> QED BY <1>1, <1>2 DEF RequestOK, Is

(* A request that advances is as well typed as before, ...                 *)
LEMMA RequestAdvances ==
  ASSUME FilesState, NEW q \in Clients, q \in Running, client[q].pc # "clean",
         NEW pc \in Stages[client[q].kind] \ {"idle", "clean", "failed", "expel", "sweep"},
         client[q].listed = {}, client[q].victim = {}, Advances(q, pc)
  PROVE  \A p \in Clients : RequestOK(p)'
<1>1. client[q].pc \notin {"idle", "done", "failed"}
  BY DEF Running, RunningAt
<1>2. RequestOK(q)
  BY DEF FilesState
<1>3. \A p \in Clients : p # q => RequestOK(p)'
  BY <1>1, RequestsOfOthers DEF Advances, RequestMoves
<1>4. client[q].kind = "import" => client[q].folder # q /\ client'[client[q].folder] = client[client[q].folder]
  BY <1>2 DEF RequestOK, Is, Advances, RequestMoves
<1>5. RequestOK(q)'
  BY <1>1, <1>2, <1>4 DEF RequestOK, Is, Advances, RequestMoves, SameRequest
<1> QED BY <1>3, <1>5

(* ... and so is one that stops.                                           *)
LEMMA RequestStops ==
  ASSUME FilesState, NEW q \in Clients, q \in Running, NEW why \in {"own", "broken"}, Stops(q, why)
  PROVE  \A p \in Clients : RequestOK(p)'
<1>1. client[q].pc \notin {"idle", "done", "failed"}
  BY DEF Running, RunningAt
<1>2. RequestOK(q) /\ client[q].kind \in Kinds
  BY RequestFacts
<1>3. \A p \in Clients : p # q => RequestOK(p)'
  BY <1>1, RequestsOfOthers DEF Stops, RequestMoves
<1>4. client[q].kind = "import" => client[q].folder # q /\ client'[client[q].folder] = client[client[q].folder]
  BY <1>2 DEF RequestOK, Is, Stops, RequestMoves
<1>5. client'[q].pc \in Stages[client[q].kind]
  <2>1. CASE client[q].kind = "export"
    BY <2>1 DEF Stages, Stops, RequestMoves
  <2>2. CASE client[q].kind = "upload"
    BY <2>2 DEF Stages, Stops, RequestMoves
  <2>3. CASE client[q].kind = "import"
    BY <2>3 DEF Stages, Stops, RequestMoves
  <2> QED BY <1>2, <2>1, <2>2, <2>3 DEF Kinds
<1>6. RequestOK(q)'
  BY <1>1, <1>2, <1>4, <1>5 DEF RequestOK, Is, Stops, RequestMoves, SameRequest
<1> QED BY <1>3, <1>6

-----------------------------------------------------------------------------
(* What a step leaves of what holds of the requests that do not take it.   *)
LEMMA Calmer ==
  ASSUME FilesState, Frame, NEW p \in Clients, Begun(p)
  PROVE  /\ Undisturbed(p)' => Undisturbed(p)
         /\ \A r \in Candidates(p) : r \in Candidates(p)'
<1>1. \A r \in met[p] : r \in Clients /\ Begun(r) /\ r \in met'[p]
  BY DEF FilesState, MeetingsOK, Frame
<1>2. SameRequest(p) /\ \A r \in met[p] : SameRequest(r)
  BY <1>1 DEF Frame
<1>3. \A r \in met[p] : SameFolder(p, r) => SameFolder(p, r)'
  BY <1>2 DEF SameFolder, FolderOf, SameRequest
<1>4. Undisturbed(p)' => Undisturbed(p)
  BY <1>1, <1>3 DEF Undisturbed, Frame
<1>5. \A r \in met[p] : client[r].kind = "export" /\ ZipOf(r) = ZipOf(p)
                          => client'[r].kind = "export" /\ ZipOf(r)' = ZipOf(p)'
  BY <1>2 DEF ZipOf, SameRequest
<1> QED BY <1>1, <1>4, <1>5 DEF Candidates

(* A zip that was whole stays so while nobody writes it.                   *)
LEMMA ZipKept ==
  ASSUME FilesState, Frame, NEW p \in Clients, Begun(p), ZipIsWhole(p),
         client'[p].pc \in {"remove", "send"} /\ p \notin unsettled' =>
           client[p].pc \in {"remove", "send"} /\ disk'[ZipOf(p)] = disk[ZipOf(p)],
         client'[p].pc = "done" => client[p].pc = "done" /\ client'[p].answer = client[p].answer
  PROVE  ZipIsWhole(p)'
<1>1. SameRequest(p) /\ ZipOf(p)' = ZipOf(p)
  BY DEF Frame, SameRequest, ZipOf
<1>2. \A r \in Candidates(p) : r \in Candidates(p)'
  BY Calmer
<1>3. \A r \in Candidates(p) : r \in Clients /\ Begun(r)
  BY DEF Candidates, FilesState, MeetingsOK
<1>4. \A r \in Candidates(p) : Undisturbed(r)' => Undisturbed(r)
  BY <1>3, Calmer
<1>5. p \in Candidates(p)' /\ (Undisturbed(p)' => p \notin unsettled')
  BY DEF Candidates, Undisturbed
<1>6. \A r : BothParts(r)' = BothParts(r)
  BY DEF BothParts
<1>7. SUFFICES ASSUME client'[p].kind = "export", \A r \in Candidates(p)' : Undisturbed(r)'
               PROVE  /\ client'[p].pc \in {"remove", "send"} =>
                           \E r \in Candidates(p)' : disk'[ZipOf(p)'] = BothParts(r)'
                      /\ client'[p].pc = "done" => \E r \in Candidates(p)' : client'[p].answer = BothParts(r)'
  BY DEF ZipIsWhole
<1>8. client[p].kind = "export" /\ \A r \in Candidates(p) : Undisturbed(r)
  BY <1>1, <1>2, <1>4, <1>7 DEF SameRequest
<1> QED BY <1>1, <1>2, <1>5, <1>6, <1>7, <1>8 DEF ZipIsWhole

(* What broke or was gone for a cause keeps the cause.                     *)
LEMMA CauseKept ==
  ASSUME FilesState, Frame, NEW p \in Clients, GoneForACause(p), BrokenForACause(p),
         client'[p] = client[p]
  PROVE  GoneForACause(p)' /\ BrokenForACause(p)'
<1>1. RequestOK(p)
  BY DEF FilesState
<1>2. BrokenForACause(p)'
  <2>1. client[p].why = "broken" => Begun(p)
    BY <1>1 DEF RequestOK, Begun
  <2> QED BY <2>1, Calmer DEF BrokenForACause
<1>3. \A r \in Clients : client[p].kind = "import" /\ SameFolder(p, r) => SameFolder(p, r)'
  <2>1. \A r \in Clients : client[r].kind = "import" => SameRequest(r)
    BY DEF FilesState, RequestOK, Frame, Begun
  <2> QED BY <2>1 DEF SameFolder, FolderOf, SameRequest
<1>4. client[p].kind = "import" /\ LostForACause(client[p].folder, p)
        => LostForACause(client[p].folder, p)'
  BY <1>3 DEF LostForACause, Frame
<1> QED BY <1>2, <1>4 DEF GoneForACause

(* What is said of one request, its own files and the causes it has.       *)
OwnFiles(p) ==
  HomesStay(p) /\ FolderIsOwn(p) /\ InnerIsOwn(p) /\ ZipIsWhole(p) /\ BrokenForACause(p)
    /\ UploadFolderOK(p) /\ GoneForACause(p)

SameDisk ==
  /\ DOMAIN disk' = DOMAIN disk
  /\ \A path \in DOMAIN disk : disk'[path] = disk[path]

(* A request that does not move keeps its paths.                           *)
LEMMA SameOwnPaths ==
  ASSUME Frame, NEW p \in Clients, client'[p] = client[p]
  PROVE  /\ HomeOf(p)' = HomeOf(p) /\ FolderOf(p)' = FolderOf(p) /\ ZipOf(p)' = ZipOf(p)
         /\ \A f : Within(p, f)' = Within(p, f) /\ Content(p, f)' = Content(p, f)
         /\ (Begun(p)' <=> Begun(p))
BY DEF HomeOf, FolderOf, ZipOf, Within, Content, Begun

(* All of it rests on these entries.                                       *)
LEMMA OwnKept ==
  ASSUME FilesState, Frame, NEW p \in Clients, OwnFiles(p), client'[p] = client[p], Begun(p),
         p \notin unsettled' => \A u \in client[p].listed : Exists(<<u>>) => Exists(<<u>>)',
         p \notin unsettled' /\ client[p].pc \in RunningAt =>
           /\ client[p].pc \in {"make home"} => (Exists(HomeOf(p))' => Exists(HomeOf(p)))
           /\ Exists(HomeOf(p)) => Exists(HomeOf(p))'
           /\ Exists(ZipOf(p)) => Exists(ZipOf(p))',
         Undisturbed(p)' /\ p \in Running /\ client[p].kind # "import" =>
           /\ Exists(FolderOf(p)) <=> Exists(FolderOf(p))'
           /\ \A f : Exists(Within(p, f)) <=> Exists(Within(p, f))'
           /\ \A f : /\ Exists(Content(p, f)) <=> Exists(Content(p, f))'
                     /\ Exists(Content(p, f)) => disk'[Content(p, f)] = disk[Content(p, f)],
         ZipIsWhole(p)' \/ (client[p].kind = "export" /\ client[p].pc \in {"remove", "send"}
                               /\ p \notin unsettled' => disk'[ZipOf(p)] = disk[ZipOf(p)]),
         client[p].kind = "upload" =>
           /\ Exists(FolderOf(p))' => Exists(FolderOf(p))
           /\ \A f \in {"file", "metadata"} :
                Exists(Within(p, f)) => Exists(Within(p, f))' \/ ~Exists(FolderOf(p))'
  PROVE  OwnFiles(p)'
<1> USE SameOwnPaths
<1>1. RequestOK(p) /\ (p \in Running <=> client[p].pc \in RunningAt)
  BY DEF FilesState, Running
<1>2. (Undisturbed(p)' => Undisturbed(p)) /\ (p \notin unsettled' => p \notin unsettled)
        /\ (Undisturbed(p)' => p \notin unsettled')
  BY Calmer DEF Frame, Undisturbed
<1>3. HomesStay(p)'
  BY <1>1, <1>2 DEF OwnFiles, HomesStay, RunningAt
<1>4. FolderIsOwn(p)'
  <2>1. client[p].pc \in {"home", "make home", "make", "make inner", "write", "validate"} =>
          p \in Running /\ client[p].kind # "import"
    BY <1>1, StageFacts DEF RunningAt, OpeningAt
  <2> QED BY <1>2, <2>1 DEF OwnFiles, FolderIsOwn
<1>5. InnerIsOwn(p)'
  <2>1. client[p].pc \in {"write", "metadata", "zip"} => p \in Running
    BY <1>1 DEF RunningAt
  <2> QED BY <1>2, <2>1 DEF OwnFiles, InnerIsOwn
<1>6. ZipIsWhole(p)'
  BY ZipKept DEF OwnFiles, ZipIsWhole
<1>7. BrokenForACause(p)' /\ GoneForACause(p)'
  BY CauseKept DEF OwnFiles
<1>8. UploadFolderOK(p)'
  BY DEF OwnFiles, UploadFolderOK
<1> QED BY <1>3, <1>4, <1>5, <1>6, <1>7, <1>8 DEF OwnFiles

(* A step that changes nothing on disk leaves the others as they are, ...  *)
LEMMA OwnQuiet ==
  ASSUME FilesIInv, Frame, SameDisk, NEW p \in Clients, client'[p] = client[p]
  PROVE  Begun(p) => OwnFiles(p)'
<1> SUFFICES ASSUME Begun(p) PROVE OwnFiles(p)'
  OBVIOUS
<1>1. FilesState /\ OwnFiles(p) /\ \A path : Exists(path)' <=> Exists(path)
  BY DEF FilesIInv, OwnFiles, SameDisk, Exists
<1>2. /\ \A path : Exists(path) => disk'[path] = disk[path]
      /\ p \notin unsettled' /\ client[p].pc \in {"remove", "send"} => Exists(ZipOf(p))
  BY <1>1 DEF SameDisk, Exists, OwnFiles, HomesStay, Frame
<1> QED BY <1>1, <1>2, SameOwnPaths, OwnKept

(* Two that run in the same folder have met. *)
LEMMA FoldersMeet ==
  ASSUME FilesState, NEW q \in Clients, NEW p \in Clients, p # q, q \in Running, p \in Running,
         FolderOf(q) = FolderOf(p)
  PROVE  client[p].kind = "import" \/ ~Undisturbed(p)
<1>1. q \in met[p]
  BY DEF FilesState, MeetingsOK
<1>2. RequestOK(p) /\ RequestOK(q) /\ client[q].folder = client[p].folder /\ Begun(p) /\ Begun(q)
  BY RequestFacts DEF FolderOf
<1>3. /\ client[p].pc \notin {"idle", "done"}
      /\ client[p].kind \in {"upload", "import", "export"} /\ client[q].kind \in {"upload", "import", "export"}
  BY StageFacts DEF Running, RunningAt
<1>4. client[p].kind = "export" => client[q].kind = "export"
  BY <1>2, <1>3, PathNamesDiffer DEF RequestOK, Begun
<1>5. client[p].kind # "upload"
  BY <1>2, <1>3, PathNamesDiffer DEF RequestOK, Begun, Is
<1> QED BY <1>1, <1>3, <1>4, <1>5 DEF Undisturbed, SameFolder

(* ... so does the removal of a folder another request runs in, ...        *)
LEMMA OwnFolderGone ==
  ASSUME FilesIInv, Frame, NEW q \in Clients, q \in Running, NEW p \in Clients, p # q,
         client'[p] = client[p], FolderGone(client[q].user, client[q].folder)
  PROVE  Begun(p) => OwnFiles(p)'
<1> SUFFICES ASSUME Begun(p) PROVE OwnFiles(p)'
  OBVIOUS
<1> DEFINE u == client[q].user  x == client[q].folder
<1>1. FilesState /\ OwnFiles(p) /\ x \in FolderIds /\ client[p].name \in FileNames /\ client[p].name # x
  BY RequestFacts, PathNamesDiffer DEF FilesIInv, OwnFiles
<1>2. /\ Exists(HomeOf(p))' <=> Exists(HomeOf(p))
      /\ \A v : Exists(<<v>>)' <=> Exists(<<v>>)
      /\ Exists(ZipOf(p))' <=> Exists(ZipOf(p))
      /\ Exists(ZipOf(p)) => disk'[ZipOf(p)] = disk[ZipOf(p)]
  BY <1>1, SameOwnPaths DEF FolderGone, Exists, HomeOf, ZipOf
<1>3. p \notin unsettled' /\ client[p].pc \in {"remove", "send"} => Exists(ZipOf(p))
  BY <1>1 DEF OwnFiles, HomesStay, Frame
<1>4. ASSUME FolderOf(p) # FolderOf(q)
      PROVE  /\ Exists(FolderOf(p))' <=> Exists(FolderOf(p))
             /\ \A f : Exists(Within(p, f))' <=> Exists(Within(p, f))
             /\ \A f : /\ Exists(Content(p, f)) <=> Exists(Content(p, f))'
                       /\ Exists(Content(p, f)) => disk'[Content(p, f)] = disk[Content(p, f)]
  <2>1. client[p].user # u \/ client[p].folder # x
    BY <1>4 DEF FolderOf
  <2> QED BY <2>1, SameOwnPaths DEF FolderGone, Exists, FolderOf, Within, Content
<1>5. FolderOf(p) = FolderOf(q) => ~Exists(FolderOf(p))'
  BY SameOwnPaths DEF FolderGone, Exists, FolderOf
<1>6. Undisturbed(p)' /\ p \in Running /\ client[p].kind # "import" => FolderOf(p) # FolderOf(q)
  BY <1>1, FoldersMeet, Calmer
<1> QED BY <1>1, <1>2, <1>3, <1>4, <1>5, <1>6, OwnKept

(* ... and the removal of a home, for those it does not unsettle.          *)
LEMMA OwnHomeGone ==
  ASSUME FilesIInv, Frame, NEW u \in Users, NEW p \in Clients, client'[p] = client[p], HomeGone(u),
         p \in Running /\ (client[p].user = u \/ u \in client[p].listed) => p \in unsettled'
  PROVE  Begun(p) => OwnFiles(p)'
<1> SUFFICES ASSUME Begun(p) PROVE OwnFiles(p)'
  OBVIOUS
<1>1. FilesState /\ OwnFiles(p) /\ RequestOK(p)
  BY DEF FilesIInv, OwnFiles, FilesState
<1>2. client[p].listed # {} => p \in Running
  BY <1>1 DEF RequestOK, Running, RunningAt
<1>3. \A v : Exists(<<v>>)' <=> Exists(<<v>>) /\ v # u
  BY DEF HomeGone, Exists
<1>4. client[p].pc \in {"remove", "send"} => p \in Running
  BY DEF Running, RunningAt
<1>5. p \notin unsettled' /\ client[p].pc \in {"remove", "send"} => Exists(ZipOf(p))
  BY <1>1 DEF OwnFiles, HomesStay, Frame
<1>6. ASSUME client[p].user # u
      PROVE  /\ Exists(HomeOf(p))' <=> Exists(HomeOf(p))
             /\ Exists(ZipOf(p))' <=> Exists(ZipOf(p))
             /\ Exists(ZipOf(p)) => disk'[ZipOf(p)] = disk[ZipOf(p)]
             /\ Exists(FolderOf(p))' <=> Exists(FolderOf(p))
             /\ \A f : Exists(Within(p, f))' <=> Exists(Within(p, f))
             /\ \A f : /\ Exists(Content(p, f)) <=> Exists(Content(p, f))'
                       /\ Exists(Content(p, f)) => disk'[Content(p, f)] = disk[Content(p, f)]
  BY <1>6, SameOwnPaths DEF HomeGone, Exists, HomeOf, ZipOf, FolderOf, Within, Content
<1>7. client[p].user = u => ~Exists(FolderOf(p))'
  BY SameOwnPaths DEF HomeGone, Exists, FolderOf
<1>8. client[p].pc \in RunningAt <=> p \in Running
  BY DEF Running
<1>9. Undisturbed(p)' => p \notin unsettled'
  BY DEF Undisturbed
<1>10. Exists(HomeOf(p))' => Exists(HomeOf(p))
  BY <1>3, SameOwnPaths DEF HomeOf
<1> QED BY <1>1, <1>2, <1>3, <1>4, <1>5, <1>6, <1>7, <1>8, <1>9, <1>10, OwnKept

(* What one running request puts on disk is not another's. *)
LEMMA OwnPut ==
  ASSUME FilesIInv, Frame, NEW q \in Clients, q \in Running, client[q].kind # "import",
         NEW p \in Clients, p # q, client'[p] = client[p], NEW path, NEW pieces, Put(path, pieces),
         \/ path = HomeOf(q) /\ (client[p].pc = "make home" /\ HomeOf(p) = HomeOf(q) => p \in unsettled')
         \/ path = FolderOf(q)
         \/ \E f : path = Within(q, f) \/ path = Content(q, f)
         \/ path = ZipOf(q) /\ (ZipOf(p) = ZipOf(q) => ZipIsWhole(p)')
  PROVE  Begun(p) => OwnFiles(p)'
<1> SUFFICES ASSUME Begun(p) PROVE OwnFiles(p)'
  OBVIOUS
<1>1. FilesState /\ OwnFiles(p) /\ RequestOK(p) /\ RequestOK(q) /\ Begun(q)
        /\ client[q].folder \in FolderIds /\ client[p].folder \in FolderIds
        /\ client[q].name \in FileNames /\ client[p].name \in FileNames
        /\ (p \in Running <=> client[p].pc \in RunningAt)
  BY RequestFacts DEF FilesIInv, OwnFiles, FilesState
<1>2. /\ \A r : Exists(r)' <=> Exists(r) \/ r = path
      /\ \A r : Exists(r) /\ r # path => disk'[r] = disk[r]
  BY DEF Put, Exists
<1>3. client[p].pc = "make home" /\ p \notin unsettled' => path # HomeOf(p)
  <2>1. /\ HomeOf(p) # FolderOf(q) /\ HomeOf(p) # ZipOf(q)
        /\ \A f : HomeOf(p) # Within(q, f) /\ HomeOf(p) # Content(q, f)
    BY DEF HomeOf, FolderOf, ZipOf, Within, Content
  <2> QED BY <2>1
<1>4. FolderOf(p) # ZipOf(q) /\ ZipOf(p) # FolderOf(q)
  BY <1>1, PathNamesDiffer DEF FolderOf, ZipOf
<1>5. path = ZipOf(p) => ZipIsWhole(p)'
  <2>1. ZipOf(p) # HomeOf(q) /\ \A f : ZipOf(p) # Within(q, f) /\ ZipOf(p) # Content(q, f)
    BY DEF ZipOf, HomeOf, Within, Content
  <2> QED BY <1>4, <2>1
<1>6. ASSUME FolderOf(p) # FolderOf(q)
      PROVE  path # FolderOf(p) /\ \A f : path # Within(p, f) /\ path # Content(p, f)
  <2>1. /\ FolderOf(p) # HomeOf(q)
        /\ \A f : FolderOf(p) # Within(q, f) /\ FolderOf(p) # Content(q, f)
    BY DEF FolderOf, HomeOf, Within, Content
  <2>2. \A f : /\ Within(p, f) # HomeOf(q) /\ Within(p, f) # FolderOf(q) /\ Within(p, f) # ZipOf(q)
               /\ \A g : Within(p, f) # Within(q, g) /\ Within(p, f) # Content(q, g)
    BY <1>6 DEF FolderOf, HomeOf, ZipOf, Within, Content
  <2>3. \A f : /\ Content(p, f) # HomeOf(q) /\ Content(p, f) # FolderOf(q) /\ Content(p, f) # ZipOf(q)
               /\ \A g : Content(p, f) # Within(q, g) /\ Content(p, f) # Content(q, g)
    BY <1>6 DEF FolderOf, HomeOf, ZipOf, Within, Content
  <2> QED BY <1>4, <1>6, <2>1, <2>2, <2>3
<1>7. Undisturbed(p)' /\ p \in Running /\ client[p].kind # "import" => FolderOf(p) # FolderOf(q)
  BY <1>1, FoldersMeet, Calmer
<1>8. client[p].kind = "upload" => FolderOf(p) # FolderOf(q)
  <2>1. client[q].kind \in {"upload", "export"}
    BY <1>1, StageFacts
  <2> QED BY <1>1, <2>1, PathNamesDiffer DEF RequestOK, Begun, FolderOf
<1>9. p \notin unsettled' /\ client[p].pc \in {"remove", "send"} => Exists(ZipOf(p))
  BY <1>1 DEF OwnFiles, HomesStay, Frame
<1> QED BY <1>1, <1>2, <1>3, <1>5, <1>6, <1>7, <1>8, <1>9, SameOwnPaths, OwnKept


-----------------------------------------------------------------------------
(* Uploads that wait, and old homes.                                       *)
LEMMA AgedKept ==
  ASSUME FilesState, Frame, NEW d \in Clients, AgedAfter(d), aged' \subseteq aged,
         client'[d].kind = "upload" /\ client'[d].pc \in {"write", "validate", "done"} =>
           client[d].kind = "upload" /\ client[d].pc \in {"write", "validate", "done"},
         \A e \in Clients : \A u \in client'[e].victim : u \in client[e].victim \/ u \in aged
  PROVE  AgedAfter(d)'
<1>1. Begun(d) => client'[d].user = client[d].user
  BY DEF Frame, SameRequest
<1> QED BY <1>1 DEF AgedAfter, Frame, Begun

(* An upload that waits goes on waiting, unless its folder goes.           *)
LEMMA WaitsKept ==
  ASSUME FilesState, Frame, NEW d \in Clients, UploadWaits(d),
         Is(d, {"upload"}, "done")' => Is(d, {"upload"}, "done"),
         \A i \in ImportsOf(d) : client'[i].pc \in {"read", "drop"} => client[i].pc \in {"read", "drop"},
         Is(d, {"upload"}, "done") /\ d \notin waited' /\ d \notin unsettled'
           /\ (\A i \in ImportsOf(d) : client'[i].pc \in {"read", "drop"})
           => (Exists(FolderOf(d)) => Exists(FolderOf(d))')
  PROVE  UploadWaits(d)'
<1>1. \A i \in ImportsOf(d) : i \in Clients /\ i \in ImportsOf(d)'
  BY DEF ImportsOf, FilesState, RequestOK, Frame, SameRequest, Begun
<1>2. SUFFICES ASSUME Is(d, {"upload"}, "done")', d \notin waited', d \notin unsettled',
                      \A i \in ImportsOf(d)' : client'[i].pc \in {"read", "drop"}
               PROVE  Exists(FolderOf(d))'
  BY DEF UploadWaits
<1>3. Is(d, {"upload"}, "done") /\ \A i \in ImportsOf(d) : client[i].pc \in {"read", "drop"}
  BY <1>1, <1>2
<1>4. d \notin waited /\ d \notin unsettled
  BY <1>2 DEF Frame
<1> QED BY <1>1, <1>2, <1>3, <1>4 DEF UploadWaits

(* Who accounts for a folder goes on to, or the folder goes.               *)
LEMMA FoldersKeepACause ==
  ASSUME FilesIInv, Frame, NEW q \in Clients, \A p \in Clients : p # q => client'[p] = client[p],
         \A u \in Users, x \in FolderIds :
           Exists(<<u, x>>)' => Exists(<<u, x>>) \/ (FolderOf(q)' = <<u, x>> /\ AccountsFor(q)'),
         AccountsFor(q) /\ FolderOf(q) \in DOMAIN disk' => AccountsFor(q)' /\ FolderOf(q)' = FolderOf(q),
         \A d \in Clients : q \in ImportsOf(d)' \ ImportsOf(d) =>
           (AccountsFor(q)' /\ FolderOf(q)' = FolderOf(d)) \/ ~Exists(FolderOf(d))'
  PROVE  FoldersHaveACause'
<1> SUFFICES ASSUME NEW u \in Users, NEW x \in FolderIds, Exists(<<u, x>>)'
             PROVE  \E r \in Clients : FolderOf(r)' = <<u, x>> /\ AccountsFor(r)'
  BY DEF FoldersHaveACause
<1>1. CASE FolderOf(q)' = <<u, x>> /\ AccountsFor(q)'
  BY <1>1
<1>2. CASE Exists(<<u, x>>)
  <2>1. PICK r \in Clients : FolderOf(r) = <<u, x>> /\ AccountsFor(r)
    BY <1>2 DEF FilesIInv, FoldersHaveACause
  <2>2. CASE r = q
    BY <2>1, <2>2 DEF Exists
  <2>3. CASE r # q
    <3>1. client'[r] = client[r] /\ FolderOf(r)' = FolderOf(r)
      BY <2>3 DEF FolderOf
    <3>2. CASE q \in ImportsOf(r)' \ ImportsOf(r)
      BY <2>1, <3>1, <3>2
    <3>3. CASE q \notin ImportsOf(r)' \ ImportsOf(r)
      <4>1. \A i \in Clients : i \in ImportsOf(r)' => i \in ImportsOf(r)
        BY <3>3 DEF ImportsOf
      <4>2. ImportsOf(r) = {} => ImportsOf(r)' = {}
        BY <4>1 DEF ImportsOf
      <4>3. AccountsFor(r)'
        BY <2>1, <3>1, <4>2 DEF AccountsFor, Is
      <4> QED BY <2>1, <3>1, <4>3
    <3> QED BY <3>2, <3>3
  <2> QED BY <2>2, <2>3
<1> QED BY <1>1, <1>2

-----------------------------------------------------------------------------
(* A step of one running request, by what it does on disk.                 *)
LEMMA IdleOwn ==
  ASSUME NEW p \in Clients, RequestOK(p)', client'[p].pc = "idle"
  PROVE  OwnFiles(p)' /\ AgedAfter(p)' /\ UploadWaits(p)'
<1>1. client'[p].why = "" /\ client'[p].listed = {}
  BY DEF RequestOK
<1>2. HomesStay(p)' /\ FolderIsOwn(p)' /\ InnerIsOwn(p)'
  BY <1>1 DEF HomesStay, FolderIsOwn, InnerIsOwn
<1>3. ZipIsWhole(p)' /\ BrokenForACause(p)' /\ UploadFolderOK(p)' /\ GoneForACause(p)'
  BY <1>1 DEF ZipIsWhole, BrokenForACause, UploadFolderOK, GoneForACause, Begun
<1> QED BY <1>2, <1>3 DEF OwnFiles, AgedAfter, UploadWaits, Is

(* The invariant after a step of q, from its parts.                        *)
LEMMA Assembles ==
  ASSUME FilesIInv, NEW q \in Clients, client' \in [Clients -> ClientState], AgesWell,
         DiskOK', MeetingsOK', FoldersHaveACause', \A p \in Clients : RequestOK(p)',
         \A p \in Clients : p # q => client'[p] = client[p],
         \A p \in Clients : p # q /\ Begun(p) => OwnFiles(p)', OwnFiles(q)',
         \A p \in Clients : AgedAfter(p)' /\ UploadWaits(p)'
  PROVE  FilesIInv'
<1>1. (aged \subseteq {u \in Users : Exists(<<u>>)})'
  BY DEF FilesIInv, FilesState, AgesWell, Exists
<1>2. \A p \in Clients : p # q /\ ~Begun(p) => OwnFiles(p)'
  BY IdleOwn DEF Begun
<1> QED BY <1>1, <1>2 DEF FilesIInv, FilesState, OwnFiles

(* A request that moves and leaves the disk alone keeps the invariant.     *)
LEMMA QuietStep ==
  ASSUME FilesIInv, NEW q \in Clients, q \in Running, NEW pc \in RequestLabels \ {"idle"}, NEW why, NEW listed,
         NEW victim, NEW answer, RequestMoves(q, pc, why, listed, victim, answer),
         UNCHANGED <<disk, aged, met, unsettled, waited>>,
         client[q].kind = "upload" => pc \notin {"write", "validate", "done"},
         pc \in {"read", "drop"} => client[q].pc \in {"read", "drop"},
         \A u \in victim : u \in client[q].victim \/ u \in aged,
         AccountsFor(q)' \/ ~AccountsFor(q) \/ ~Exists(FolderOf(q)),
         \A p \in Clients : RequestOK(p)', OwnFiles(q)'
  PROVE  FilesIInv'
<1>1. FilesState /\ unsettled \subseteq {r \in Clients : Begun(r)}
  BY DEF FilesIInv, FilesState, MeetingsOK
<1>2. Frame /\ MeetingsOK'
  BY <1>1, MoveIsFrame, MeetingsKept
<1>3. client' \in [Clients -> ClientState] /\ \A p \in Clients : p # q => client'[p] = client[p]
  BY DEF RequestMoves
<1>4. DiskOK' /\ SameDisk /\ \A path : Exists(path)' <=> Exists(path)
  BY <1>1 DEF FilesState, DiskOK, Exists, SameDisk
<1>5. AgesWell
  BY <1>1 DEF FilesState, AgesWell, Exists
<1>6. \A p \in Clients : p # q /\ Begun(p) => OwnFiles(p)'
  BY <1>2, <1>3, <1>4, OwnQuiet
<1>7. FolderOf(q)' = FolderOf(q) /\ \A d : q \in ImportsOf(d)' => q \in ImportsOf(d)
  BY DEF RequestMoves, SameRequest, FolderOf, ImportsOf
<1>8. FoldersHaveACause'
  <2>1. \A u \in Users, x \in FolderIds :
           Exists(<<u, x>>)' => Exists(<<u, x>>) \/ (FolderOf(q)' = <<u, x>> /\ AccountsFor(q)')
    <3>1. \A u \in Users, x \in FolderIds : Exists(<<u, x>>)' => Exists(<<u, x>>)
      BY <1>4 DEF SameDisk, Exists
    <3> QED BY <3>1
  <2>2. AccountsFor(q) /\ FolderOf(q) \in DOMAIN disk' => AccountsFor(q)' /\ FolderOf(q)' = FolderOf(q)
    BY <1>4, <1>7 DEF SameDisk, Exists
  <2>3. \A d \in Clients : q \in ImportsOf(d)' \ ImportsOf(d) =>
           (AccountsFor(q)' /\ FolderOf(q)' = FolderOf(d)) \/ ~Exists(FolderOf(d))'
    BY <1>7
  <2> QED BY <1>2, <1>3, <2>1, <2>2, <2>3, FoldersKeepACause
<1>9. \A d \in Clients : AgedAfter(d)'
  <2> TAKE d \in Clients
  <2>1. /\ client'[d].kind = "upload" /\ client'[d].pc \in {"write", "validate", "done"} =>
              client[d].kind = "upload" /\ client[d].pc \in {"write", "validate", "done"}
        /\ \A e \in Clients : \A u \in client'[e].victim : u \in client[e].victim \/ u \in aged
    BY DEF RequestMoves, SameRequest
  <2> QED BY <1>1, <1>2, <2>1, AgedKept DEF FilesIInv
<1>10. \A d \in Clients : UploadWaits(d)'
  <2> TAKE d \in Clients
  <2>1. /\ Is(d, {"upload"}, "done")' => Is(d, {"upload"}, "done")
        /\ \A i \in ImportsOf(d) : client'[i].pc \in {"read", "drop"} => client[i].pc \in {"read", "drop"}
    BY DEF RequestMoves, SameRequest, Is, ImportsOf
  <2>2. Is(d, {"upload"}, "done") => FolderOf(d)' = FolderOf(d)
    BY <1>2 DEF Is, Frame, Begun, SameRequest, FolderOf
  <2> QED BY <1>1, <1>2, <1>4, <2>1, <2>2, WaitsKept DEF FilesIInv
<1> QED BY <1>2, <1>3, <1>4, <1>5, <1>6, <1>8, <1>9, <1>10, Assembles

(* What is between two requests does not change when only one goes on.     *)
LEMMA StillDisturbed ==
  ASSUME FilesState, Frame, NEW q \in Clients, Begun(q), met' = met, q \in unsettled' <=> q \in unsettled
  PROVE  Undisturbed(q)' <=> Undisturbed(q)
<1>1. \A r \in met[q] : r \in Clients /\ SameRequest(r) /\ SameRequest(q)
  BY DEF FilesState, MeetingsOK, Frame
<1>2. \A r \in met[q] : SameFolder(q, r)' <=> SameFolder(q, r)
  BY <1>1 DEF SameFolder, FolderOf, SameRequest
<1> QED BY <1>2 DEF Undisturbed

(* A request may stop for a reason of its own, or broken for a cause.      *)
LEMMA StopStep ==
  ASSUME FilesIInv, NEW q \in Clients, q \in Running, NEW why \in {"own", "broken"}, Stops(q, why),
         UNCHANGED <<disk, aged, met, unsettled, waited>>,
         why = "broken" /\ client[q].kind # "import" => ~Undisturbed(q),
         why = "broken" /\ client[q].kind = "import" => LostForACause(client[q].folder, q)
  PROVE  FilesIInv'
<1> DEFINE pc == IF client[q].kind = "export" THEN "failed" ELSE "clean"
<1>1. FilesState /\ Begun(q) /\ pc \in {"clean", "failed"} /\ pc \in RequestLabels \ {"idle"}
  BY RequestFacts DEF FilesIInv, RequestLabels, RunningAt
<1>2. RequestMoves(q, pc, why, {}, {}, client[q].answer)
  BY DEF Stops
<1>3. Frame
  BY <1>1, <1>2, MoveIsFrame
<1>4. \A p \in Clients : RequestOK(p)'
  BY <1>1, RequestStops
<1>5. Undisturbed(q)' <=> Undisturbed(q)
  BY <1>1, <1>3, StillDisturbed
<1>6. client'[q].pc = pc /\ client'[q].why = why /\ client'[q].listed = {} /\ SameRequest(q)
  BY <1>2 DEF RequestMoves
<1>7. HomesStay(q)' /\ FolderIsOwn(q)' /\ InnerIsOwn(q)' /\ ZipIsWhole(q)' /\ UploadFolderOK(q)'
  BY <1>1, <1>6 DEF HomesStay, FolderIsOwn, InnerIsOwn, ZipIsWhole, UploadFolderOK, OpeningAt
<1>8. BrokenForACause(q)'
  BY <1>5, <1>6 DEF BrokenForACause, SameRequest
<1>9. GoneForACause(q)'
  <2>1. \A r \in Clients : client[r].kind = "import" => SameRequest(r)
    BY <1>1, <1>3 DEF FilesState, RequestOK, Frame, Begun
  <2>2. \A r \in Clients : client[q].kind = "import" /\ SameFolder(q, r) => SameFolder(q, r)'
    BY <1>6, <2>1 DEF SameFolder, FolderOf, SameRequest
  <2>3. client[q].kind = "import" /\ LostForACause(client[q].folder, q)
          => LostForACause(client[q].folder, q)'
    BY <1>6, <2>2 DEF LostForACause, SameRequest
  <2> QED BY <1>6, <2>3 DEF GoneForACause, SameRequest
<1>10. AccountsFor(q)'
  BY <1>6, StageFacts DEF AccountsFor, RunningAt, SameRequest
<1>11. OwnFiles(q)'
  BY <1>7, <1>8, <1>9 DEF OwnFiles
<1> HIDE DEF pc
<1> QED BY <1>1, <1>2, <1>4, <1>10, <1>11, QuietStep

(* A request removes its own folder.                                       *)
LEMMA ClearStep ==
  ASSUME FilesIInv, NEW q \in Clients, q \in Running, NEW pc \in RequestLabels \ {"idle", "read", "drop"},
         Advances(q, pc), async_delete_dir(FolderOf(q)), UNCHANGED <<met, unsettled, waited>>,
         client[q].kind = "upload" => pc \notin {"write", "validate", "done"},
         \A p \in Clients : RequestOK(p)', OwnFiles(q)'
  PROVE  FilesIInv'
<1> DEFINE u == client[q].user  x == client[q].folder
<1>1. FilesState /\ Begun(q) /\ u \in Users /\ x \in FolderIds /\ unsettled \subseteq {r \in Clients : Begun(r)}
  BY RequestFacts DEF FilesIInv, FilesState, MeetingsOK
<1>2. Frame /\ MeetingsOK'
  BY <1>1, MoveIsFrame, MeetingsKept DEF Advances
<1>3. client' \in [Clients -> ClientState] /\ \A p \in Clients : p # q => client'[p] = client[p]
  BY DEF Advances, RequestMoves
<1>4. FolderGone(u, x) /\ AgesWell
  BY FolderGoes DEF FolderOf
<1>5. DiskOK'
  BY <1>1, <1>4, DiskOKFolderGone DEF FilesState
<1>6. \A p \in Clients : p # q /\ Begun(p) => OwnFiles(p)'
  BY <1>2, <1>3, <1>4, OwnFolderGone
<1>7. \A d : q \in ImportsOf(d)' => q \in ImportsOf(d)
  BY DEF Advances, RequestMoves, SameRequest, ImportsOf
<1>8. FoldersHaveACause'
  <2>1. \A v \in Users, y \in FolderIds :
           Exists(<<v, y>>)' => Exists(<<v, y>>) \/ (FolderOf(q)' = <<v, y>> /\ AccountsFor(q)')
    <3>1. \A v \in Users, y \in FolderIds : Exists(<<v, y>>)' => Exists(<<v, y>>)
      BY <1>4 DEF FolderGone, Exists
    <3> QED BY <3>1
  <2>2. AccountsFor(q) /\ FolderOf(q) \in DOMAIN disk' => AccountsFor(q)' /\ FolderOf(q)' = FolderOf(q)
    BY <1>4 DEF FolderGone, FolderOf
  <2>3. \A d \in Clients : q \in ImportsOf(d)' \ ImportsOf(d) =>
           (AccountsFor(q)' /\ FolderOf(q)' = FolderOf(d)) \/ ~Exists(FolderOf(d))'
    BY <1>7
  <2> QED BY <1>2, <1>3, <2>1, <2>2, <2>3, FoldersKeepACause
<1>9. \A d \in Clients : AgedAfter(d)'
  <2> TAKE d \in Clients
  <2>1. /\ client'[d].kind = "upload" /\ client'[d].pc \in {"write", "validate", "done"} =>
              client[d].kind = "upload" /\ client[d].pc \in {"write", "validate", "done"}
        /\ \A e \in Clients : \A v \in client'[e].victim : v \in client[e].victim \/ v \in aged
    BY DEF Advances, RequestMoves, SameRequest
  <2> QED BY <1>1, <1>2, <1>4, <2>1, AgedKept DEF FilesIInv, AgesWell
<1>10. \A d \in Clients : UploadWaits(d)'
  <2> TAKE d \in Clients
  <2>1. /\ Is(d, {"upload"}, "done")' => Is(d, {"upload"}, "done")
        /\ \A i \in ImportsOf(d) : client'[i].pc \in {"read", "drop"} => client[i].pc \in {"read", "drop"}
    BY DEF Advances, RequestMoves, SameRequest, Is, ImportsOf
  <2>2. SUFFICES ASSUME Is(d, {"upload"}, "done"), Exists(FolderOf(d)),
                        \A i \in ImportsOf(d) : client'[i].pc \in {"read", "drop"}
                 PROVE  Exists(FolderOf(d))'
    BY <1>1, <1>2, <2>1, WaitsKept DEF FilesIInv
  <2>3. q \notin ImportsOf(d)
    BY <2>2 DEF Advances, RequestMoves
  <2>4. d # q /\ FolderOf(d)' = FolderOf(d)
    BY <2>2, <1>3 DEF Is, Running, RunningAt, FolderOf
  <2>5. x # d
    <3>1. RequestOK(q)
      BY <1>1 DEF FilesState
    <3> QED BY <1>1, <2>2, <2>3, <2>4, <3>1, StageFacts, PathNamesDiffer DEF RequestOK, ImportsOf, Begun
  <2>6. client[d].folder = d
    BY <1>1, <2>2 DEF FilesState, RequestOK, Is
  <2> QED BY <1>4, <2>2, <2>4, <2>5, <2>6 DEF FolderGone, Exists, FolderOf
<1> QED BY <1>2, <1>3, <1>4, <1>5, <1>6, <1>8, <1>9, <1>10, Assembles

(* A request puts one entry on disk.                                       *)
LEMMA PutStep ==
  ASSUME FilesIInv, NEW q \in Clients, q \in Running, NEW pc \in RequestLabels \ {"idle", "read", "drop"},
         NEW why, NEW listed, NEW victim, NEW answer,
         RequestMoves(q, pc, why, listed, victim, answer), victim \subseteq client[q].victim,
         NEW path, NEW pieces, Stored(WithFile(path, pieces)), DiskOK',
         met' = met, unsettled \subseteq unsettled', unsettled' \subseteq unsettled \cup Running,
         waited' = waited, client[q].kind # "import",
         \A p \in Clients : p # q /\ Begun(p) =>
           \/ /\ path = HomeOf(q)
              /\ client[p].pc = "make home" /\ HomeOf(p) = HomeOf(q) => p \in unsettled'
           \/ path = FolderOf(q)
           \/ \E f : path = Within(q, f) \/ path = Content(q, f)
           \/ path = ZipOf(q) /\ (ZipOf(p) = ZipOf(q) => ZipIsWhole(p)'),
         \A u \in Users, x \in FolderIds : path = <<u, x>> => path = FolderOf(q),
         AccountsFor(q)', AgedAfter(q)', UploadWaits(q)',
         \A p \in Clients : RequestOK(p)', OwnFiles(q)'
  PROVE  FilesIInv'
<1>1. FilesState /\ Begun(q) /\ unsettled' \subseteq {r \in Clients : Begun(r)}
  BY RequestFacts DEF FilesIInv, FilesState, MeetingsOK, Running, Begun, RunningAt
<1>2. Frame /\ MeetingsOK'
  BY <1>1, MoveIsFrame, MeetingsKept
<1>3. client' \in [Clients -> ClientState] /\ \A p \in Clients : p # q => client'[p] = client[p]
  BY DEF RequestMoves
<1>4. Put(path, pieces) /\ AgesWell
  BY Puts
<1>5. \A p \in Clients : p # q /\ Begun(p) => OwnFiles(p)'
  BY <1>2, <1>3, <1>4, OwnPut
<1>6. FolderOf(q)' = FolderOf(q) /\ \A d : q \in ImportsOf(d)' => q \in ImportsOf(d)
  BY DEF RequestMoves, SameRequest, ImportsOf, FolderOf
<1>7. FoldersHaveACause'
  <2>1. \A v \in Users, y \in FolderIds :
           Exists(<<v, y>>)' => Exists(<<v, y>>) \/ (FolderOf(q)' = <<v, y>> /\ AccountsFor(q)')
    BY <1>4, <1>6 DEF Put, Exists
  <2>2. AccountsFor(q) /\ FolderOf(q) \in DOMAIN disk' => AccountsFor(q)' /\ FolderOf(q)' = FolderOf(q)
    BY <1>6
  <2>3. \A d \in Clients : q \in ImportsOf(d)' \ ImportsOf(d) =>
           (AccountsFor(q)' /\ FolderOf(q)' = FolderOf(d)) \/ ~Exists(FolderOf(d))'
    BY <1>6
  <2> QED BY <1>2, <1>3, <2>1, <2>2, <2>3, FoldersKeepACause
<1>8. \A d \in Clients : d # q => AgedAfter(d)'
  <2> TAKE d \in Clients
  <2> HAVE d # q
  <2>1. /\ client'[d].kind = "upload" /\ client'[d].pc \in {"write", "validate", "done"} =>
              client[d].kind = "upload" /\ client[d].pc \in {"write", "validate", "done"}
        /\ \A e \in Clients : \A v \in client'[e].victim : v \in client[e].victim \/ v \in aged
    BY DEF RequestMoves, SameRequest
  <2> QED BY <1>1, <1>2, <1>4, <2>1, AgedKept DEF FilesIInv, AgesWell
<1>9. \A d \in Clients : d # q => UploadWaits(d)'
  <2> TAKE d \in Clients
  <2> HAVE d # q
  <2>1. /\ Is(d, {"upload"}, "done")' => Is(d, {"upload"}, "done")
        /\ \A i \in ImportsOf(d) : client'[i].pc \in {"read", "drop"} => client[i].pc \in {"read", "drop"}
    BY DEF RequestMoves, SameRequest, Is, ImportsOf
  <2>2. Exists(FolderOf(d)) => Exists(FolderOf(d))'
    BY <1>3, <1>4 DEF Put, Exists, FolderOf
  <2> QED BY <1>1, <1>2, <2>1, <2>2, WaitsKept DEF FilesIInv
<1> QED BY <1>2, <1>3, <1>4, <1>5, <1>7, <1>8, <1>9, Assembles

(* A request writes a file into its own folder.                            *)
LEMMA PutInside ==
  ASSUME FilesIInv, NEW q \in Clients, q \in Running, NEW pc \in RequestLabels \ {"idle", "read", "drop"},
         NEW why, NEW listed, NEW victim, NEW answer,
         RequestMoves(q, pc, why, listed, victim, answer), victim \subseteq client[q].victim,
         NEW f, NEW path, path = Within(q, f) \/ path = Content(q, f),
         NEW pieces, Stored(WithFile(path, pieces)), DiskOK',
         UNCHANGED <<met, unsettled, waited>>, client[q].kind # "import",
         AccountsFor(q)', AgedAfter(q)', UploadWaits(q)',
         \A p \in Clients : RequestOK(p)', OwnFiles(q)'
  PROVE  FilesIInv'
<1>1. met' = met /\ unsettled \subseteq unsettled' /\ unsettled' \subseteq unsettled \cup Running
        /\ waited' = waited
  OBVIOUS
<1>2. \E g : path = Within(q, g) \/ path = Content(q, g)
  OBVIOUS
<1>3. \A p \in Clients : p # q /\ Begun(p) =>
        \/ /\ path = HomeOf(q)
           /\ client[p].pc = "make home" /\ HomeOf(p) = HomeOf(q) => p \in unsettled'
        \/ path = FolderOf(q)
        \/ \E g : path = Within(q, g) \/ path = Content(q, g)
        \/ path = ZipOf(q) /\ (ZipOf(p) = ZipOf(q) => ZipIsWhole(p)')
  BY <1>2
<1>4. \A u \in Users, x \in FolderIds : path = <<u, x>> => path = FolderOf(q)
  <2>1. \A u, x : Within(q, f) # <<u, x>> /\ Content(q, f) # <<u, x>>
    BY DEF Within, Content
  <2> QED BY <2>1
<1> QED BY <1>1, <1>3, <1>4, PutStep

-----------------------------------------------------------------------------
(* The steps one by one.                                                   *)
LEMMA Facts ==
  ASSUME FilesIInv, NEW q \in Clients
  PROVE  FilesState /\ OwnFiles(q) /\ RequestOK(q) /\ AgedAfter(q) /\ UploadWaits(q)
BY DEF FilesIInv, OwnFiles, FilesState

(* A request goes on with nothing but its label changed. *)
Onward(q, pc) ==
  /\ Frame /\ (Undisturbed(q)' <=> Undisturbed(q))
  /\ HomeOf(q)' = HomeOf(q) /\ FolderOf(q)' = FolderOf(q) /\ ZipOf(q)' = ZipOf(q)
  /\ \A f : Within(q, f)' = Within(q, f) /\ Content(q, f)' = Content(q, f)
  /\ client'[q].pc = pc /\ client'[q].why = client[q].why /\ client'[q].listed = client[q].listed
  /\ client'[q].victim = client[q].victim /\ SameRequest(q) /\ Begun(q) /\ Begun(q)'
  /\ client[q].pc # "clean" => client[q].why = "" /\ BrokenForACause(q)' /\ GoneForACause(q)'

(* A running request that advances goes Onward.                            *)
LEMMA AdvanceOwn ==
  ASSUME FilesIInv, NEW q \in Clients, q \in Running, NEW pc \in RequestLabels \ {"idle"}, Advances(q, pc),
         met' = met, waited' = waited, unsettled \subseteq unsettled', q \in unsettled' <=> q \in unsettled
  PROVE  Onward(q, pc)
<1>1. FilesState /\ RequestOK(q) /\ Begun(q) /\ client[q].pc \notin {"idle", "done", "failed"}
  BY Facts, RequestFacts DEF Running, RunningAt
<1>2. Frame
  BY <1>1, MoveIsFrame DEF Advances
<1>3. Undisturbed(q)' <=> Undisturbed(q)
  BY <1>1, <1>2, StillDisturbed
<1>4. /\ HomeOf(q)' = HomeOf(q) /\ FolderOf(q)' = FolderOf(q) /\ ZipOf(q)' = ZipOf(q)
      /\ \A f : Within(q, f)' = Within(q, f) /\ Content(q, f)' = Content(q, f)
  BY DEF Advances, RequestMoves, SameRequest, HomeOf, FolderOf, ZipOf, Within, Content
<1>5. /\ client'[q].pc = pc /\ client'[q].why = client[q].why /\ client'[q].listed = client[q].listed
      /\ client'[q].victim = client[q].victim /\ SameRequest(q)
  BY DEF Advances, RequestMoves
<1>6. client[q].pc # "clean" => client[q].why = ""
  BY <1>1 DEF RequestOK
<1>7. client[q].pc # "clean" => BrokenForACause(q)' /\ GoneForACause(q)'
  BY <1>5, <1>6 DEF BrokenForACause, GoneForACause
<1>8. Begun(q)'
  BY <1>5 DEF Begun
<1> QED BY <1>1, <1>2, <1>3, <1>4, <1>5, <1>6, <1>7, <1>8 DEF Onward

(* Look at one home of the list.                                           *)
LEMMA LookKeeps == ASSUME FilesIInv, NEW q \in Clients, Look(q) PROVE FilesIInv'
<1>1. /\ client[q].pc = "sweep" /\ FilesState /\ OwnFiles(q) /\ RequestOK(q) /\ q \in Running /\ Begun(q)
      /\ client[q].listed \subseteq Users /\ UNCHANGED <<met, unsettled, waited>>
  BY Facts, RequestFacts DEF Look, Running, RunningAt
<1>2. PICK u \in client[q].listed :
         IF Exists(<<u>>)
         THEN /\ client' = [client EXCEPT ![q].listed = @ \ {u},
                   ![q].victim = IF Old_enough(u) THEN {u} ELSE {},
                   ![q].pc = IF Old_enough(u) THEN "expel" ELSE "sweep"]
              /\ UNCHANGED <<disk, aged>>
         ELSE Breaks(q)
  BY DEF Look
<1>3. CASE ~Exists(<<u>>)
  <2>1. GivesUp(q, "broken") /\ UNCHANGED <<disk, aged>>
    BY <1>2, <1>3 DEF Breaks
  <2>2. q \in unsettled /\ client[q].kind # "import"
    BY <1>1, <1>2, <1>3, StageFacts DEF OwnFiles, HomesStay
  <2> QED BY <1>1, <2>1, <2>2, GaveUp, StopStep DEF Undisturbed
<1>4. CASE Exists(<<u>>)
  <2> DEFINE pc == IF Old_enough(u) THEN "expel" ELSE "sweep"
             listed == client[q].listed \ {u}
             victim == IF Old_enough(u) THEN {u} ELSE {}
  <2>1. /\ client'[q] = [client[q] EXCEPT !.listed = listed, !.victim = victim, !.pc = pc]
        /\ \A p \in Clients : p # q => client'[p] = client[p]
        /\ client' = [client EXCEPT ![q] = client'[q]] /\ UNCHANGED <<disk, aged>>
    BY <1>1, <1>2, <1>4 DEF FilesState
  <2>2. pc \in RunningAt /\ listed \subseteq Users /\ victim \subseteq Users
    BY <1>1, <1>2 DEF RunningAt
  <2>3. \A v \in victim : v \in aged
    BY DEF Old_enough
  <2>4. victim \cap listed = {} /\ (pc # "expel" => victim = {}) /\ pc \in {"expel", "sweep"}
    BY DEF Old_enough
  <2> HIDE DEF pc, listed, victim
  <2>5. client[q] \in ClientState /\ client \in [Clients -> ClientState]
    BY <1>1 DEF FilesState
  <2>6. client'[q] \in ClientState
    BY <2>1, <2>2, <2>5 DEF ClientState
  <2>7. client' \in [Clients -> ClientState]
    BY <2>1, <2>5, <2>6
  <2>8. RequestMoves(q, pc, client[q].why, listed, victim, client[q].answer)
    BY <2>1, <2>5, <2>7 DEF RequestMoves, SameRequest, ClientState
  <2>9. client'[q].pc = pc /\ client'[q].why = client[q].why /\ client'[q].listed = listed
          /\ client'[q].victim = victim /\ SameRequest(q)
    BY <2>8 DEF RequestMoves
  <2>10. client[q].why = "" /\ client[q].kind # "import"
    BY <1>1, StageFacts DEF RequestOK
  <2>11. RequestOK(q)'
    <3>1. client[q].kind = "upload" => pc \in Stages["upload"]
      BY <2>4, StageFacts, <1>1 DEF OpeningAt
    <3>2. client[q].kind = "export" => pc \in Stages["export"]
      BY <2>4, StageFacts, <1>1 DEF OpeningAt
    <3>3. pc \in Stages[client[q].kind]
      BY <1>1, <2>10, <3>1, <3>2, StageFacts
    <3> QED BY <1>1, <2>4, <2>9, <2>10, <3>3 DEF RequestOK, SameRequest
  <2>12. \A p \in Clients : RequestOK(p)'
    BY <1>1, <2>1, <2>11, RequestsOfOthers
  <2>13. HomesStay(q)'
    <3>1. listed \subseteq client[q].listed
      BY DEF listed
    <3> QED BY <1>1, <2>1, <2>4, <2>9, <3>1 DEF OwnFiles, HomesStay, Exists
  <2>14. FolderIsOwn(q)' /\ InnerIsOwn(q)' /\ ZipIsWhole(q)' /\ BrokenForACause(q)' /\ GoneForACause(q)'
    BY <2>4, <2>9, <2>10
       DEF FolderIsOwn, InnerIsOwn, ZipIsWhole, BrokenForACause, GoneForACause
  <2>15. UploadFolderOK(q)'
    BY <1>1, <2>1, <2>4, <2>9 DEF OwnFiles, UploadFolderOK, FolderOf, SameRequest, OpeningAt, Exists
  <2>16. OwnFiles(q)' /\ AccountsFor(q)'
    BY <2>2, <2>4, <2>9, <2>13, <2>14, <2>15 DEF OwnFiles, AccountsFor, RunningAt
  <2>17. pc \in RequestLabels \ {"idle"}
    BY <2>4 DEF RequestLabels, RunningAt
  <2> QED BY <1>1, <2>1, <2>8, <2>3, <2>4, <2>12, <2>16, <2>17, QuietStep
<1> QED BY <1>3, <1>4

(* Is the home there?                                                      *)
LEMMA FindHomeKeeps == ASSUME FilesIInv, NEW q \in Clients, FindHome(q) PROVE FilesIInv'
<1> DEFINE pc == IF Exists(HomeOf(q)) THEN "make" ELSE "make home"
<1>1. /\ client[q].pc = "home" /\ FilesState /\ OwnFiles(q) /\ RequestOK(q) /\ q \in Running /\ Begun(q)
      /\ UNCHANGED <<disk, aged, met, unsettled, waited>> /\ To(q, pc)
      /\ pc \in {"make", "make home"}
  BY Facts, RequestFacts DEF FindHome, Running, RunningAt
<1>2. pc \in RequestLabels \ {"idle"} /\ Advances(q, pc)
  BY <1>1, GoesTo DEF RequestLabels, RunningAt
<1>3. Onward(q, pc)
  BY <1>1, <1>2, AdvanceOwn
<1>4. client[q].kind # "import" /\ pc \in Stages[client[q].kind]
  BY <1>1, StageFacts DEF OpeningAt
<1>5. client[q].listed = {} /\ client[q].victim = {}
  BY <1>1 DEF RequestOK
<1>6. \A p \in Clients : RequestOK(p)'
  BY <1>1, <1>2, <1>4, <1>5, RequestAdvances
<1>7. HomesStay(q)'
  BY <1>1, <1>2, <1>5, <1>3 DEF Onward, OwnFiles, HomesStay, Exists
<1>8. FolderIsOwn(q)' /\ InnerIsOwn(q)' /\ ZipIsWhole(q)' /\ UploadFolderOK(q)'
  BY <1>1, <1>2, <1>3 DEF Onward, OwnFiles, FolderIsOwn, InnerIsOwn, ZipIsWhole, UploadFolderOK, Exists,
     OpeningAt, SameRequest
<1>9. OwnFiles(q)' /\ AccountsFor(q)'
  BY <1>1, <1>2, <1>7, <1>8, <1>3 DEF Onward, OwnFiles, AccountsFor, RunningAt
<1> QED BY <1>1, <1>2, <1>5, <1>6, <1>9, QuietStep DEF Advances

(* The 120 s of save_file are over.                                        *)
LEMMA TimeOutKeeps == ASSUME FilesIInv, NEW q \in Clients, TimeOutOfSave(q) PROVE FilesIInv'
<1>1. FilesState /\ q \in Running /\ GivesUp(q, "own") /\ UNCHANGED <<disk, aged, met, unsettled, waited>>
  BY Facts DEF TimeOutOfSave, Running, RunningAt
<1>2. Stops(q, "own")
  BY <1>1, GaveUp
<1> QED BY <1>1, <1>2, StopStep

(* A request that gives up for a reason of its own, or as one that is broken. *)
LEMMA OwnFailure ==
  ASSUME FilesIInv, NEW q \in Clients, client[q].pc \in RunningAt,
         GivesUp(q, "own"), UNCHANGED <<disk, aged, met, unsettled, waited>>
  PROVE  FilesIInv'
<1>1. FilesState /\ q \in Running
  BY Facts DEF Running
<1>2. Stops(q, "own")
  BY <1>1, GaveUp
<1> QED BY <1>1, <1>2, StopStep

(* Who breaks has been disturbed, or its upload was lost for a cause.      *)
LEMMA Breakage ==
  ASSUME FilesIInv, NEW q \in Clients, client[q].pc \in RunningAt, Breaks(q),
         UNCHANGED <<met, unsettled, waited>>,
         \/ client[q].kind # "import" /\ ~Undisturbed(q)
         \/ client[q].kind = "import" /\ LostForACause(client[q].folder, q)
  PROVE  FilesIInv'
<1>1. FilesState /\ q \in Running /\ UNCHANGED <<disk, aged>>
  BY Facts DEF Running, Breaks
<1>2. Stops(q, "broken")
  BY <1>1, GaveUp DEF Breaks
<1> QED BY <1>1, <1>2, StopStep

(* An import finds its upload, unless another was at it.                   *)
LEMMA UploadIsThere ==
  ASSUME FilesIInv, NEW q \in Clients, NEW d \in Clients, Is(d, {"upload"}, "done"),
         \/ client[q].kind = "import" /\ client[q].folder = d /\ client[q].pc \in {"read", "drop"}
         \/ client[q].pc = "idle"
  PROVE  \/ Exists(FolderOf(d)) /\ Exists(Within(d, "file")) /\ Exists(Within(d, "metadata"))
         \/ d \in waited \/ d \in unsettled
         \/ \E r \in Clients \ {q} : client[r].kind = "import" /\ client[r].folder = d
<1> SUFFICES ASSUME d \notin waited, d \notin unsettled,
                    ~\E r \in Clients \ {q} : client[r].kind = "import" /\ client[r].folder = d
             PROVE  Exists(FolderOf(d)) /\ Exists(Within(d, "file")) /\ Exists(Within(d, "metadata"))
  OBVIOUS
<1>1. \A i \in ImportsOf(d) : client[i].pc \in {"read", "drop"}
  <2>1. client[q].pc = "idle" => client[q].kind = "upload"
    BY Facts DEF RequestOK
  <2> QED BY <2>1 DEF ImportsOf
<1>2. Exists(FolderOf(d))
  BY <1>1, Facts DEF UploadWaits
<1> QED BY <1>2, Facts DEF OwnFiles, UploadFolderOK, Is, Begun

(* An import that does not find its file has lost it for a cause.          *)
LEMMA ReadKeeps == ASSUME FilesIInv, NEW q \in Clients, upload_ogr2ogr(q) PROVE FilesIInv'
<1>1. /\ client[q].kind = "import" /\ client[q].pc = "read" /\ client[q].pc \in RunningAt
      /\ FilesState /\ OwnFiles(q) /\ RequestOK(q) /\ q \in Running /\ Begun(q)
      /\ UNCHANGED <<met, unsettled, waited>>
  BY Facts, RequestFacts DEF upload_ogr2ogr, Is, Running, RunningAt
<1>2. Append(FolderOf(q), "file") = Within(q, "file")
  BY PathFacts
<1>3. CASE GivesUp(q, "own") /\ UNCHANGED <<disk, aged>>
  BY <1>1, <1>3, OwnFailure
<1>4. CASE ~Exists(Within(q, "file")) /\ Breaks(q)
  <2> DEFINE d == client[q].folder
  <2>1. d \in Clients /\ Is(d, {"upload"}, "done") /\ client[d].user = client[q].user
    BY <1>1 DEF RequestOK
  <2>2. client[d].folder = d
    BY <1>1, <2>1 DEF FilesState, RequestOK, Is
  <2>3. Within(d, "file") = Within(q, "file")
    BY <2>1, <2>2 DEF Within
  <2>4. \/ d \in waited \/ d \in unsettled
        \/ \E r \in Clients \ {q} : client[r].kind = "import" /\ client[r].folder = d
    BY <1>1, <1>4, <2>1, <2>3, UploadIsThere
  <2>5. \A r \in Clients : client[r].kind = "import" /\ client[r].folder = d => SameFolder(q, r)
    <3>1. \A r \in Clients : client[r].kind = "import" /\ client[r].folder = d
                               => client[r].user = client[d].user
      BY <1>1 DEF FilesState, RequestOK
    <3> QED BY <1>1, <2>1, <3>1 DEF SameFolder, FolderOf
  <2>6. LostForACause(d, q)
    BY <2>4, <2>5 DEF LostForACause
  <2> QED BY <1>1, <1>4, <2>6, Breakage
<1>5. CASE To(q, "drop") /\ UNCHANGED <<disk, aged>>
  <2>1. "drop" \in RequestLabels \ {"idle"} /\ Advances(q, "drop")
    BY <1>1, <1>5, GoesTo DEF RequestLabels, RunningAt
  <2>2. Onward(q, "drop")
    BY <1>1, <2>1, AdvanceOwn
  <2>3. client[q].listed = {} /\ client[q].victim = {} /\ "drop" \in Stages[client[q].kind]
    BY <1>1, StageFacts DEF RequestOK
  <2>4. \A p \in Clients : RequestOK(p)'
    BY <1>1, <2>1, <2>3, RequestAdvances
  <2>5. HomesStay(q)' /\ FolderIsOwn(q)' /\ InnerIsOwn(q)' /\ ZipIsWhole(q)' /\ UploadFolderOK(q)'
    BY <1>1, <2>1, <2>3, <2>2
       DEF Onward, HomesStay, FolderIsOwn, InnerIsOwn, ZipIsWhole, UploadFolderOK, SameRequest
  <2>6. OwnFiles(q)' /\ AccountsFor(q)'
    BY <1>1, <2>1, <2>5, <2>2 DEF Onward, OwnFiles, AccountsFor, RunningAt
  <2> QED BY <1>1, <1>5, <2>1, <2>3, <2>4, <2>6, QuietStep DEF Advances
<1> QED BY <1>2, <1>3, <1>4, <1>5 DEF upload_ogr2ogr

(* An import is done with its upload and removes it.                       *)
LEMMA DropKeeps == ASSUME FilesIInv, NEW q \in Clients, DropUpload(q) PROVE FilesIInv'
<1>1. /\ client[q].kind = "import" /\ client[q].pc = "drop" /\ To(q, "done")
      /\ FilesState /\ OwnFiles(q) /\ RequestOK(q) /\ q \in Running /\ Begun(q)
      /\ UNCHANGED <<met, unsettled, waited>> /\ async_delete_dir(FolderOf(q))
  BY Facts, RequestFacts DEF DropUpload, Is, Running, RunningAt
<1>2. "done" \in RequestLabels \ {"idle", "read", "drop"} /\ Advances(q, "done")
  BY <1>1, GoesTo DEF RequestLabels
<1>3. Onward(q, "done")
  BY <1>1, <1>2, AdvanceOwn
<1>4. client[q].listed = {} /\ client[q].victim = {} /\ "done" \in Stages[client[q].kind]
  BY <1>1, StageFacts DEF RequestOK
<1>5. \A p \in Clients : RequestOK(p)'
  BY <1>1, <1>2, <1>4, RequestAdvances
<1>6. HomesStay(q)' /\ FolderIsOwn(q)' /\ InnerIsOwn(q)' /\ ZipIsWhole(q)' /\ UploadFolderOK(q)'
  BY <1>1, <1>2, <1>4, <1>3
     DEF Onward, HomesStay, FolderIsOwn, InnerIsOwn, ZipIsWhole, UploadFolderOK, SameRequest
<1>7. OwnFiles(q)'
  BY <1>1, <1>2, <1>6, <1>3 DEF Onward, OwnFiles
<1> QED BY <1>1, <1>2, <1>5, <1>7, ClearStep

(* A failed upload or import removes its folder.                           *)
LEMMA CleanUpKeeps == ASSUME FilesIInv, NEW q \in Clients, CleanUp(q) PROVE FilesIInv'
<1>1. /\ client[q].pc = "clean" /\ To(q, "failed") /\ FilesState /\ OwnFiles(q) /\ RequestOK(q)
      /\ q \in Running /\ Begun(q) /\ client[q].kind \in {"upload", "import"}
      /\ UNCHANGED <<met, unsettled, waited>> /\ async_delete_dir(FolderOf(q))
  BY Facts, RequestFacts, StageFacts DEF CleanUp, Running, RunningAt, OpeningAt
<1>2. "failed" \in RequestLabels \ {"idle", "read", "drop"} /\ Advances(q, "failed")
  BY <1>1, GoesTo DEF RequestLabels
<1>3. Onward(q, "failed")
  BY <1>1, <1>2, AdvanceOwn
<1>4. /\ client'[q].pc = "failed" /\ client'[q].why = client[q].why
      /\ client'[q].listed = client[q].listed /\ client'[q].victim = client[q].victim
      /\ SameRequest(q) /\ Frame /\ (Undisturbed(q)' <=> Undisturbed(q))
      /\ \A p \in Clients : p # q => client'[p] = client[p]
  BY <1>1, <1>2, <1>3 DEF Onward, Advances, RequestMoves
<1>5. client[q].listed = {} /\ client[q].victim = {} /\ client[q].why \in {"own", "broken"}
  BY <1>1 DEF RequestOK
<1>6. RequestOK(q)'
  <2>1. client[q].kind = "import" =>
          client[q].folder # q /\ client'[client[q].folder] = client[client[q].folder]
    BY <1>1, <1>4 DEF RequestOK, Is
  <2>2. "failed" \in Stages[client[q].kind]
    BY <1>1, StageFacts
  <2> QED BY <1>1, <1>4, <1>5, <2>1, <2>2 DEF RequestOK, SameRequest, Is
<1>7. \A p \in Clients : RequestOK(p)'
  BY <1>1, <1>4, <1>6, RequestsOfOthers
<1>8. HomesStay(q)' /\ FolderIsOwn(q)' /\ InnerIsOwn(q)' /\ ZipIsWhole(q)' /\ UploadFolderOK(q)'
  BY <1>1, <1>4, <1>5
     DEF HomesStay, FolderIsOwn, InnerIsOwn, ZipIsWhole, UploadFolderOK, OpeningAt
<1>9. BrokenForACause(q)'
  BY <1>1, <1>4 DEF OwnFiles, BrokenForACause, SameRequest
<1>10. GoneForACause(q)'
  <2>1. \A r \in Clients : client[r].kind = "import" => SameRequest(r)
    BY <1>1, <1>4 DEF FilesState, RequestOK, Frame, Begun
  <2>2. \A r \in Clients : client[q].kind = "import" /\ SameFolder(q, r) => SameFolder(q, r)'
    BY <1>4, <2>1 DEF SameFolder, FolderOf, SameRequest
  <2>3. client[q].kind = "import" /\ LostForACause(client[q].folder, q)
          => LostForACause(client[q].folder, q)'
    BY <1>1, <1>4, <2>2 DEF LostForACause, SameRequest
  <2> QED BY <1>1, <1>4, <2>3 DEF OwnFiles, GoneForACause, SameRequest
<1>11. OwnFiles(q)'
  BY <1>8, <1>9, <1>10 DEF OwnFiles
<1> QED BY <1>1, <1>2, <1>7, <1>11, ClearStep

(* The folder of an earlier request of the same name goes.                 *)
LEMMA ClearFolderKeeps == ASSUME FilesIInv, NEW q \in Clients, ClearFolder(q) PROVE FilesIInv'
<1>1. /\ client[q].pc = "sweep" /\ client[q].listed = {} /\ To(q, "home")
      /\ FilesState /\ OwnFiles(q) /\ RequestOK(q) /\ q \in Running /\ Begun(q)
      /\ UNCHANGED <<met, unsettled, waited>> /\ async_delete_dir(FolderOf(q))
  BY Facts, RequestFacts DEF ClearFolder, ClearedFolder, Running, RunningAt
<1>2. "home" \in RequestLabels \ {"idle", "read", "drop"} /\ Advances(q, "home")
  BY <1>1, GoesTo DEF RequestLabels, RunningAt
<1>3. Onward(q, "home")
  BY <1>1, <1>2, AdvanceOwn
<1>4. client[q].victim = {} /\ client[q].kind # "import" /\ "home" \in Stages[client[q].kind]
  BY <1>1, StageFacts DEF RequestOK, OpeningAt
<1>5. \A p \in Clients : RequestOK(p)'
  BY <1>1, <1>2, <1>4, RequestAdvances
<1>6. FolderOf(q)' = FolderOf(q) /\ FolderOf(q) \notin DOMAIN disk'
  <2>1. FolderGone(client[q].user, client[q].folder)
    BY <1>1, FolderGoes DEF FolderOf
  <2> QED BY <1>3, <2>1 DEF Onward, FolderOf, FolderGone
<1>7. HomesStay(q)' /\ FolderIsOwn(q)' /\ InnerIsOwn(q)' /\ ZipIsWhole(q)' /\ UploadFolderOK(q)'
  BY <1>1, <1>2, <1>4, <1>6, <1>3
     DEF Onward, HomesStay, FolderIsOwn, InnerIsOwn, ZipIsWhole, UploadFolderOK, SameRequest, Exists
<1>8. OwnFiles(q)'
  BY <1>1, <1>2, <1>7, <1>3 DEF Onward, OwnFiles
<1> QED BY <1>1, <1>2, <1>5, <1>8, ClearStep

(* The zip is there, so that the folder of the export may go.              *)
LEMMA RemoveFolderKeeps == ASSUME FilesIInv, NEW q \in Clients, RemoveFolder(q) PROVE FilesIInv'
<1>1. /\ client[q].kind = "export" /\ client[q].pc = "remove" /\ To(q, "send")
      /\ FilesState /\ OwnFiles(q) /\ RequestOK(q) /\ q \in Running /\ Begun(q)
      /\ UNCHANGED <<met, unsettled, waited>> /\ async_delete_dir(FolderOf(q))
  BY Facts, RequestFacts DEF RemoveFolder, Is, Running, RunningAt
<1>2. "send" \in RequestLabels \ {"idle", "read", "drop"} /\ Advances(q, "send")
  BY <1>1, GoesTo DEF RequestLabels, RunningAt
<1>3. Onward(q, "send")
  BY <1>1, <1>2, AdvanceOwn
<1>4. client[q].listed = {} /\ client[q].victim = {} /\ "send" \in Stages[client[q].kind]
  BY <1>1, StageFacts DEF RequestOK
<1>5. \A p \in Clients : RequestOK(p)'
  BY <1>1, <1>2, <1>4, RequestAdvances
<1>6. FolderGone(client[q].user, client[q].folder) /\ client[q].folder # client[q].name
  BY <1>1, FolderGoes, RequestFacts, PathNamesDiffer DEF FolderOf
<1>7. /\ HomeOf(q) \in DOMAIN disk' <=> HomeOf(q) \in DOMAIN disk
      /\ ZipOf(q) \in DOMAIN disk' <=> ZipOf(q) \in DOMAIN disk
      /\ ZipOf(q) \in DOMAIN disk => disk'[ZipOf(q)] = disk[ZipOf(q)]
  BY <1>6 DEF FolderGone, HomeOf, ZipOf
<1>8. HomesStay(q)'
  BY <1>1, <1>2, <1>4, <1>7, <1>3 DEF Onward, OwnFiles, HomesStay, Exists
<1>9. ZipIsWhole(q)'
  <2>1. q \notin unsettled' => disk'[ZipOf(q)] = disk[ZipOf(q)]
    BY <1>1, <1>7 DEF OwnFiles, HomesStay, Exists
  <2> QED BY <1>1, <1>2, <2>1, <1>3, ZipKept DEF Onward, OwnFiles
<1>10. FolderIsOwn(q)' /\ InnerIsOwn(q)' /\ UploadFolderOK(q)'
  BY <1>1, <1>2, <1>3 DEF Onward, FolderIsOwn, InnerIsOwn, UploadFolderOK, SameRequest
<1>11. OwnFiles(q)'
  BY <1>1, <1>2, <1>8, <1>9, <1>10, <1>3 DEF Onward, OwnFiles
<1> QED BY <1>1, <1>2, <1>5, <1>11, ClearStep

-----------------------------------------------------------------------------
(* The steps that put an entry on disk.                                    *)
LEMMA PutKeepsDisk ==
  ASSUME DiskOK, NEW u \in Users, NEW x \in FolderIds, NEW n \in FileNames, NEW f, NEW pieces
  PROVE  /\ Put(<<u>>, pieces) => DiskOK'
         /\ Put(<<u, x>>, pieces) /\ Exists(<<u>>) => DiskOK'
         /\ Put(<<u, n>>, pieces) /\ Exists(<<u>>) /\ pieces \subseteq Parts_of => DiskOK'
         /\ Put(<<u, x, f>>, pieces) /\ Exists(<<u, x>>) /\ x \in Clients /\ f \in {"file", "metadata"}
              => DiskOK'
         /\ Put(<<u, x, n>>, pieces) /\ Exists(<<u, x>>) /\ x \in LayerIds /\ pieces = {} => DiskOK'
         /\ Put(<<u, x, n, f>>, pieces) /\ Exists(<<u, x, n>>) /\ x \in LayerIds
              /\ f \in {"data", "metadata"} /\ pieces \subseteq Parts_of => DiskOK'
<1>1. /\ <<u>> \in Paths /\ <<u, x>> \in Paths /\ <<u, n>> \in Paths
      /\ x \in Clients /\ f \in {"file", "metadata"} => <<u, x, f>> \in Paths
      /\ x \in LayerIds => <<u, x, n>> \in Paths
      /\ x \in LayerIds /\ f \in {"data", "metadata"} => <<u, x, n, f>> \in Paths
  BY DEF Paths
<1>2. Put(<<u>>, pieces) => DiskOK'
  BY <1>1, DiskOKPut
<1>3. Put(<<u, x>>, pieces) /\ Exists(<<u>>) => DiskOK'
  BY <1>1, DiskOKPut, PathNamesDiffer
<1>4. Put(<<u, n>>, pieces) /\ Exists(<<u>>) /\ pieces \subseteq Parts_of => DiskOK'
  BY <1>1, DiskOKPut
<1>5. ASSUME Put(<<u, x, f>>, pieces), Exists(<<u, x>>), x \in Clients, f \in {"file", "metadata"}
      PROVE  DiskOK'
  BY <1>1, <1>5, DiskOKPut, PathNamesDiffer
<1>6. ASSUME Put(<<u, x, n>>, pieces), Exists(<<u, x>>), x \in LayerIds, pieces = {}
      PROVE  DiskOK'
  BY <1>1, <1>6, DiskOKPut, PathNamesDiffer
<1>7. ASSUME Put(<<u, x, n, f>>, pieces), Exists(<<u, x, n>>), x \in LayerIds,
             f \in {"data", "metadata"}, pieces \subseteq Parts_of
      PROVE  DiskOK'
  BY <1>1, <1>7, DiskOKPut
<1> QED BY <1>2, <1>3, <1>4, <1>5, <1>6, <1>7

(* An upload that is not done waits for nobody, and one that has not begun *)
(* to write looks at no age.                                               *)
LEMMA NotYet ==
  ASSUME NEW q \in Clients, SameRequest(q), client[q].kind # "import"
  PROVE  /\ client'[q].pc # "done" \/ client[q].kind # "upload" => UploadWaits(q)'
         /\ client'[q].pc \notin {"write", "validate", "done"} \/ client[q].kind # "upload" => AgedAfter(q)'
BY DEF UploadWaits, AgedAfter, Is, SameRequest

(* mkdir of a home fails only for one who is unsettled.                    *)
LEMMA MakeHomeKeeps == ASSUME FilesIInv, NEW q \in Clients, MakeHome(q) PROVE FilesIInv'
<1>1. /\ client[q].pc = "make home" /\ FilesState /\ OwnFiles(q) /\ RequestOK(q) /\ q \in Running /\ Begun(q)
      /\ client[q].kind # "import" /\ client[q].pc \in RunningAt
      /\ client[q].listed = {} /\ client[q].victim = {} /\ client[q].user \in Users
      /\ met' = met /\ waited' = waited
      /\ unsettled' = unsettled \cup {r \in Running \ {q} :
                        client[r].pc = "make home" /\ HomeOf(r) = HomeOf(q)}
  BY Facts, RequestFacts, StageFacts DEF MakeHome, Running, RunningAt, RequestOK
<1>2. CASE Exists(HomeOf(q))
  <2>1. Breaks(q)
    BY <1>2 DEF MakeHome
  <2>2. \A r \in Running : client[r].pc = "make home" /\ HomeOf(r) = HomeOf(q) => r \in unsettled
    BY <1>2, Facts DEF OwnFiles, HomesStay, Running
  <2>3. unsettled' = unsettled /\ q \in unsettled
    BY <1>1, <2>2
  <2> QED BY <1>1, <2>1, <2>3, Breakage DEF Undisturbed
<1>3. CASE ~Exists(HomeOf(q))
  <2>1. Stored(WithFile(HomeOf(q), {})) /\ To(q, "make")
    BY <1>3 DEF MakeHome
  <2>2. Put(HomeOf(q), {}) /\ AgesWell /\ Put(<<client[q].user>>, {})
    BY <2>1, Puts DEF HomeOf
  <2>3. "make" \in RequestLabels \ {"idle", "read", "drop"} /\ Advances(q, "make")
    BY <1>1, <2>1, GoesTo DEF RequestLabels, RunningAt
  <2>4. Onward(q, "make")
    BY <1>1, <2>3, AdvanceOwn
  <2>5. "make" \in Stages[client[q].kind]
    BY <1>1, StageFacts DEF OpeningAt
  <2>6. \A p \in Clients : RequestOK(p)'
    BY <1>1, <2>3, <2>5, RequestAdvances
  <2>7. DiskOK'
    BY <1>1, <2>2, PutKeepsDisk, FilesAssumption DEF FilesState, FolderIds
  <2>8. Exists(HomeOf(q))' /\ (Exists(FolderOf(q))' <=> Exists(FolderOf(q)))
    BY <2>2, <2>4 DEF Put, Exists, Onward, HomeOf, FolderOf
  <2>9. HomesStay(q)' /\ FolderIsOwn(q)' /\ InnerIsOwn(q)' /\ ZipIsWhole(q)' /\ UploadFolderOK(q)'
    BY <1>1, <2>4, <2>8 DEF Onward, OwnFiles, HomesStay, FolderIsOwn, InnerIsOwn, ZipIsWhole,
       UploadFolderOK, OpeningAt, SameRequest
  <2>10. OwnFiles(q)' /\ AccountsFor(q)' /\ AgedAfter(q)' /\ UploadWaits(q)'
    BY <1>1, <2>4, <2>9, NotYet DEF OwnFiles, Onward, AccountsFor, RunningAt
  <2>11. \A u \in Users, x \in FolderIds : HomeOf(q) = <<u, x>> => HomeOf(q) = FolderOf(q)
    BY DEF HomeOf
  <2>12. \A p \in Clients : p # q /\ Begun(p) =>
           (client[p].pc = "make home" /\ HomeOf(p) = HomeOf(q) => p \in unsettled')
    BY <1>1 DEF Running, RunningAt
  <2> QED BY <1>1, <2>1, <2>3, <2>6, <2>7, <2>10, <2>11, <2>12, PutStep DEF Advances
<1> QED BY <1>2, <1>3

(* mkdir of the folder makes the home young again.                         *)
LEMMA MakeFolderKeeps == ASSUME FilesIInv, NEW q \in Clients, MakeFolder(q) PROVE FilesIInv'
<1> DEFINE pc == IF client[q].kind = "export" THEN "make inner" ELSE "write"
<1>1. /\ client[q].pc = "make" /\ FilesState /\ OwnFiles(q) /\ RequestOK(q) /\ q \in Running /\ Begun(q)
      /\ client[q].kind \in {"upload", "export"} /\ client[q].pc \in RunningAt
      /\ client[q].listed = {} /\ client[q].victim = {}
      /\ client[q].user \in Users /\ client[q].folder \in FolderIds
      /\ UNCHANGED <<met, unsettled, waited>>
  BY Facts, RequestFacts, StageFacts DEF MakeFolder, Running, RunningAt, RequestOK
<1>2. Front(FolderOf(q)) = HomeOf(q)
  BY PathFacts
<1>3. CASE ~(Exists(HomeOf(q)) /\ ~Exists(FolderOf(q)))
  <2>1. Breaks(q)
    BY <1>2, <1>3 DEF MakeFolder, Makes
  <2>2. ~Undisturbed(q)
    BY <1>1, <1>3 DEF OwnFiles, HomesStay, FolderIsOwn, Undisturbed
  <2> QED BY <1>1, <2>1, <2>2, Breakage
<1>4. CASE Exists(HomeOf(q)) /\ ~Exists(FolderOf(q))
  <2>1. Stored(WithFile(FolderOf(q), {})) /\ To(q, pc)
    BY <1>2, <1>4 DEF MakeFolder, Makes
  <2>2. Put(FolderOf(q), {}) /\ AgesWell /\ Put(<<client[q].user, client[q].folder>>, {})
    BY <2>1, Puts DEF FolderOf
  <2>3. pc \in {"make inner", "write"} /\ pc \in RequestLabels \ {"idle", "read", "drop"}
          /\ (pc = "write" <=> client[q].kind = "upload") /\ Advances(q, pc)
    BY <1>1, <2>1, GoesTo DEF RequestLabels, RunningAt
  <2>4. Onward(q, pc)
    BY <1>1, <2>3, AdvanceOwn
  <2>5. pc \in Stages[client[q].kind]
    <3>1. client[q].kind = "upload" => pc \in Stages["upload"]
      BY <2>3, StageFacts, <1>1
    <3>2. client[q].kind = "export" => pc \in Stages["export"]
      BY <2>3, StageFacts, <1>1
    <3> QED BY <1>1, <3>1, <3>2
  <2>6. \A p \in Clients : RequestOK(p)'
    BY <1>1, <2>3, <2>5, RequestAdvances
  <2>7. DiskOK'
    BY <1>1, <1>4, <2>2, PutKeepsDisk, FilesAssumption DEF FilesState, HomeOf
  <2> HIDE DEF pc
  <2>8. /\ Exists(HomeOf(q))' <=> Exists(HomeOf(q))
        /\ Exists(FolderOf(q))'
        /\ \A f : Exists(Within(q, f))' <=> Exists(Within(q, f))
    BY <2>2, <2>4 DEF Put, Exists, Onward, HomeOf, FolderOf, Within
  <2>9. \A f \in FileNames : ~Exists(Within(q, f)) \/ client[q].kind # "export"
    BY <1>1, <1>4 DEF FilesState, DiskOK, RequestOK, Within, FolderOf
  <2>10. HomesStay(q)' /\ FolderIsOwn(q)' /\ InnerIsOwn(q)' /\ ZipIsWhole(q)' /\ UploadFolderOK(q)'
    <3>1. client[q].name \in FileNames
      BY <1>1, RequestFacts
    <3>2. HomesStay(q)'
      BY <1>1, <1>4, <2>3, <2>4, <2>8 DEF Onward, HomesStay
    <3>3. FolderIsOwn(q)'
      BY <1>1, <2>3, <2>4, <2>8, <2>9, <3>1 DEF Onward, FolderIsOwn, SameRequest
    <3>4. InnerIsOwn(q)' /\ ZipIsWhole(q)' /\ UploadFolderOK(q)'
      BY <1>1, <2>3, <2>4 DEF Onward, InnerIsOwn, ZipIsWhole, UploadFolderOK, OpeningAt, SameRequest
    <3> QED BY <3>2, <3>3, <3>4
  <2>11. AgedAfter(q)'
    <3>1. client[q].user \notin aged'
      <4>1. aged' = {u \in aged : <<u>> \in DOMAIN disk'
                       /\ Entries(disk', u) = Entries(disk, u)}
        BY <2>1 DEF Stored
      <4>2. FolderOf(q) \in Entries(disk', client[q].user) /\ FolderOf(q) \notin Entries(disk, client[q].user)
        <5>1. Len(FolderOf(q)) = 2 /\ FolderOf(q)[1] = client[q].user
          BY DEF FolderOf
        <5> QED BY <1>4, <2>2, <5>1 DEF Entries, Put, Exists
      <4> QED BY <4>1, <4>2
    <3>2. \A e \in Clients : client'[q].user \in client'[e].victim => q \in met'[e]
      <4> TAKE e \in Clients
      <4> HAVE client'[q].user \in client'[e].victim
      <4>1. client[e].victim # {}
        BY <2>3 DEF Advances, RequestMoves
      <4>2. e \in Running /\ e # q
        BY <1>1, <4>1 DEF FilesState, RequestOK, Running, RunningAt
      <4> QED BY <1>1, <4>2 DEF FilesState, MeetingsOK
    <3> QED BY <2>4, <3>1, <3>2 DEF AgedAfter, Onward, SameRequest
  <2>12. OwnFiles(q)' /\ AccountsFor(q)' /\ UploadWaits(q)'
    BY <1>1, <2>3, <2>4, <2>10, NotYet DEF OwnFiles, Onward, AccountsFor, RunningAt
  <2> QED BY <1>1, <2>1, <2>3, <2>6, <2>7, <2>11, <2>12, PutStep DEF Advances
<1> QED BY <1>3, <1>4

(* The uploaded file is written.                                           *)
LEMMA FetchKeeps == ASSUME FilesIInv, NEW q \in Clients, fetch_and_write(q) PROVE FilesIInv'
<1>1. /\ client[q].pc = "write" /\ FilesState /\ OwnFiles(q) /\ RequestOK(q) /\ q \in Running /\ Begun(q)
      /\ client[q].kind = "upload" /\ client[q].pc \in RunningAt /\ client[q].folder = q
      /\ client[q].listed = {} /\ client[q].victim = {}
      /\ client[q].user \in Users /\ client[q].folder \in FolderIds
      /\ UNCHANGED <<met, unsettled, waited>>
  BY Facts, RequestFacts DEF fetch_and_write, Is, Running, RunningAt, RequestOK
<1>2. Append(FolderOf(q), "file") = Within(q, "file")
  BY PathFacts
<1>3. CASE GivesUp(q, "own") /\ UNCHANGED <<disk, aged>>
  BY <1>1, <1>3, OwnFailure
<1>4. CASE ~Exists(FolderOf(q)) /\ Breaks(q)
  <2>1. ~Undisturbed(q)
    BY <1>1, <1>4 DEF OwnFiles, FolderIsOwn
  <2> QED BY <1>1, <1>4, <2>1, Breakage
<1>5. CASE Exists(FolderOf(q)) /\ Stored(WithFile(Within(q, "file"), {<<"file", q>>})) /\ To(q, "validate")
  <2> DEFINE pieces == {<<"file", q>>}
  <2>1. Put(Within(q, "file"), pieces) /\ AgesWell /\ Put(<<client[q].user, client[q].folder, "file">>, pieces)
    BY <1>5, Puts DEF Within
  <2>2. "validate" \in RequestLabels \ {"idle", "read", "drop"} /\ Advances(q, "validate")
    BY <1>1, <1>5, GoesTo DEF RequestLabels, RunningAt
  <2>3. Onward(q, "validate")
    BY <1>1, <2>2, AdvanceOwn
  <2>4. "validate" \in Stages[client[q].kind]
    BY <1>1, StageFacts
  <2>5. \A p \in Clients : RequestOK(p)'
    BY <1>1, <2>2, <2>4, RequestAdvances
  <2>6. DiskOK'
    BY <1>1, <1>5, <2>1, PutKeepsDisk, FilesAssumption DEF FilesState, FolderOf
  <2>7. /\ Exists(HomeOf(q)) => Exists(HomeOf(q))'
        /\ Exists(FolderOf(q))' /\ Exists(Within(q, "file"))'
    BY <1>5, <2>1, <2>3 DEF Put, Exists, Onward
  <2>8. HomesStay(q)'
    BY <1>1, <2>3, <2>7 DEF Onward, OwnFiles, HomesStay
  <2>9. FolderIsOwn(q)' /\ InnerIsOwn(q)' /\ ZipIsWhole(q)' /\ UploadFolderOK(q)'
    BY <1>1, <2>3, <2>7
       DEF Onward, FolderIsOwn, InnerIsOwn, ZipIsWhole, UploadFolderOK, OpeningAt, SameRequest
  <2>10. AgedAfter(q)'
    <3>1. client'[q].user \in aged' => client[q].user \in aged
      BY <2>1, <2>3 DEF AgesWell, Onward, SameRequest
    <3>2. \A e \in Clients : client'[e].victim = client[e].victim
      BY <2>2 DEF Advances, RequestMoves
    <3> QED BY <1>1, <2>3, <3>1, <3>2, Facts DEF AgedAfter, Onward, SameRequest
  <2>11. OwnFiles(q)' /\ AccountsFor(q)' /\ UploadWaits(q)'
    BY <1>1, <2>3, <2>8, <2>9, NotYet DEF OwnFiles, Onward, AccountsFor, RunningAt
  <2> HIDE DEF pieces
  <2>12. Stored(WithFile(Within(q, "file"), pieces))
    BY <1>5 DEF pieces
  <2> QED BY <1>1, <2>2, <2>5, <2>6, <2>10, <2>11, <2>12, PutInside DEF Advances
<1> QED BY <1>2, <1>3, <1>4, <1>5 DEF fetch_and_write

(* An upload is validated, and now waits for its import.                   *)
LEMMA ValidateKeeps == ASSUME FilesIInv, NEW q \in Clients, validate(q) PROVE FilesIInv'
<1>1. /\ client[q].pc = "validate" /\ FilesState /\ OwnFiles(q) /\ RequestOK(q) /\ q \in Running /\ Begun(q)
      /\ client[q].kind = "upload" /\ client[q].pc \in RunningAt /\ client[q].folder = q
      /\ client[q].listed = {} /\ client[q].victim = {}
      /\ client[q].user \in Users /\ client[q].folder \in FolderIds
      /\ UNCHANGED <<met, unsettled, waited>>
  BY Facts, RequestFacts DEF validate, Is, Running, RunningAt, RequestOK
<1>2. /\ Append(FolderOf(q), "file") = Within(q, "file")
      /\ Append(FolderOf(q), "metadata") = Within(q, "metadata")
  BY PathFacts
<1>3. CASE GivesUp(q, "own") /\ UNCHANGED <<disk, aged>>
  BY <1>1, <1>3, OwnFailure
<1>4. CASE /\ client' = [client EXCEPT ![q].pc = "failed",
                ![q].why = IF Exists(Within(q, "file")) THEN "raised" ELSE "broken"]
           /\ UNCHANGED <<disk, aged>>
  <2> DEFINE why == IF Exists(Within(q, "file")) THEN "raised" ELSE "broken"
  <2>1. /\ client'[q] = [client[q] EXCEPT !.pc = "failed", !.why = why]
        /\ \A p \in Clients : p # q => client'[p] = client[p]
        /\ client' = [client EXCEPT ![q] = client'[q]]
    BY <1>1, <1>4 DEF FilesState
  <2>2. /\ why \in {"raised", "broken"}
        /\ why = "broken" <=> ~Exists(Within(q, "file"))
    OBVIOUS
  <2> HIDE DEF why
  <2>3. client[q] \in ClientState /\ client \in [Clients -> ClientState]
    BY <1>1 DEF FilesState
  <2>4. client'[q] \in ClientState
    BY <2>1, <2>2, <2>3 DEF ClientState
  <2>5. client' \in [Clients -> ClientState]
    BY <2>1, <2>3, <2>4
  <2>6. RequestMoves(q, "failed", why, {}, {}, client[q].answer)
    BY <1>1, <2>1, <2>3, <2>5 DEF RequestMoves, SameRequest, ClientState
  <2>7. /\ client'[q].pc = "failed" /\ client'[q].why = why /\ client'[q].listed = {}
        /\ client'[q].victim = {} /\ SameRequest(q)
    BY <2>6 DEF RequestMoves
  <2>8. "failed" \in RequestLabels \ {"idle"} /\ "failed" \in Stages["upload"]
    BY <1>1, StageFacts DEF RequestLabels
  <2>9. RequestOK(q)'
    BY <1>1, <2>2, <2>7, <2>8 DEF RequestOK, SameRequest
  <2>10. \A p \in Clients : RequestOK(p)'
    BY <1>1, <2>1, <2>9, RequestsOfOthers
  <2>11. Frame
    BY <1>1, <2>6, <2>8, MoveIsFrame
  <2>12. Undisturbed(q)' <=> Undisturbed(q)
    BY <1>1, <2>11, StillDisturbed
  <2>13. HomesStay(q)' /\ FolderIsOwn(q)' /\ InnerIsOwn(q)' /\ ZipIsWhole(q)' /\ UploadFolderOK(q)'
    BY <2>7 DEF HomesStay, FolderIsOwn, InnerIsOwn, ZipIsWhole, UploadFolderOK, OpeningAt
  <2>14. BrokenForACause(q)' /\ GoneForACause(q)'
    BY <1>1, <2>2, <2>7, <2>12 DEF BrokenForACause, GoneForACause, OwnFiles, FolderIsOwn, SameRequest
  <2>15. OwnFiles(q)'
    BY <2>13, <2>14 DEF OwnFiles
  <2>16. CASE why = "raised"
    <3>1. AccountsFor(q)'
      BY <2>7, <2>16 DEF AccountsFor
    <3> QED BY <1>1, <1>4, <2>6, <2>8, <2>10, <2>15, <3>1, QuietStep
  <2>17. CASE why = "broken"
    <3>1. ~Exists(FolderOf(q))
      BY <1>1, <2>2, <2>17 DEF OwnFiles, UploadFolderOK
    <3> QED BY <1>1, <1>4, <2>6, <2>8, <2>10, <2>15, <3>1, QuietStep
  <2> QED BY <2>2, <2>16, <2>17
<1>5. CASE /\ Exists(Within(q, "file"))
           /\ Stored(WithFile(Within(q, "metadata"), {<<"metadata", q>>})) /\ To(q, "done")
  <2> DEFINE pieces == {<<"metadata", q>>}
  <2>1. /\ Put(Within(q, "metadata"), pieces) /\ AgesWell
        /\ Put(<<client[q].user, client[q].folder, "metadata">>, pieces)
    BY <1>5, Puts DEF Within
  <2>2. "done" \in RequestLabels \ {"idle", "read", "drop"} /\ Advances(q, "done")
    BY <1>1, <1>5, GoesTo DEF RequestLabels
  <2>3. Onward(q, "done")
    BY <1>1, <2>2, AdvanceOwn
  <2>4. "done" \in Stages[client[q].kind]
    BY <1>1, StageFacts
  <2>5. \A p \in Clients : RequestOK(p)'
    BY <1>1, <2>2, <2>4, RequestAdvances
  <2>6. Exists(FolderOf(q))
    BY <1>1, <1>5 DEF FilesState, DiskOK, Within, FolderOf
  <2>7. DiskOK'
    BY <1>1, <2>1, <2>6, PutKeepsDisk, FilesAssumption DEF FilesState, FolderOf
  <2>8. /\ Exists(Within(q, "metadata"))' /\ Exists(Within(q, "file"))' /\ Exists(FolderOf(q))'
    BY <1>5, <2>1, <2>3, <2>6 DEF Put, Exists, Onward
  <2>9. HomesStay(q)' /\ FolderIsOwn(q)' /\ InnerIsOwn(q)' /\ ZipIsWhole(q)' /\ UploadFolderOK(q)'
    BY <1>1, <2>3, <2>8 DEF Onward, HomesStay, FolderIsOwn, InnerIsOwn, ZipIsWhole, UploadFolderOK,
       OpeningAt, SameRequest
  <2>10. AgedAfter(q)'
    <3>1. client'[q].user \in aged' => client[q].user \in aged
      BY <2>1, <2>3 DEF AgesWell, Onward, SameRequest
    <3>2. \A e \in Clients : client'[e].victim = client[e].victim
      BY <2>2 DEF Advances, RequestMoves
    <3> QED BY <1>1, <2>3, <3>1, <3>2, Facts DEF AgedAfter, Onward, SameRequest
  <2>11. UploadWaits(q)'
    BY <2>8 DEF UploadWaits
  <2>12. ImportsOf(q)' = {}
    <3>1. \A i \in Clients : client[i].kind = "import" => client[i].folder # q
      BY <1>1 DEF FilesState, RequestOK, Is
    <3>2. \A i \in Clients : client'[i].kind = client[i].kind /\ client'[i].folder = client[i].folder
      BY <2>2 DEF Advances, RequestMoves, SameRequest
    <3> QED BY <3>1, <3>2 DEF ImportsOf
  <2>13. OwnFiles(q)' /\ AccountsFor(q)'
    BY <1>1, <2>3, <2>9, <2>12 DEF OwnFiles, Onward, AccountsFor, Is, SameRequest
  <2> HIDE DEF pieces
  <2>14. Stored(WithFile(Within(q, "metadata"), pieces))
    BY <1>5 DEF pieces
  <2> QED BY <1>1, <2>2, <2>5, <2>7, <2>10, <2>11, <2>13, <2>14, PutInside DEF Advances
<1> QED BY <1>2, <1>3, <1>4, <1>5 DEF validate

(* mkdir of the folder within an export.                                   *)
LEMMA MakeInnerKeeps == ASSUME FilesIInv, NEW q \in Clients, MakeInner(q) PROVE FilesIInv'
<1>1. /\ client[q].pc = "make inner" /\ FilesState /\ OwnFiles(q) /\ RequestOK(q) /\ q \in Running /\ Begun(q)
      /\ client[q].kind = "export" /\ client[q].pc \in RunningAt /\ client[q].folder \in LayerIds
      /\ client[q].listed = {} /\ client[q].victim = {} /\ client[q].name \in FileNames
      /\ client[q].user \in Users /\ client[q].folder \in FolderIds
      /\ UNCHANGED <<met, unsettled, waited>>
  BY Facts, RequestFacts DEF MakeInner, Is, Running, RunningAt, RequestOK
<1>2. Inner(q) = Within(q, client[q].name) /\ Front(Inner(q)) = FolderOf(q)
  BY PathFacts
<1>3. CASE ~(Exists(FolderOf(q)) /\ ~Exists(Inner(q))) /\ Breaks(q)
  <2>1. ~Undisturbed(q)
    BY <1>1, <1>2, <1>3 DEF OwnFiles, FolderIsOwn
  <2> QED BY <1>1, <1>3, <2>1, Breakage
<1>4. ASSUME Exists(FolderOf(q)), ~Exists(Inner(q)), Stored(WithFile(Inner(q), {}))
      PROVE  /\ DiskOK' /\ Put(Within(q, client[q].name), {})
             /\ Stored(WithFile(Within(q, client[q].name), {}))
  <2>1. Put(Inner(q), {}) /\ Put(<<client[q].user, client[q].folder, client[q].name>>, {})
    BY <1>2, <1>4, Puts DEF Within
  <2>2. DiskOK'
    BY <1>1, <1>4, <2>1, PutKeepsDisk DEF FilesState, FolderOf
  <2> QED BY <1>2, <1>4, <2>1, <2>2
<1>5. CASE Exists(FolderOf(q)) /\ ~Exists(Inner(q)) /\ Stored(WithFile(Inner(q), {})) /\ To(q, "write")
  <2>1. "write" \in RequestLabels \ {"idle", "read", "drop"} /\ Advances(q, "write")
    BY <1>1, <1>5, GoesTo DEF RequestLabels, RunningAt
  <2>2. Onward(q, "write")
    BY <1>1, <2>1, AdvanceOwn
  <2>3. "write" \in Stages[client[q].kind]
    BY <1>1, StageFacts
  <2>4. \A p \in Clients : RequestOK(p)'
    BY <1>1, <2>1, <2>3, RequestAdvances
  <2>5. /\ Exists(HomeOf(q)) => Exists(HomeOf(q))'
        /\ Exists(FolderOf(q))' /\ Exists(Within(q, client[q].name))'
    <3>1. Within(q, client[q].name)' = Within(q, client[q].name)
      BY <2>2 DEF Onward, SameRequest, Within
    <3> QED BY <1>4, <1>5, <2>2, <3>1 DEF Put, Exists, Onward
  <2>6. ~Exists(Content(q, "data"))'
    <3>1. ~Exists(Content(q, "data"))
      <4>1. DiskOK /\ ~Exists(<<client[q].user, client[q].folder, client[q].name>>)
        BY <1>1, <1>2, <1>5 DEF FilesState, Within
      <4> QED BY <1>1, <4>1 DEF DiskOK, Content
    <3>2. Content(q, "data") # Within(q, client[q].name)
      BY DEF Content, Within
    <3> QED BY <1>4, <1>5, <2>2, <3>1, <3>2 DEF Put, Exists, Onward
  <2>7. HomesStay(q)' /\ FolderIsOwn(q)' /\ InnerIsOwn(q)' /\ ZipIsWhole(q)' /\ UploadFolderOK(q)'
    <3>1. HomesStay(q)'
      BY <1>1, <2>2, <2>5 DEF Onward, OwnFiles, HomesStay
    <3>2. FolderIsOwn(q)' /\ ZipIsWhole(q)' /\ UploadFolderOK(q)'
      BY <1>1, <2>2, <2>5 DEF Onward, FolderIsOwn, ZipIsWhole, UploadFolderOK, SameRequest
    <3>3. InnerIsOwn(q)'
      BY <1>1, <2>2, <2>5, <2>6 DEF Onward, InnerIsOwn, SameRequest
    <3> QED BY <3>1, <3>2, <3>3
  <2>8. OwnFiles(q)' /\ AccountsFor(q)' /\ AgedAfter(q)' /\ UploadWaits(q)'
    BY <1>1, <2>2, <2>7, NotYet DEF OwnFiles, Onward, AccountsFor, RunningAt
  <2> QED BY <1>1, <1>4, <1>5, <2>1, <2>4, <2>8, PutInside DEF Advances
<1>6. CASE Exists(FolderOf(q)) /\ ~Exists(Inner(q)) /\ Stored(WithFile(Inner(q), {})) /\ GivesUp(q, "own")
  <2>1. RequestMoves(q, "failed", "own", {}, {}, client[q].answer)
    BY <1>1, <1>6, GaveUp DEF Stops
  <2>2. /\ client'[q].pc = "failed" /\ client'[q].why = "own" /\ client'[q].listed = {}
        /\ client'[q].victim = {} /\ SameRequest(q) /\ "failed" \in RequestLabels \ {"idle", "read", "drop"}
    BY <2>1 DEF RequestMoves, RequestLabels
  <2>3. \A p \in Clients : RequestOK(p)'
    BY <1>1, <1>6, GaveUp, RequestStops
  <2>4. HomesStay(q)' /\ FolderIsOwn(q)' /\ InnerIsOwn(q)' /\ ZipIsWhole(q)'
    BY <2>2 DEF HomesStay, FolderIsOwn, InnerIsOwn, ZipIsWhole
  <2>5. UploadFolderOK(q)' /\ BrokenForACause(q)' /\ GoneForACause(q)'
    BY <1>1, <2>2 DEF UploadFolderOK, BrokenForACause, GoneForACause, SameRequest
  <2>6. OwnFiles(q)' /\ AccountsFor(q)' /\ AgedAfter(q)' /\ UploadWaits(q)'
    BY <1>1, <2>2, <2>4, <2>5, NotYet DEF OwnFiles, AccountsFor, SameRequest
  <2> QED BY <1>1, <1>4, <1>6, <2>1, <2>2, <2>3, <2>6, PutInside
<1> QED BY <1>2, <1>3, <1>5, <1>6 DEF MakeInner, Makes

(* The data of an export: its own, if it is undisturbed.                   *)
LEMMA ExportOgrKeeps == ASSUME FilesIInv, NEW q \in Clients, export_ogr2ogr(q) PROVE FilesIInv'
<1>1. /\ client[q].pc = "write" /\ FilesState /\ OwnFiles(q) /\ RequestOK(q) /\ q \in Running /\ Begun(q)
      /\ client[q].kind = "export" /\ client[q].pc \in RunningAt /\ client[q].folder \in LayerIds
      /\ client[q].listed = {} /\ client[q].victim = {} /\ client[q].name \in FileNames
      /\ client[q].user \in Users /\ client[q].folder \in FolderIds
      /\ UNCHANGED <<met, unsettled, waited>>
  BY Facts, RequestFacts DEF export_ogr2ogr, Is, Running, RunningAt, RequestOK
<1>2. Inner(q) = Within(q, client[q].name) /\ Append(Inner(q), "data") = Content(q, "data")
  BY PathFacts
<1>3. CASE GivesUp(q, "own") /\ UNCHANGED <<disk, aged>>
  BY <1>1, <1>3, OwnFailure
<1>4. CASE (~Exists(Inner(q)) \/ Exists(Content(q, "data"))) /\ Breaks(q)
  <2>1. ~Undisturbed(q)
    BY <1>1, <1>2, <1>4 DEF OwnFiles, InnerIsOwn
  <2> QED BY <1>1, <1>4, <2>1, Breakage
<1>5. CASE Exists(Inner(q)) /\ Stored(WithFile(Content(q, "data"), {<<"data", q>>})) /\ To(q, "metadata")
  <2> DEFINE pieces == {<<"data", q>>}
  <2>1. /\ Put(Content(q, "data"), pieces) /\ pieces \subseteq Parts_of
        /\ Put(<<client[q].user, client[q].folder, client[q].name, "data">>, pieces)
    BY <1>5, Puts DEF Content, Parts_of
  <2>2. "metadata" \in RequestLabels \ {"idle", "read", "drop"} /\ Advances(q, "metadata")
    BY <1>1, <1>5, GoesTo DEF RequestLabels, RunningAt
  <2>3. Onward(q, "metadata")
    BY <1>1, <2>2, AdvanceOwn
  <2>4. "metadata" \in Stages[client[q].kind]
    BY <1>1, StageFacts
  <2>5. \A p \in Clients : RequestOK(p)'
    BY <1>1, <2>2, <2>4, RequestAdvances
  <2>6. DiskOK'
    <3> HIDE DEF pieces
    <3>1. DiskOK /\ Exists(<<client[q].user, client[q].folder, client[q].name>>)
      BY <1>1, <1>2, <1>5 DEF FilesState, Within
    <3> QED BY <1>1, <2>1, <3>1, PutKeepsDisk
  <2>7. /\ Exists(HomeOf(q)) => Exists(HomeOf(q))'
        /\ Exists(Within(q, client[q].name))' /\ Exists(Content(q, "data"))'
        /\ disk'[Content(q, "data")] = {<<"data", q>>}
    <3>1. Within(q, client[q].name)' = Within(q, client[q].name)
      BY <2>3 DEF Onward, SameRequest, Within
    <3> QED BY <1>2, <1>5, <2>1, <2>3, <3>1 DEF Put, Exists, Onward
  <2>8. HomesStay(q)'
    BY <1>1, <2>3, <2>7 DEF Onward, OwnFiles, HomesStay
  <2>9. FolderIsOwn(q)' /\ ZipIsWhole(q)' /\ UploadFolderOK(q)'
    BY <1>1, <2>3 DEF Onward, FolderIsOwn, ZipIsWhole, UploadFolderOK, SameRequest
  <2>10. InnerIsOwn(q)'
    BY <1>1, <2>3, <2>7 DEF Onward, InnerIsOwn, SameRequest
  <2>11. OwnFiles(q)' /\ AccountsFor(q)' /\ AgedAfter(q)' /\ UploadWaits(q)'
    BY <1>1, <2>3, <2>8, <2>9, <2>10, NotYet DEF OwnFiles, Onward, AccountsFor, RunningAt
  <2> HIDE DEF pieces
  <2>12. Stored(WithFile(Content(q, "data"), pieces))
    BY <1>5 DEF pieces
  <2> QED BY <1>1, <2>2, <2>5, <2>6, <2>11, <2>12, PutInside DEF Advances
<1> QED BY <1>2, <1>3, <1>4, <1>5 DEF export_ogr2ogr

(* The metadata of an export, next to its data.                            *)
LEMMA MetadataKeeps == ASSUME FilesIInv, NEW q \in Clients, create_metadata_file(q) PROVE FilesIInv'
<1>1. /\ client[q].pc = "metadata" /\ FilesState /\ OwnFiles(q) /\ RequestOK(q) /\ q \in Running /\ Begun(q)
      /\ client[q].kind = "export" /\ client[q].pc \in RunningAt /\ client[q].folder \in LayerIds
      /\ client[q].listed = {} /\ client[q].victim = {} /\ client[q].name \in FileNames
      /\ client[q].user \in Users /\ client[q].folder \in FolderIds
      /\ UNCHANGED <<met, unsettled, waited>>
  BY Facts, RequestFacts DEF create_metadata_file, Is, Running, RunningAt, RequestOK
<1>2. Inner(q) = Within(q, client[q].name) /\ Append(Inner(q), "metadata") = Content(q, "metadata")
  BY PathFacts
<1>3. CASE ~Exists(Inner(q)) /\ Breaks(q)
  <2>1. ~Undisturbed(q)
    BY <1>1, <1>2, <1>3 DEF OwnFiles, InnerIsOwn
  <2> QED BY <1>1, <1>3, <2>1, Breakage
<1>4. CASE Exists(Inner(q)) /\ Stored(WithFile(Content(q, "metadata"), {<<"metadata", q>>})) /\ To(q, "zip")
  <2> DEFINE pieces == {<<"metadata", q>>}
  <2>1. /\ Put(Content(q, "metadata"), pieces) /\ pieces \subseteq Parts_of
        /\ Put(<<client[q].user, client[q].folder, client[q].name, "metadata">>, pieces)
    BY <1>4, Puts DEF Content, Parts_of
  <2>2. "zip" \in RequestLabels \ {"idle", "read", "drop"} /\ Advances(q, "zip")
    BY <1>1, <1>4, GoesTo DEF RequestLabels, RunningAt
  <2>3. Onward(q, "zip")
    BY <1>1, <2>2, AdvanceOwn
  <2>4. "zip" \in Stages[client[q].kind]
    BY <1>1, StageFacts
  <2>5. \A p \in Clients : RequestOK(p)'
    BY <1>1, <2>2, <2>4, RequestAdvances
  <2>6. DiskOK'
    <3> HIDE DEF pieces
    <3>1. DiskOK /\ Exists(<<client[q].user, client[q].folder, client[q].name>>)
      BY <1>1, <1>2, <1>4 DEF FilesState, Within
    <3> QED BY <1>1, <2>1, <3>1, PutKeepsDisk
  <2>7. /\ Exists(HomeOf(q)) => Exists(HomeOf(q))'
        /\ Exists(Within(q, client[q].name))' /\ Exists(Content(q, "metadata"))'
        /\ disk'[Content(q, "metadata")] = {<<"metadata", q>>}
    <3>1. Within(q, client[q].name)' = Within(q, client[q].name)
      BY <2>3 DEF Onward, SameRequest, Within
    <3> QED BY <1>2, <1>4, <2>1, <2>3, <3>1 DEF Put, Exists, Onward
  <2>8. Undisturbed(q)' => Exists(Content(q, "data"))' /\ disk'[Content(q, "data")] = {<<"data", q>>}
    <3>1. Content(q, "data") # Content(q, "metadata")
      BY DEF Content
    <3> QED BY <1>1, <2>1, <2>3, <3>1 DEF Put, Exists, Onward, OwnFiles, InnerIsOwn
  <2>9. HomesStay(q)'
    BY <1>1, <2>3, <2>7 DEF Onward, OwnFiles, HomesStay
  <2>10. FolderIsOwn(q)' /\ ZipIsWhole(q)' /\ UploadFolderOK(q)'
    BY <1>1, <2>3 DEF Onward, FolderIsOwn, ZipIsWhole, UploadFolderOK, SameRequest
  <2>11. InnerIsOwn(q)'
    BY <1>1, <2>3, <2>7, <2>8 DEF Onward, InnerIsOwn, SameRequest
  <2>12. OwnFiles(q)' /\ AccountsFor(q)' /\ AgedAfter(q)' /\ UploadWaits(q)'
    BY <1>1, <2>3, <2>9, <2>10, <2>11, NotYet DEF OwnFiles, Onward, AccountsFor, RunningAt
  <2> HIDE DEF pieces
  <2>13. Stored(WithFile(Content(q, "metadata"), pieces))
    BY <1>4 DEF pieces
  <2> QED BY <1>1, <2>2, <2>5, <2>6, <2>12, <2>13, PutInside DEF Advances
<1> QED BY <1>2, <1>3, <1>4 DEF create_metadata_file

(* What is zipped: the folder itself, which has no pieces, and its files.  *)
LEMMA ZippedPaths ==
  ASSUME FilesState, NEW q \in Clients, client[q].kind = "export", NEW r \in Paths
  PROVE  IsPrefix(Inner(q), r) =>
           r = Inner(q) \/ \E f \in {"data", "metadata"} : r = Content(q, f)
<1> DEFINE u == client[q].user  x == client[q].folder  n == client[q].name
<1>1. Inner(q) = <<u, x, n>> /\ x \in LayerIds /\ x \notin Clients
  BY PathFacts, RequestFacts, PathNamesDiffer DEF Within, RequestOK
<1> SUFFICES ASSUME IsPrefix(<<u, x, n>>, r)
             PROVE  r = <<u, x, n>> \/ \E f \in {"data", "metadata"} : r = Content(q, f)
  BY <1>1
<1>2. \A v, y : r # <<v>> /\ r # <<v, y>>
  BY BelowInner
<1>3. \A v, y, m : r = <<v, y, m>> => u = v /\ x = y /\ n = m
  <2> SUFFICES ASSUME NEW v, NEW y, NEW m, r = <<v, y, m>> PROVE u = v /\ x = y /\ n = m
    OBVIOUS
  <2>1. IsPrefix(<<u, x, n>>, <<v, y, m>>)
    OBVIOUS
  <2> QED BY <2>1, BelowInner
<1>4. \A v, y, m, f : r = <<v, y, m, f>> => u = v /\ x = y /\ n = m
  <2> SUFFICES ASSUME NEW v, NEW y, NEW m, NEW f, r = <<v, y, m, f>> PROVE u = v /\ x = y /\ n = m
    OBVIOUS
  <2>1. IsPrefix(<<u, x, n>>, <<v, y, m, f>>)
    OBVIOUS
  <2> QED BY <2>1, BelowInner
<1>5. CASE \E v, y, m : r = <<v, y, m>>
  BY <1>3, <1>5
<1>6. CASE \E v \in Users, y \in LayerIds, m \in FileNames, f \in {"data", "metadata"} :
             r = <<v, y, m, f>>
  <2>1. PICK v \in Users, y \in LayerIds, m \in FileNames, f \in {"data", "metadata"} :
           r = <<v, y, m, f>>
    BY <1>6
  <2>2. u = v /\ x = y /\ n = m
    BY <1>4, <2>1
  <2> QED BY <2>1, <2>2 DEF Content
<1> QED BY <1>2, <1>5, <1>6 DEF Paths

(* What is zipped are pieces, and all of the request if both are its own.  *)
LEMMA ZippedPieces ==
  ASSUME FilesState, NEW q \in Clients, client[q].kind = "export"
  PROVE  /\ zip_directory(Inner(q)) \subseteq Parts_of
         /\ Exists(Content(q, "data")) /\ disk[Content(q, "data")] = {<<"data", q>>}
              /\ Exists(Content(q, "metadata")) /\ disk[Content(q, "metadata")] = {<<"metadata", q>>}
              => zip_directory(Inner(q)) = BothParts(q)
<1> DEFINE u == client[q].user  x == client[q].folder  n == client[q].name
<1>1. /\ DiskOK /\ u \in Users /\ x \in LayerIds /\ n \in FileNames
      /\ Inner(q) = <<u, x, n>>
  BY PathFacts, RequestFacts DEF FilesState, RequestOK, Within
<1>2. Exists(Inner(q)) => disk[Inner(q)] = {}
  <2>1. \A y \in LayerIds : Exists(<<u, y, n>>) => disk[<<u, y, n>>] = {}
    BY <1>1 DEF DiskOK
  <2> QED BY <1>1, <2>1
<1>3. \A f \in {"data", "metadata"} :
         Exists(Content(q, f)) => disk[Content(q, f)] \subseteq Parts_of /\ IsPrefix(Inner(q), Content(q, f))
  <2>1. \A f \in {"data", "metadata"} :
           Exists(<<u, x, n, f>>) => disk[<<u, x, n, f>>] \subseteq Parts_of
    BY <1>1 DEF DiskOK
  <2>2. \A f : IsPrefix(<<u, x, n>>, <<u, x, n, f>>)
    BY BelowInner
  <2> QED BY <1>1, <2>1, <2>2 DEF Content
<1>4. \A r \in DOMAIN disk : IsPrefix(Inner(q), r) =>
         r = Inner(q) \/ r = Content(q, "data") \/ r = Content(q, "metadata")
  BY <1>1, ZippedPaths DEF DiskOK
<1>5. \A piece : piece \in zip_directory(Inner(q)) <=>
         \E r \in DOMAIN disk : IsPrefix(Inner(q), r) /\ piece \in disk[r]
  BY DEF zip_directory
<1>6. zip_directory(Inner(q)) \subseteq Parts_of
  BY <1>2, <1>3, <1>4, <1>5 DEF Exists
<1>7. ASSUME Exists(Content(q, "data")), disk[Content(q, "data")] = {<<"data", q>>},
             Exists(Content(q, "metadata")), disk[Content(q, "metadata")] = {<<"metadata", q>>}
      PROVE  zip_directory(Inner(q)) = BothParts(q)
  <2>1. <<"data", q>> \in zip_directory(Inner(q)) /\ <<"metadata", q>> \in zip_directory(Inner(q))
    BY <1>3, <1>5, <1>7 DEF Exists
  <2>2. \A piece \in zip_directory(Inner(q)) : piece = <<"data", q>> \/ piece = <<"metadata", q>>
    BY <1>2, <1>4, <1>5, <1>7 DEF Exists
  <2> QED BY <2>1, <2>2 DEF BothParts
<1> QED BY <1>6, <1>7

(* The zip is whole, for q and for whoever shares its name.                *)
LEMMA ZipFolderKeeps == ASSUME FilesIInv, NEW q \in Clients, ZipFolder(q) PROVE FilesIInv'
<1>1. /\ client[q].pc = "zip" /\ FilesState /\ OwnFiles(q) /\ RequestOK(q) /\ q \in Running /\ Begun(q)
      /\ client[q].kind = "export" /\ client[q].pc \in RunningAt /\ client[q].folder \in LayerIds
      /\ client[q].listed = {} /\ client[q].victim = {} /\ client[q].name \in FileNames
      /\ client[q].user \in Users /\ client[q].folder \in FolderIds
      /\ UNCHANGED <<met, unsettled, waited>>
  BY Facts, RequestFacts DEF ZipFolder, Is, Running, RunningAt, RequestOK
<1>2. CASE ~Exists(HomeOf(q))
  <2>1. ~Undisturbed(q)
    BY <1>1, <1>2 DEF OwnFiles, HomesStay, Undisturbed
  <2> QED BY <1>1, <1>2, <2>1, Breakage DEF ZipFolder
<1>3. CASE Exists(HomeOf(q))
  <2> DEFINE pieces == zip_directory(Inner(q))
  <2>1. Stored(WithFile(ZipOf(q), pieces)) /\ To(q, "remove")
    BY <1>3 DEF ZipFolder, WrittenZip
  <2>2. pieces \subseteq Parts_of /\ (Undisturbed(q) => pieces = BothParts(q))
    BY <1>1, ZippedPieces DEF OwnFiles, InnerIsOwn
  <2> HIDE DEF pieces
  <2>3. Put(ZipOf(q), pieces) /\ AgesWell /\ Put(<<client[q].user, client[q].name>>, pieces)
    BY <2>1, Puts DEF ZipOf
  <2>4. "remove" \in RequestLabels \ {"idle", "read", "drop"} /\ Advances(q, "remove")
    BY <1>1, <2>1, GoesTo DEF RequestLabels, RunningAt
  <2>5. Onward(q, "remove")
    BY <1>1, <2>4, AdvanceOwn
  <2>6. "remove" \in Stages[client[q].kind]
    BY <1>1, StageFacts
  <2>7. \A p \in Clients : RequestOK(p)'
    BY <1>1, <2>4, <2>6, RequestAdvances
  <2>8. DiskOK'
    <3>1. DiskOK /\ Exists(<<client[q].user>>)
      BY <1>1, <1>3 DEF FilesState, HomeOf
    <3> QED BY <1>1, <2>2, <2>3, <3>1, PutKeepsDisk
  <2>9. /\ Exists(HomeOf(q))' /\ Exists(ZipOf(q))'
        /\ Undisturbed(q)' => disk'[ZipOf(q)] = BothParts(q)
    BY <1>3, <2>2, <2>3, <2>5 DEF Put, Exists, Onward
  <2>10. HomesStay(q)' /\ FolderIsOwn(q)' /\ InnerIsOwn(q)' /\ UploadFolderOK(q)'
    BY <1>1, <2>5, <2>9 DEF Onward, HomesStay, FolderIsOwn, InnerIsOwn, UploadFolderOK, SameRequest
  <2>11. \A r : BothParts(r)' = BothParts(r)
    BY DEF BothParts
  <2>12. ZipIsWhole(q)'
    <3>1. q \in Candidates(q)'
      BY DEF Candidates
    <3> QED BY <2>5, <2>9, <2>11, <3>1 DEF ZipIsWhole, Onward
  <2>13. \A p \in Clients : p # q /\ Begun(p) => (ZipOf(p) = ZipOf(q) => ZipIsWhole(p)')
    <3> SUFFICES ASSUME NEW p \in Clients, p # q, Begun(p), ZipOf(p) = ZipOf(q) PROVE ZipIsWhole(p)'
      OBVIOUS
    <3>1. client'[p] = client[p] /\ ZipOf(p)' = ZipOf(q)' /\ client'[q].kind = "export"
      BY <1>1, <2>4, <2>5 DEF Advances, RequestMoves, Onward, SameRequest, ZipOf
    <3>2. CASE client[p].pc \in {"remove", "send"}
      <4>1. q \in met'[p] /\ met' = met
        BY <1>1, <3>2 DEF FilesState, MeetingsOK, Running, RunningAt
      <4>2. q \in Candidates(p)'
        BY <3>1, <4>1 DEF Candidates
      <4> QED BY <2>5, <2>9, <2>11, <3>1, <3>2, <4>2 DEF ZipIsWhole, Onward
    <3>3. CASE client[p].pc \notin {"remove", "send"}
      <4>1. Frame /\ ZipIsWhole(p) /\ FilesState
        BY <1>1, <2>5, Facts DEF Onward, OwnFiles
      <4> QED BY <3>1, <3>3, <4>1, ZipKept
    <3> QED BY <3>2, <3>3
  <2>14. OwnFiles(q)' /\ AccountsFor(q)' /\ AgedAfter(q)' /\ UploadWaits(q)'
    BY <1>1, <2>5, <2>10, <2>12, NotYet DEF OwnFiles, Onward, AccountsFor, RunningAt
  <2>15. \A u \in Users, x \in FolderIds : ZipOf(q) = <<u, x>> => ZipOf(q) = FolderOf(q)
    BY <1>1, PathNamesDiffer DEF ZipOf
  <2>16. \A p \in Clients : p # q /\ Begun(p) =>
        \/ /\ ZipOf(q) = HomeOf(q)
           /\ client[p].pc = "make home" /\ HomeOf(p) = HomeOf(q) => p \in unsettled'
        \/ ZipOf(q) = FolderOf(q)
        \/ \E f : ZipOf(q) = Within(q, f) \/ ZipOf(q) = Content(q, f)
        \/ ZipOf(q) = ZipOf(q) /\ (ZipOf(p) = ZipOf(q) => ZipIsWhole(p)')
    BY <2>13
  <2> QED BY <1>1, <2>1, <2>4, <2>7, <2>8, <2>14, <2>15, <2>16, PutStep DEF Advances
<1> QED BY <1>2, <1>3

(* What is sent is what one of the candidates zipped.                      *)
LEMMA SendZipKeeps == ASSUME FilesIInv, NEW q \in Clients, SendZip(q) PROVE FilesIInv'
<1>1. /\ client[q].pc = "send" /\ FilesState /\ OwnFiles(q) /\ RequestOK(q) /\ q \in Running /\ Begun(q)
      /\ client[q].kind = "export" /\ client[q].pc \in RunningAt
      /\ client[q].listed = {} /\ client[q].victim = {} /\ client[q].why = ""
      /\ client[q].name \in FileNames /\ client[q].user \in Users
      /\ UNCHANGED <<disk, aged, met, unsettled, waited>>
  BY Facts, RequestFacts DEF SendZip, Is, Running, RunningAt, RequestOK
<1>2. CASE ~Exists(ZipOf(q))
  <2>1. ~Undisturbed(q)
    BY <1>1, <1>2 DEF OwnFiles, HomesStay, Undisturbed
  <2>2. Breaks(q)
    BY <1>1, <1>2 DEF SendZip, Breaks
  <2> QED BY <1>1, <2>1, <2>2, Breakage
<1>3. CASE Exists(ZipOf(q))
  <2> DEFINE answer == disk[ZipOf(q)]
  <2>1. answer \subseteq Parts_of
    BY <1>1, <1>3 DEF FilesState, DiskOK, ZipOf
  <2>2. /\ client'[q] = [client[q] EXCEPT !.pc = "done", !.answer = answer]
        /\ \A p \in Clients : p # q => client'[p] = client[p]
        /\ client' = [client EXCEPT ![q] = client'[q]]
    BY <1>1, <1>3 DEF FilesState, SendZip
  <2>3. client[q] \in ClientState /\ client \in [Clients -> ClientState]
    BY <1>1 DEF FilesState
  <2>4. client'[q] \in ClientState
    <3> HIDE DEF answer
    <3> QED BY <2>1, <2>2, <2>3 DEF ClientState, Parts_of
  <2>5. client' \in [Clients -> ClientState]
    BY <2>2, <2>3, <2>4
  <2>6. RequestMoves(q, "done", "", {}, {}, answer)
    <3> HIDE DEF answer
    <3> QED BY <1>1, <2>2, <2>3, <2>5 DEF RequestMoves, SameRequest, ClientState
  <2>7. /\ client'[q].pc = "done" /\ client'[q].why = "" /\ client'[q].listed = {}
        /\ client'[q].victim = {} /\ client'[q].answer = answer /\ SameRequest(q)
    BY <2>6 DEF RequestMoves
  <2>8. "done" \in RequestLabels \ {"idle"} /\ "done" \in Stages["export"]
    BY <1>1, StageFacts DEF RequestLabels
  <2>9. RequestOK(q)'
    BY <1>1, <2>7, <2>8 DEF RequestOK, SameRequest
  <2>10. \A p \in Clients : RequestOK(p)'
    BY <1>1, <2>2, <2>9, RequestsOfOthers
  <2>11. Frame
    BY <1>1, <2>6, <2>8, MoveIsFrame
  <2>12. HomesStay(q)' /\ FolderIsOwn(q)' /\ InnerIsOwn(q)' /\ UploadFolderOK(q)'
    BY <1>1, <2>7 DEF HomesStay, FolderIsOwn, InnerIsOwn, UploadFolderOK, SameRequest
  <2>13. ZipIsWhole(q)'
    <3>1. SUFFICES ASSUME \A r \in Candidates(q)' : Undisturbed(r)'
                   PROVE  \E r \in Candidates(q)' : client'[q].answer = BothParts(r)'
      BY <2>7 DEF ZipIsWhole
    <3>2. \A r \in Candidates(q) : r \in Clients /\ Begun(r)
      BY <1>1 DEF Candidates, FilesState, MeetingsOK
    <3>3. \A r \in Candidates(q) : r \in Candidates(q)' /\ Undisturbed(r)
      BY <1>1, <2>11, <3>1, <3>2, Calmer
    <3>4. PICK r \in Candidates(q) : disk[ZipOf(q)] = BothParts(r)
      BY <1>1, <3>3 DEF OwnFiles, ZipIsWhole
    <3> QED BY <2>7, <3>3, <3>4 DEF BothParts
  <2>14. BrokenForACause(q)' /\ GoneForACause(q)'
    BY <2>7 DEF BrokenForACause, GoneForACause
  <2>15. OwnFiles(q)'
    BY <2>12, <2>13, <2>14 DEF OwnFiles
  <2>16. ~AccountsFor(q)
    BY <1>1 DEF AccountsFor, Is
  <2> HIDE DEF answer
  <2> QED BY <1>1, <2>6, <2>8, <2>10, <2>15, <2>16, QuietStep
<1> QED BY <1>2, <1>3

-----------------------------------------------------------------------------
(* A sweep removes a home.                                                 *)
LEMMA NoHomeNoChange ==
  ASSUME DiskOK, NEW u \in Users, HomeGone(u), ~Exists(<<u>>)
  PROVE  SameDisk
<1> SUFFICES ASSUME NEW p \in DOMAIN disk PROVE p \in DOMAIN disk'
  BY DEF SameDisk, HomeGone
<1>1. CASE \E v \in Users : p = <<v>>
  BY <1>1 DEF HomeGone, Exists
<1>2. CASE \E v \in Users, y \in FolderIds \cup FileNames : p = <<v, y>>
  BY <1>2 DEF DiskOK, HomeGone, Exists
<1>3. \A v \in Users, y \in FolderIds : Exists(<<v, y>>) => v # u
  BY DEF DiskOK
<1>4. CASE \E v \in Users, y \in LayerIds, n \in FileNames : p = <<v, y, n>>
  <2>1. PICK v \in Users, y \in LayerIds, n \in FileNames : p = <<v, y, n>>
    BY <1>4
  <2>2. y \in FolderIds /\ Exists(<<v, y>>)
    BY <2>1 DEF DiskOK, Exists, FolderIds
  <2> QED BY <1>3, <2>1, <2>2 DEF HomeGone
<1>5. CASE \E v \in Users, d \in Clients, f \in {"file", "metadata"} : p = <<v, d, f>>
  <2>1. PICK v \in Users, d \in Clients, f \in {"file", "metadata"} : p = <<v, d, f>>
    BY <1>5
  <2>2. d \in FolderIds /\ Exists(<<v, d>>)
    BY <2>1 DEF DiskOK, Exists, FolderIds
  <2> QED BY <1>3, <2>1, <2>2 DEF HomeGone
<1>6. CASE \E v \in Users, y \in LayerIds, n \in FileNames, f \in {"data", "metadata"} :
             p = <<v, y, n, f>>
  <2>1. PICK v \in Users, y \in LayerIds, n \in FileNames, f \in {"data", "metadata"} :
           p = <<v, y, n, f>>
    BY <1>6
  <2>2. y \in FolderIds /\ Exists(<<v, y, n>>)
    BY <2>1 DEF DiskOK, Exists, FolderIds
  <2>3. Exists(<<v, y>>)
    BY <2>1, <2>2 DEF DiskOK
  <2> QED BY <1>3, <2>1, <2>2, <2>3 DEF HomeGone
<1> QED BY <1>1, <1>2, <1>4, <1>5, <1>6 DEF DiskOK, Paths

(* An old home goes: whoever needs it is unsettled, or had waited.         *)
LEMMA ExpelKeeps == ASSUME FilesIInv, NEW q \in Clients, Expel(q) PROVE FilesIInv'
<1>1. /\ client[q].pc = "expel" /\ FilesState /\ OwnFiles(q) /\ RequestOK(q) /\ q \in Running /\ Begun(q)
      /\ client[q].kind # "import" /\ client[q].listed \subseteq Users /\ client[q].why = ""
      /\ client[q].listed \cap client[q].victim = {} /\ client[q].victim \subseteq Users
      /\ met' = met /\ waited' = waited
  BY Facts, RequestFacts, StageFacts DEF Expel, Running, RunningAt, RequestOK
<1>2. PICK u \in client[q].victim :
         /\ async_delete_dir(<<u>>)
         /\ unsettled' = IF Exists(<<u>>)
                         THEN unsettled
                                \cup {r \in Running \ {q} : client[r].user = u \/ u \in client[r].listed}
                                \cup {r \in met[q] : client[r].kind = "upload" /\ client[r].user = u}
                         ELSE unsettled
  BY DEF Expel
<1>3. u \in Users /\ HomeGone(u) /\ AgesWell /\ DiskOK'
  BY <1>1, <1>2, HomeGoes, DiskOKHomeGone DEF FilesState
<1>4. /\ unsettled \subseteq unsettled' /\ unsettled' \subseteq {r \in Clients : Begun(r)}
      /\ Exists(<<u>>) =>
           /\ \A p \in Running : p # q /\ (client[p].user = u \/ u \in client[p].listed)
                                   => p \in unsettled'
           /\ \A d \in met[q] : client[d].kind = "upload" /\ client[d].user = u => d \in unsettled'
  <2>1. unsettled \subseteq {r \in Clients : Begun(r)} /\ \A r \in met[q] : r \in Clients /\ Begun(r)
    BY <1>1 DEF FilesState, MeetingsOK
  <2>2. \A r \in Running : r \in Clients /\ Begun(r)
    BY <1>1, RequestFacts DEF Running
  <2> QED BY <1>2, <2>1, <2>2
<1>5. RequestMoves(q, "sweep", "", client[q].listed, {}, client[q].answer)
  <2>1. /\ client'[q] = [client[q] EXCEPT !.victim = {}, !.pc = "sweep"]
        /\ \A p \in Clients : p # q => client'[p] = client[p]
        /\ client' = [client EXCEPT ![q] = client'[q]]
    BY <1>1 DEF FilesState, Expel
  <2>2. client[q] \in ClientState /\ client \in [Clients -> ClientState]
    BY <1>1 DEF FilesState
  <2>3. client'[q] \in ClientState
    BY <2>1, <2>2 DEF ClientState, RunningAt
  <2>4. client' \in [Clients -> ClientState]
    BY <2>1, <2>2, <2>3
  <2> QED BY <1>1, <2>1, <2>2, <2>4 DEF RequestMoves, SameRequest, ClientState
<1>6. /\ client'[q].pc = "sweep" /\ client'[q].why = "" /\ client'[q].listed = client[q].listed
      /\ client'[q].victim = {} /\ SameRequest(q) /\ client' \in [Clients -> ClientState]
      /\ \A p \in Clients : p # q => client'[p] = client[p]
  BY <1>5 DEF RequestMoves
<1>7. "sweep" \in RequestLabels \ {"idle"}
  BY DEF RequestLabels, RunningAt
<1>8. Frame /\ MeetingsOK'
  BY <1>1, <1>4, <1>5, <1>7, MoveIsFrame, MeetingsKept
<1>9. \A p \in Clients : RequestOK(p)'
  <2>1. "sweep" \in Stages[client[q].kind]
    BY <1>1, StageFacts DEF OpeningAt
  <2>2. RequestOK(q)'
    BY <1>1, <1>6, <2>1 DEF RequestOK, SameRequest
  <2> QED BY <1>1, <1>6, <2>2, RequestsOfOthers
<1>10. \A p \in Clients : p # q /\ Begun(p) => OwnFiles(p)'
  <2> TAKE p \in Clients
  <2> HAVE p # q /\ Begun(p)
  <2>1. CASE Exists(<<u>>)
    BY <1>3, <1>4, <1>6, <1>8, <2>1, OwnHomeGone
  <2>2. CASE ~Exists(<<u>>)
    <3>1. SameDisk
      BY <1>1, <1>3, <2>2, NoHomeNoChange DEF FilesState
    <3> QED BY <1>6, <1>8, <3>1, OwnQuiet
  <2> QED BY <2>1, <2>2
<1>11. OwnFiles(q)'
  <2>1. HomesStay(q)'
    <3>1. \A v \in client[q].listed : v # u
      BY <1>1
    <3>2. \A v : Exists(<<v>>)' <=> Exists(<<v>>) /\ v # u
      BY <1>3 DEF HomeGone, Exists
    <3>3. q \notin unsettled' => q \notin unsettled
      BY <1>4
    <3> QED BY <1>1, <1>6, <3>1, <3>2, <3>3 DEF OwnFiles, HomesStay
  <2>2. FolderIsOwn(q)' /\ InnerIsOwn(q)' /\ ZipIsWhole(q)' /\ BrokenForACause(q)' /\ GoneForACause(q)'
    BY <1>6 DEF FolderIsOwn, InnerIsOwn, ZipIsWhole, BrokenForACause, GoneForACause
  <2>3. UploadFolderOK(q)'
    <3>1. Exists(FolderOf(q))' => Exists(FolderOf(q))
      BY <1>3, <1>6 DEF HomeGone, Exists, FolderOf, SameRequest
    <3> QED BY <1>1, <1>6, <3>1 DEF OwnFiles, UploadFolderOK, OpeningAt, SameRequest
  <2> QED BY <2>1, <2>2, <2>3 DEF OwnFiles
<1>12. FolderOf(q)' = FolderOf(q) /\ AccountsFor(q)' /\ \A d : q \in ImportsOf(d)' => q \in ImportsOf(d)
  BY <1>6 DEF SameRequest, FolderOf, ImportsOf, AccountsFor, RunningAt
<1>13. FoldersHaveACause'
  <2>1. \A v \in Users, y \in FolderIds :
           Exists(<<v, y>>)' => Exists(<<v, y>>) \/ (FolderOf(q)' = <<v, y>> /\ AccountsFor(q)')
    <3>1. \A v, y : Exists(<<v, y>>)' => Exists(<<v, y>>)
      BY <1>3 DEF HomeGone, Exists
    <3> QED BY <3>1
  <2>2. AccountsFor(q) /\ FolderOf(q) \in DOMAIN disk' => AccountsFor(q)' /\ FolderOf(q)' = FolderOf(q)
    BY <1>12
  <2>3. \A d \in Clients : q \in ImportsOf(d)' \ ImportsOf(d) =>
           (AccountsFor(q)' /\ FolderOf(q)' = FolderOf(d)) \/ ~Exists(FolderOf(d))'
    BY <1>12
  <2> QED BY <1>6, <1>8, <2>1, <2>2, <2>3, FoldersKeepACause
<1>14. \A d \in Clients : AgedAfter(d)'
  <2> TAKE d \in Clients
  <2>1. /\ client'[d].kind = "upload" /\ client'[d].pc \in {"write", "validate", "done"} =>
              client[d].kind = "upload" /\ client[d].pc \in {"write", "validate", "done"}
        /\ \A e \in Clients : \A v \in client'[e].victim : v \in client[e].victim \/ v \in aged
    BY <1>6 DEF SameRequest
  <2> QED BY <1>1, <1>3, <1>8, <2>1, Facts, AgedKept DEF AgesWell
<1>15. \A d \in Clients : UploadWaits(d)'
  <2> TAKE d \in Clients
  <2>1. /\ Is(d, {"upload"}, "done")' => Is(d, {"upload"}, "done")
        /\ \A i \in ImportsOf(d) : client'[i].pc \in {"read", "drop"} => client[i].pc \in {"read", "drop"}
    BY <1>6 DEF Is, ImportsOf
  <2>2. SUFFICES ASSUME Is(d, {"upload"}, "done"), Exists(FolderOf(d)), d \notin waited', d \notin unsettled'
                 PROVE  Exists(FolderOf(d))'
    BY <1>1, <1>8, <2>1, Facts, WaitsKept
  <2>3. d # q /\ FolderOf(d)' = FolderOf(d) /\ client[d].user \in Users
    BY <1>1, <1>6, <2>2, RequestFacts DEF Is, FolderOf
  <2>4. client[d].user # u
    <3> SUFFICES ASSUME client[d].user = u PROVE FALSE
      OBVIOUS
    <3>1. Exists(<<u>>)
      <4>1. client[d].folder \in FolderIds
        BY <1>1, RequestFacts
      <4> QED BY <1>1, <1>3, <2>2, <4>1 DEF FilesState, DiskOK, FolderOf
    <3>2. d \notin waited /\ d \notin unsettled
      BY <1>1, <1>4, <2>2
    <3>3. d \in met[q]
      BY <1>2, <2>2, <3>2, Facts DEF AgedAfter, Is
    <3> QED BY <1>4, <2>2, <3>1, <3>3 DEF Is
  <2> QED BY <1>3, <2>2, <2>3, <2>4 DEF HomeGone, Exists, FolderOf
<1> QED BY <1>3, <1>6, <1>8, <1>9, <1>10, <1>11, <1>13, <1>14, <1>15, Assembles

-----------------------------------------------------------------------------
(* A request begins.                                                       *)
LEMMA IdleFacts ==
  ASSUME FilesIInv, NEW q \in Clients, client[q].pc = "idle"
  PROVE  /\ FilesState /\ ~Begun(q) /\ client[q].kind = "upload" /\ client[q].why = ""
         /\ client[q].listed = {} /\ client[q].victim = {} /\ met[q] = {}
         /\ q \notin Running /\ q \notin unsettled /\ q \notin waited
         /\ \A r \in Clients : q \notin met[r]
         /\ \A r \in Clients : client[r].kind = "import" => client[r].folder # q
         /\ ~AccountsFor(q) /\ \A d : q \notin ImportsOf(d)
<1>1. FilesState /\ RequestOK(q) /\ ~Begun(q) /\ q \notin Running
  BY Facts DEF Begun, Running, RunningAt
<1>2. client[q].kind = "upload" /\ client[q].why = "" /\ client[q].listed = {} /\ client[q].victim = {}
  BY <1>1 DEF RequestOK
<1>3. /\ met[q] = {} /\ q \notin unsettled /\ q \notin waited
      /\ \A r \in Clients : q \notin met[r]
  BY <1>1 DEF FilesState, MeetingsOK
<1>4. \A r \in Clients : client[r].kind = "import" => client[r].folder # q
  BY <1>1 DEF FilesState, RequestOK, Is
<1>5. ~AccountsFor(q) /\ \A d : q \notin ImportsOf(d)
  BY <1>2 DEF AccountsFor, ImportsOf, Is, RunningAt
<1> QED BY <1>1, <1>2, <1>3, <1>4, <1>5

(* A request that begins keeps the invariant.                              *)
LEMMA StartStep ==
  ASSUME FilesIInv, NEW q \in Clients, client[q].pc = "idle", client' \in [Clients -> ClientState],
         \A p \in Clients : p # q => client'[p] = client[p],
         client'[q].pc \in {"sweep", "read", "failed"}, client'[q].victim = {},
         UNCHANGED <<disk, aged, unsettled, waited>>,
         MeetingsOK', \A r \in Clients : met[r] \subseteq met'[r],
         \A p \in Clients : RequestOK(p)', OwnFiles(q)',
         \A d \in Clients : q \in ImportsOf(d)' =>
           (AccountsFor(q)' /\ FolderOf(q)' = FolderOf(d)) \/ ~Exists(FolderOf(d))'
  PROVE  FilesIInv'
<1>1. FilesState /\ ~AccountsFor(q) /\ ~Begun(q)
  BY IdleFacts
<1>2. Frame
  <2>1. \A r \in Clients : Begun(r) => SameRequest(r) /\ client'[r].pc # "idle"
    BY <1>1 DEF Begun, SameRequest
  <2> QED BY <2>1 DEF Frame, MeetingsOK
<1>3. DiskOK' /\ SameDisk /\ AgesWell
  BY <1>1 DEF FilesState, DiskOK, Exists, SameDisk, AgesWell
<1>4. \A p \in Clients : p # q /\ Begun(p) => OwnFiles(p)'
  BY <1>2, <1>3, OwnQuiet
<1>5. FoldersHaveACause'
  <2>1. \A u \in Users, x \in FolderIds :
           Exists(<<u, x>>)' => Exists(<<u, x>>) \/ (FolderOf(q)' = <<u, x>> /\ AccountsFor(q)')
    BY DEF Exists
  <2>2. AccountsFor(q) /\ FolderOf(q) \in DOMAIN disk' => AccountsFor(q)' /\ FolderOf(q)' = FolderOf(q)
    BY <1>1
  <2> QED BY <1>2, <2>1, <2>2, FoldersKeepACause
<1>6. \A d \in Clients : AgedAfter(d)'
  <2> TAKE d \in Clients
  <2>1. /\ client'[d].kind = "upload" /\ client'[d].pc \in {"write", "validate", "done"} =>
              client[d].kind = "upload" /\ client[d].pc \in {"write", "validate", "done"}
        /\ \A e \in Clients : \A u \in client'[e].victim : u \in client[e].victim \/ u \in aged
    OBVIOUS
  <2> QED BY <1>1, <1>2, <2>1, Facts, AgedKept
<1>7. \A d \in Clients : UploadWaits(d)'
  <2> TAKE d \in Clients
  <2>1. Is(d, {"upload"}, "done")' => Is(d, {"upload"}, "done")
    BY DEF Is
  <2>2. \A i \in ImportsOf(d) : i \in Clients /\ i # q
    BY IdleFacts DEF ImportsOf
  <2>3. Is(d, {"upload"}, "done") => (Exists(FolderOf(d)) => Exists(FolderOf(d))')
    BY DEF Is, Exists, FolderOf
  <2> QED BY <1>1, <1>2, <2>1, <2>2, <2>3, Facts, WaitsKept
<1> QED BY <1>2, <1>3, <1>4, <1>5, <1>6, <1>7, Assembles

(* A folder is kept for somebody, and a new upload has none.               *)
LEMMA NewUploadHasNoFolder ==
  ASSUME FilesIInv, NEW q \in Clients, client[q].pc = "idle", NEW u \in Users
  PROVE  ~Exists(<<u, q>>)
<1> SUFFICES ASSUME Exists(<<u, q>>) PROVE FALSE
  OBVIOUS
<1>1. PICK r \in Clients : FolderOf(r) = <<u, q>> /\ AccountsFor(r)
  BY DEF FilesIInv, FoldersHaveACause, FolderIds
<1>2. client[r].folder = q /\ r # q
  BY <1>1, IdleFacts DEF FolderOf
<1>3. FilesState /\ RequestOK(r) /\ client[r].kind \in {"upload", "import", "export"}
  BY Facts, StageFacts
<1>4. Begun(r)
  BY <1>1, <1>3 DEF AccountsFor, RequestOK, Begun, RunningAt, Is
<1> QED BY <1>2, <1>3, <1>4, IdleFacts, PathNamesDiffer DEF RequestOK, Begun

(* So it does with the values upload, export and import begin with.        *)
LEMMA BeginKeeps ==
  ASSUME FilesIInv, NEW q \in Clients, NEW kind \in Kinds, NEW user \in Users, NEW folder \in FolderIds,
         NEW name \in FileNames, Begin(q, kind, user, folder, name),
         kind = "upload" => folder = q, kind = "export" => folder \in LayerIds,
         kind = "import" => folder \in Clients /\ Is(folder, {"upload"}, "done")
                              /\ client[folder].user = user
  PROVE  FilesIInv'
<1> DEFINE pc == IF kind = "import" THEN "read" ELSE "sweep"
           listed == IF kind = "import" THEN {} ELSE {u \in Users : Exists(<<u>>)}
<1>1. client[q].pc = "idle" /\ UNCHANGED <<disk, aged, unsettled, waited>>
  BY DEF Begin
<1>2. /\ client'[q] = [client[q] EXCEPT !.kind = kind, !.user = user, !.folder = folder,
                          !.name = name, !.pc = pc, !.listed = listed]
      /\ \A p \in Clients : p # q => client'[p] = client[p]
      /\ client' = [client EXCEPT ![q] = client'[q]]
  BY <1>1, IdleFacts DEF FilesState, Begin
<1>3. /\ pc \in {"read", "sweep"} /\ (pc = "read" <=> kind = "import")
      /\ listed \subseteq Users /\ (kind = "import" => listed = {})
      /\ \A u \in listed : Exists(<<u>>)
  OBVIOUS
<1> HIDE DEF pc, listed
<1>4. client[q] \in ClientState /\ client \in [Clients -> ClientState]
  BY <1>1, IdleFacts DEF FilesState
<1>5. client'[q] \in ClientState
  <2>1. pc \in RunningAt /\ folder \in LayerIds \cup Clients
    BY <1>3 DEF RunningAt, FolderIds
  <2> QED BY <1>2, <1>3, <1>4, <2>1 DEF ClientState
<1>6. client' \in [Clients -> ClientState]
  BY <1>2, <1>4, <1>5
<1>7. /\ client'[q].kind = kind /\ client'[q].user = user /\ client'[q].folder = folder
      /\ client'[q].pc = pc /\ client'[q].listed = listed
      /\ client'[q].why = "" /\ client'[q].victim = {}
  <2>1. client[q].why = "" /\ client[q].victim = {}
    BY <1>1, IdleFacts
  <2> QED BY <1>2, <1>4, <2>1 DEF ClientState
<1>8. /\ met' = [r \in Clients |-> IF r = q THEN Running
                                 ELSE IF r \in Running THEN met[r] \cup {q} ELSE met[r]]
      /\ \A r \in Clients : met[r] \subseteq met'[r]
  BY <1>1, IdleFacts DEF Begin
<1>9. MeetingsOK'
  <2>1. Running \subseteq Clients /\ q \notin Running /\ \A r \in Running : Begun(r)
    BY <1>1, IdleFacts, RequestFacts DEF Running
  <2>2. MeetingsOK
    BY <1>1, IdleFacts DEF FilesState
  <2>3. met' \in [Clients -> SUBSET Clients] /\ \A r \in Clients : r \notin met'[r]
    BY <1>8, <2>1, <2>2 DEF MeetingsOK
  <2>4. \A r \in Clients : Begun(r)' <=> Begun(r) \/ r = q
    BY <1>1, <1>2, <1>3, <1>7 DEF Begun
  <2>5. \A r \in Clients : r \in Running' => r \in Running \/ r = q
    BY <1>2 DEF Running
  <2>6. \A r \in Clients : \A s \in met'[r] : Begun(r)' /\ Begun(s)'
    BY <1>8, <2>1, <2>2, <2>4 DEF MeetingsOK
  <2>7. \A r, s \in Running' : r # s => s \in met'[r]
    <3>1. Running' \subseteq Clients
      BY DEF Running
    <3> QED BY <1>8, <2>1, <2>2, <2>5, <3>1 DEF MeetingsOK
  <2> QED BY <1>1, <2>2, <2>3, <2>4, <2>6, <2>7 DEF MeetingsOK
<1>10. RequestOK(q)'
  <2>1. pc \in Stages[kind]
    <3>1. CASE kind = "import"
      BY <1>3, <3>1 DEF Stages
    <3>2. CASE kind = "upload"
      BY <1>3, <3>2 DEF Stages, OpeningAt
    <3>3. CASE kind = "export"
      BY <1>3, <3>3 DEF Stages, OpeningAt
    <3> QED BY <3>1, <3>2, <3>3 DEF Kinds
  <2>2. kind = "import" => folder # q /\ client'[folder] = client[folder]
    BY <1>1, <1>2 DEF Is
  <2> QED BY <1>3, <1>7, <2>1, <2>2 DEF RequestOK, Is
<1>11. \A p \in Clients : RequestOK(p)'
  BY <1>1, <1>2, <1>10, IdleFacts, RequestsOfOthers
<1>12. OwnFiles(q)'
  <2>1. HomesStay(q)' /\ FolderIsOwn(q)' /\ InnerIsOwn(q)' /\ ZipIsWhole(q)'
    BY <1>1, <1>3, <1>7 DEF HomesStay, FolderIsOwn, InnerIsOwn, ZipIsWhole, Exists
  <2>2. BrokenForACause(q)' /\ GoneForACause(q)'
    BY <1>7 DEF BrokenForACause, GoneForACause
  <2>3. UploadFolderOK(q)'
    <3>1. kind = "upload" => ~Exists(FolderOf(q))'
      BY <1>1, <1>7, NewUploadHasNoFolder DEF FolderOf, Exists
    <3> QED BY <1>3, <1>7, <3>1 DEF UploadFolderOK
  <2> QED BY <2>1, <2>2, <2>3 DEF OwnFiles
<1>13. \A d \in Clients : q \in ImportsOf(d)' => AccountsFor(q)' /\ FolderOf(q)' = FolderOf(d)
  <2> SUFFICES ASSUME NEW d \in Clients, q \in ImportsOf(d)'
               PROVE  AccountsFor(q)' /\ FolderOf(q)' = FolderOf(d)
    OBVIOUS
  <2>1. kind = "import" /\ folder = d
    BY <1>7 DEF ImportsOf
  <2>2. client[d].folder = d
    BY <1>1, <2>1, IdleFacts DEF FilesState, RequestOK, Is
  <2> QED BY <1>3, <1>7, <2>1, <2>2 DEF AccountsFor, RunningAt, FolderOf
<1> QED BY <1>1, <1>2, <1>3, <1>6, <1>7, <1>8, <1>9, <1>11, <1>12, <1>13, StartStep

(* The state of a request that has not begun.                              *)
LEMMA NewNames ==
  /\ Waiting.user \in Users /\ Waiting.folder \in LayerIds /\ Waiting.name \in FileNames
  /\ Waiting \in ClientState
  /\ Waiting.pc = "idle" /\ Waiting.kind = "upload" /\ Waiting.why = "" /\ Waiting.listed = {}
  /\ Waiting.victim = {}
<1>1. /\ (CHOOSE u \in Users : TRUE) \in Users /\ (CHOOSE x \in LayerIds : TRUE) \in LayerIds
      /\ (CHOOSE n \in FileNames : TRUE) \in FileNames
  BY FilesAssumption
<1> QED BY <1>1 DEF Waiting, ClientState, Kinds

(* file_upload begins.                                                     *)
LEMMA UploadKeeps == ASSUME FilesIInv, NEW q \in Clients, upload_file(q) PROVE FilesIInv'
<1>1. PICK u \in Users : Begin(q, "upload", u, q, Waiting.name)
  BY DEF upload_file
<1>2. "upload" \in Kinds /\ q \in FolderIds /\ Waiting.name \in FileNames
  BY NewNames DEF Kinds, FolderIds
<1> QED BY <1>1, <1>2, BeginKeeps

(* export_layer begins.                                                    *)
LEMMA ExportKeeps == ASSUME FilesIInv, NEW q \in Clients, export_layer(q) PROVE FilesIInv'
<1>1. PICK u \in Users, x \in LayerIds, n \in FileNames : Begin(q, "export", u, x, n)
  BY DEF export_layer
<1>2. "export" \in Kinds /\ x \in FolderIds
  BY DEF Kinds, FolderIds
<1> QED BY <1>1, <1>2, BeginKeeps

(* An import begins, or is a 404 as its upload is gone for a cause.        *)
LEMMA ImportKeeps == ASSUME FilesIInv, NEW q \in Clients, create_layer_from_dataset(q) PROVE FilesIInv'
<1>1. PICK d \in Clients :
        /\ Is(d, {"upload"}, "done")
        /\ IF Exists(Append(FolderOf(d), "metadata"))
           THEN Begin(q, "import", client[d].user, d, Waiting.name)
           ELSE /\ client[q].pc = "idle"
                /\ client' = [client EXCEPT ![q].kind = "import", ![q].user = client[d].user,
                                ![q].folder = d, ![q].pc = "failed", ![q].why = "gone"]
                /\ UNCHANGED <<disk, aged, met, unsettled, waited>>
  BY DEF create_layer_from_dataset
<1>2. Append(FolderOf(d), "metadata") = Within(d, "metadata")
  BY PathFacts
<1>3. FilesState /\ RequestOK(d) /\ OwnFiles(d) /\ client[d].user \in Users /\ d \in FolderIds
  BY Facts, RequestFacts DEF FolderIds
<1>4. CASE Exists(Within(d, "metadata"))
  <2>1. "import" \in Kinds /\ Waiting.name \in FileNames
    BY NewNames DEF Kinds
  <2>2. Begin(q, "import", client[d].user, d, Waiting.name)
    BY <1>1, <1>2, <1>4
  <2> QED BY <1>1, <1>3, <2>1, <2>2, BeginKeeps
<1>5. CASE ~Exists(Within(d, "metadata"))
  <2>1. /\ client[q].pc = "idle"
        /\ client' = [client EXCEPT ![q].kind = "import", ![q].user = client[d].user,
                        ![q].folder = d, ![q].pc = "failed", ![q].why = "gone"]
        /\ UNCHANGED <<disk, aged, met, unsettled, waited>>
    BY <1>1, <1>2, <1>5
  <2>2. /\ client'[q] = [client[q] EXCEPT !.kind = "import", !.user = client[d].user,
                            !.folder = d, !.pc = "failed", !.why = "gone"]
        /\ \A p \in Clients : p # q => client'[p] = client[p]
        /\ client' = [client EXCEPT ![q] = client'[q]]
    BY <1>3, <2>1 DEF FilesState
  <2>3. client[q] \in ClientState /\ client \in [Clients -> ClientState]
    BY <1>3 DEF FilesState
  <2>4. client'[q] \in ClientState
    BY <1>3, <2>2, <2>3 DEF ClientState, Kinds
  <2>5. client' \in [Clients -> ClientState]
    BY <2>2, <2>3, <2>4
  <2>6. client[q].listed = {} /\ client[q].victim = {} /\ d # q /\ client[d].folder = d
    BY <1>1, <1>3, <2>1, IdleFacts DEF Is, RequestOK
  <2>7. /\ client'[q].kind = "import" /\ client'[q].user = client[d].user /\ client'[q].folder = d
        /\ client'[q].pc = "failed" /\ client'[q].why = "gone"
        /\ client'[q].listed = {} /\ client'[q].victim = {}
    BY <2>2, <2>3, <2>6 DEF ClientState
  <2>8. RequestOK(q)'
    <3>1. "failed" \in Stages["import"]
      BY DEF Stages
    <3> QED BY <1>1, <2>2, <2>6, <2>7, <3>1 DEF RequestOK, Is
  <2>9. \A p \in Clients : RequestOK(p)'
    BY <1>3, <2>1, <2>2, <2>8, RequestsOfOthers
  <2>10. MeetingsOK' /\ \A r \in Clients : met[r] \subseteq met'[r]
    <3>1. \A r \in Clients : (Begun(r) => Begun(r)') /\ (r \in Running' => r \in Running)
      BY <2>1, <2>2, <2>7 DEF Begun, Running, RunningAt
    <3>2. Running' \subseteq Running
      BY <3>1 DEF Running
    <3> QED BY <1>3, <2>1, <3>1, <3>2 DEF FilesState, MeetingsOK
  <2>11. HomesStay(q)' /\ FolderIsOwn(q)' /\ InnerIsOwn(q)' /\ ZipIsWhole(q)'
    BY <2>7 DEF HomesStay, FolderIsOwn, InnerIsOwn, ZipIsWhole
  <2>12. GoneForACause(q)'
    <3>1. \/ d \in waited \/ d \in unsettled
          \/ \E r \in Clients \ {q} : client[r].kind = "import" /\ client[r].folder = d
      BY <1>1, <1>5, <2>1, UploadIsThere
    <3>2. \A r \in Clients : r # q /\ client[r].kind = "import" /\ client[r].folder = d => SameFolder(q, r)'
      <4>1. \A r \in Clients : client[r].kind = "import" /\ client[r].folder = d
                                => client[r].user = client[d].user
        BY <1>3 DEF FilesState, RequestOK
      <4> QED BY <2>2, <2>7, <4>1 DEF SameFolder, FolderOf
    <3>3. LostForACause(d, q)'
      BY <2>1, <3>1, <3>2 DEF LostForACause
    <3> QED BY <2>7, <3>3 DEF GoneForACause
  <2>13. OwnFiles(q)'
    BY <2>7, <2>11, <2>12 DEF OwnFiles, UploadFolderOK, BrokenForACause
  <2>14. \A e \in Clients : q \in ImportsOf(e)' => ~Exists(FolderOf(e))'
    <3>1. \A e \in Clients : q \in ImportsOf(e)' => e = d
      BY <2>7 DEF ImportsOf
    <3>2. ~Exists(FolderOf(d))
      BY <1>1, <1>3, <1>5 DEF OwnFiles, UploadFolderOK, Is, Begun
    <3>3. FolderOf(d)' = FolderOf(d)
      BY <2>2, <2>6 DEF FolderOf
    <3> QED BY <2>1, <3>1, <3>2, <3>3 DEF Exists
  <2> QED BY <2>1, <2>2, <2>5, <2>7, <2>9, <2>10, <2>13, <2>14, StartStep
<1> QED BY <1>4, <1>5

-----------------------------------------------------------------------------
(* Time passes, the server stops.                                          *)
LEMMA AgeKeeps == ASSUME FilesIInv, NEW u \in Users, Age(u) PROVE FilesIInv'
<1>1. /\ FilesState /\ Exists(<<u>>) /\ aged' = aged \cup {u}
      /\ waited' = waited \cup {q \in Clients : client[q].pc # "idle" /\ client[q].user = u}
      /\ UNCHANGED <<disk, client, met, unsettled>>
  BY DEF Age, FilesIInv
<1>2. Frame /\ SameDisk /\ DiskOK'
  BY <1>1 DEF Frame, SameDisk, SameRequest, Begun, FilesState, MeetingsOK, DiskOK, Exists
<1>3. MeetingsOK' /\ (aged \subseteq {v \in Users : Exists(<<v>>)})'
  BY <1>1 DEF FilesState, MeetingsOK, Begun, Running, Exists
<1>4. \A p \in Clients : RequestOK(p)'
  <2> TAKE p \in Clients
  <2>1. RequestOK(p) /\ client' = client
    BY <1>1, Facts
  <2> QED BY <2>1 DEF RequestOK, Is
<1>5. \A p \in Clients : OwnFiles(p)'
  BY <1>1, <1>2, <1>4, OwnQuiet, IdleOwn DEF Begun
<1>6. FoldersHaveACause'
  BY <1>1 DEF FilesIInv, FoldersHaveACause, Exists, FolderOf, AccountsFor, Is, ImportsOf
<1>7. \A d \in Clients : AgedAfter(d)'
  <2> TAKE d \in Clients
  <2>1. client[d].pc # "idle" /\ client[d].user = u => d \in waited'
    BY <1>1
  <2> QED BY <1>1, <2>1, Facts DEF AgedAfter
<1>8. \A d \in Clients : UploadWaits(d)'
  <2> TAKE d \in Clients
  <2>1. Is(d, {"upload"}, "done")' => Is(d, {"upload"}, "done")
    BY <1>1 DEF Is
  <2>2. Exists(FolderOf(d)) => Exists(FolderOf(d))'
    BY <1>1 DEF Exists, FolderOf
  <2> QED BY <1>1, <1>2, <2>1, <2>2, Facts, WaitsKept
<1>9. client' \in [Clients -> ClientState]
  BY <1>1 DEF FilesState
<1> QED BY <1>2, <1>3, <1>4, <1>5, <1>6, <1>7, <1>8, <1>9 DEF FilesIInv, FilesState, OwnFiles

(* The server stops in the middle of every request.                        *)
LEMMA CrashKeeps == ASSUME FilesIInv, Crash PROVE FilesIInv'
<1>1. /\ FilesState /\ UNCHANGED <<disk, aged, met, unsettled, waited>>
      /\ client' = [q \in Clients |-> IF q \in Running
                       THEN [client[q] EXCEPT !.pc = "failed", !.why = "crash", !.listed = {}, !.victim = {}]
                       ELSE client[q]]
  BY DEF Crash, FilesIInv
<1>2. client' \in [Clients -> ClientState]
  <2>1. client \in [Clients -> ClientState]
    BY <1>1 DEF FilesState
  <2>2. \A q \in Clients : [client[q] EXCEPT !.pc = "failed", !.why = "crash", !.listed = {},
                                             !.victim = {}] \in ClientState
    <3> TAKE q \in Clients
    <3>1. client[q] \in ClientState
      BY <2>1
    <3> QED BY <3>1 DEF ClientState
  <2> QED BY <1>1, <2>1, <2>2
<1>3. \A q \in Clients :
        /\ SameRequest(q) /\ client'[q].answer = client[q].answer
        /\ q \notin Running => client'[q] = client[q]
        /\ q \in Running => /\ client'[q].pc = "failed" /\ client'[q].why = "crash"
                            /\ client'[q].listed = {} /\ client'[q].victim = {}
  <2> TAKE q \in Clients
  <2>1. client[q] \in ClientState
    BY <1>1 DEF FilesState
  <2>2. CASE q \in Running
    <3>1. client'[q] = [client[q] EXCEPT !.pc = "failed", !.why = "crash", !.listed = {}, !.victim = {}]
      BY <1>1, <2>2
    <3> QED BY <2>1, <2>2, <3>1 DEF ClientState, SameRequest
  <2>3. CASE q \notin Running
    <3>1. client'[q] = client[q]
      BY <1>1, <2>3
    <3> QED BY <2>3, <3>1 DEF SameRequest
  <2> QED BY <2>2, <2>3
<1>4. Frame /\ SameDisk /\ DiskOK'
  <2>1. \A q \in Clients : Begun(q) => client'[q].pc # "idle"
    BY <1>3 DEF Begun
  <2> QED BY <1>1, <1>2, <1>3, <2>1 DEF Frame, SameDisk, FilesState, MeetingsOK, DiskOK, Exists
<1>5. Running' = {}
  BY <1>3 DEF Running, RunningAt
<1>6. MeetingsOK' /\ (aged \subseteq {v \in Users : Exists(<<v>>)})'
  <2>1. \A q \in Clients : Begun(q) => Begun(q)'
    BY <1>3 DEF Begun
  <2> QED BY <1>1, <1>5, <2>1 DEF FilesState, MeetingsOK, Exists
<1>7. \A p \in Clients : RequestOK(p)'
  <2> TAKE p \in Clients
  <2>1. RequestOK(p) /\ client[p].kind \in {"upload", "import", "export"}
    BY <1>1, RequestFacts, StageFacts
  <2>2. client[p].kind = "import" =>
          /\ client[p].folder \in Clients /\ client'[client[p].folder] = client[client[p].folder]
    BY <1>3, <2>1 DEF RequestOK, Is, Running, RunningAt
  <2>3. "failed" \in Stages[client[p].kind]
    <3>1. "failed" \in Stages["upload"] /\ "failed" \in Stages["import"] /\ "failed" \in Stages["export"]
      BY DEF Stages
    <3> QED BY <2>1, <3>1
  <2>4. CASE p \in Running
    <3>1. client[p].pc # "idle"
      BY <2>4 DEF Running, RunningAt
    <3>2. /\ client'[p].pc = "failed" /\ client'[p].why = "crash" /\ client'[p].listed = {}
          /\ client'[p].victim = {} /\ SameRequest(p)
      BY <1>3, <2>4
    <3>3. RequestOK(p)
      BY <2>1
    <3>4. client'[p].kind = "import" =>
            /\ client'[p].folder \in Clients /\ Is(client[p].folder, {"upload"}, "done")'
            /\ client'[client'[p].folder].user = client'[p].user
      BY <2>2, <3>2, <3>3 DEF RequestOK, Is, SameRequest
    <3>5. client'[p].folder = client[p].folder
      BY <3>2 DEF SameRequest
    <3> QED BY <2>3, <3>1, <3>2, <3>3, <3>4, <3>5 DEF RequestOK, SameRequest
  <2>5. CASE p \notin Running
    <3>1. client'[p] = client[p]
      BY <1>3, <2>5
    <3>2. RequestOK(p)
      BY <2>1
    <3>3. client'[p].kind = "import" =>
            /\ client'[p].folder \in Clients /\ Is(client[p].folder, {"upload"}, "done")'
            /\ client'[client'[p].folder].user = client'[p].user
      BY <2>2, <3>1, <3>2 DEF RequestOK, Is
    <3> QED BY <3>1, <3>2, <3>3 DEF RequestOK
  <2> QED BY <2>4, <2>5
<1>8. \A p \in Clients : OwnFiles(p)'
  <2> TAKE p \in Clients
  <2>1. CASE p \in Running
    BY <1>3, <2>1 DEF OwnFiles, HomesStay, FolderIsOwn, InnerIsOwn, ZipIsWhole, BrokenForACause,
       UploadFolderOK, GoneForACause, OpeningAt
  <2>2. CASE p \notin Running
    BY <1>3, <1>4, <1>7, <2>2, OwnQuiet, IdleOwn DEF Begun
  <2> QED BY <2>1, <2>2
<1>9. FoldersHaveACause'
  <2> SUFFICES ASSUME NEW u \in Users, NEW x \in FolderIds, Exists(<<u, x>>)'
               PROVE  \E r \in Clients : FolderOf(r)' = <<u, x>> /\ AccountsFor(r)'
    BY DEF FoldersHaveACause
  <2>1. PICK r \in Clients : FolderOf(r) = <<u, x>> /\ AccountsFor(r)
    BY <1>1 DEF FilesIInv, FoldersHaveACause, Exists
  <2>2. FolderOf(r)' = FolderOf(r) /\ ImportsOf(r)' = ImportsOf(r)
    BY <1>3 DEF FolderOf, ImportsOf, SameRequest
  <2>3. AccountsFor(r)'
    BY <1>3, <2>1, <2>2 DEF AccountsFor, Is
  <2> QED BY <2>1, <2>2, <2>3
<1>10. \A d \in Clients : AgedAfter(d)'
  <2> TAKE d \in Clients
  <2>1. /\ client'[d].kind = "upload" /\ client'[d].pc \in {"write", "validate", "done"} =>
              client[d].kind = "upload" /\ client[d].pc \in {"write", "validate", "done"}
        /\ \A e \in Clients : \A v \in client'[e].victim : v \in client[e].victim \/ v \in aged
    BY <1>3
  <2> QED BY <1>1, <1>4, <2>1, Facts, AgedKept
<1>11. \A d \in Clients : UploadWaits(d)'
  <2> TAKE d \in Clients
  <2>1. /\ Is(d, {"upload"}, "done")' => Is(d, {"upload"}, "done")
        /\ \A i \in ImportsOf(d) : client'[i].pc \in {"read", "drop"} => client[i].pc \in {"read", "drop"}
        /\ FolderOf(d)' = FolderOf(d)
    BY <1>3 DEF Is, ImportsOf, FolderOf, SameRequest
  <2>2. Exists(FolderOf(d)) => Exists(FolderOf(d))'
    BY <1>1, <2>1 DEF Exists
  <2> QED BY <1>1, <1>4, <2>1, <2>2, Facts, WaitsKept
<1> QED BY <1>2, <1>4, <1>6, <1>7, <1>8, <1>9, <1>10, <1>11 DEF FilesIInv, FilesState, OwnFiles

-----------------------------------------------------------------------------
(* Nothing has been asked for yet.                                         *)
LEMMA FilesInitInv == FilesInit => FilesIInv
<1> SUFFICES ASSUME FilesInit PROVE FilesIInv
  OBVIOUS
<1>1. /\ DOMAIN disk = {} /\ aged = {} /\ unsettled = {} /\ waited = {}
      /\ client = [q \in Clients |-> Waiting] /\ met = [q \in Clients |-> {}]
  BY DEF FilesInit
<1>2. \A q \in Clients :
        /\ client[q].pc = "idle" /\ client[q].kind = "upload" /\ client[q].why = ""
        /\ client[q].listed = {} /\ client[q].victim = {}
  BY <1>1, NewNames
<1>3. client \in [Clients -> ClientState]
  BY <1>1, NewNames
<1>4. DiskOK
  BY <1>1 DEF DiskOK, Exists
<1>5. MeetingsOK
  <2>1. Running = {}
    BY <1>2 DEF Running, RunningAt
  <2>2. met \in [Clients -> SUBSET Clients] /\ \A q \in Clients : met[q] = {}
    BY <1>1
  <2> QED BY <1>1, <2>1, <2>2 DEF MeetingsOK
<1>6. \A q \in Clients : RequestOK(q)
  <2>1. "idle" \in Stages["upload"]
    BY DEF Stages
  <2> QED BY <1>2, <2>1 DEF RequestOK
<1>7. FilesState
  BY <1>1, <1>3, <1>4, <1>5, <1>6 DEF FilesState
<1>8. FoldersHaveACause
  BY <1>1 DEF FoldersHaveACause, Exists
<1>9. \A q \in Clients : HomesStay(q) /\ FolderIsOwn(q) /\ InnerIsOwn(q) /\ ZipIsWhole(q)
                           /\ BrokenForACause(q)
  BY <1>2 DEF HomesStay, FolderIsOwn, InnerIsOwn, ZipIsWhole, BrokenForACause
<1>10. \A q \in Clients : UploadFolderOK(q) /\ AgedAfter(q) /\ UploadWaits(q) /\ GoneForACause(q)
  BY <1>2 DEF UploadFolderOK, AgedAfter, UploadWaits, GoneForACause, Begun, Is
<1> QED BY <1>7, <1>8, <1>9, <1>10 DEF FilesIInv

(* Nothing happens.                                                        *)
LEMMA StutterKeeps == ASSUME FilesIInv, UNCHANGED filesVars PROVE FilesIInv'
<1>1. /\ disk' = disk /\ aged' = aged /\ client' = client /\ met' = met
      /\ unsettled' = unsettled /\ waited' = waited
  BY DEF filesVars
<1>2. FilesState /\ Frame /\ SameDisk
  BY <1>1 DEF FilesIInv, FilesState, MeetingsOK, Frame, SameRequest, SameDisk, Begun
<1>3. \A q \in Clients : RequestOK(q)'
  <2> TAKE q \in Clients
  <2>1. RequestOK(q)
    BY Facts
  <2> QED BY <1>1, <2>1 DEF RequestOK, Is
<1>4. \A q \in Clients : OwnFiles(q)'
  BY <1>1, <1>2, <1>3, OwnQuiet, IdleOwn DEF Begun
<1>5. FilesState'
  BY <1>1, <1>2, <1>3 DEF FilesState, DiskOK, MeetingsOK, Running, Begun, Exists
<1>6. FoldersHaveACause'
  BY <1>1 DEF FilesIInv, FoldersHaveACause, Exists, FolderOf, AccountsFor, Is, ImportsOf
<1>7. \A d \in Clients : AgedAfter(d)' /\ UploadWaits(d)'
  <2> TAKE d \in Clients
  <2>1. AgedAfter(d) /\ UploadWaits(d)
    BY Facts
  <2>2. AgedAfter(d)'
    BY <1>1, <2>1 DEF AgedAfter
  <2>3. (Is(d, {"upload"}, "done")' => Is(d, {"upload"}, "done"))
          /\ (Exists(FolderOf(d)) => Exists(FolderOf(d))')
    BY <1>1 DEF Is, Exists, FolderOf
  <2> QED BY <1>1, <1>2, <2>1, <2>2, <2>3, WaitsKept
<1> QED BY <1>4, <1>5, <1>6, <1>7 DEF FilesIInv, OwnFiles

(* Every step keeps the invariant.                                         *)
LEMMA FilesNextInv == FilesIInv /\ [FilesNext]_filesVars => FilesIInv'
<1> SUFFICES ASSUME FilesIInv, [FilesNext]_filesVars PROVE FilesIInv'
  OBVIOUS
<1>1. ASSUME NEW q \in Clients, FileStep(q) PROVE FilesIInv'
  <2>1. CASE upload_file(q) \/ create_layer_from_dataset(q) \/ export_layer(q)
    BY <2>1, UploadKeeps, ImportKeeps, ExportKeeps
  <2>2. CASE Look(q) \/ Expel(q) \/ ClearFolder(q) \/ FindHome(q) \/ MakeHome(q) \/ MakeFolder(q)
    BY <2>2, LookKeeps, ExpelKeeps, ClearFolderKeeps, FindHomeKeeps, MakeHomeKeeps, MakeFolderKeeps
  <2>3. CASE fetch_and_write(q) \/ TimeOutOfSave(q) \/ validate(q)
    BY <2>3, FetchKeeps, TimeOutKeeps, ValidateKeeps
  <2>4. CASE upload_ogr2ogr(q) \/ DropUpload(q) \/ CleanUp(q)
    BY <2>4, ReadKeeps, DropKeeps, CleanUpKeeps
  <2>5. CASE MakeInner(q) \/ export_ogr2ogr(q) \/ create_metadata_file(q) \/ ZipFolder(q)
    BY <2>5, MakeInnerKeeps, ExportOgrKeeps, MetadataKeeps, ZipFolderKeeps
  <2>6. CASE RemoveFolder(q) \/ SendZip(q)
    BY <2>6, RemoveFolderKeeps, SendZipKeeps
  <2> QED BY <1>1, <2>1, <2>2, <2>3, <2>4, <2>5, <2>6 DEF FileStep
<1>2. CASE \E u \in Users : Age(u)
  BY <1>2, AgeKeeps
<1>3. CASE Crash
  BY <1>3, CrashKeeps
<1>4. CASE UNCHANGED filesVars
  BY <1>4, StutterKeeps
<1> QED BY <1>1, <1>2, <1>3, <1>4 DEF FilesNext

(* The invariant all the theorems rest on.                                 *)
THEOREM FilesInvariance == FilesSpec => []FilesIInv
<1>1. FilesInit => FilesIInv
  BY FilesInitInv
<1>2. FilesIInv /\ [FilesNext]_filesVars => FilesIInv'
  BY FilesNextInv
<1> QED BY <1>1, <1>2, PTL DEF FilesSpec

(* DATA_DIR is well formed whatever uploads, exports and sweeps do at the  *)
(* same time: every file is in a folder that exists, every folder in the   *)
(* home of its user, and only homes that exist grow old.                   *)
THEOREM FilesAreTyped == FilesSpec => []FilesTypeOK
<1>1. FilesIInv => FilesTypeOK
  <2> SUFFICES ASSUME FilesIInv PROVE FilesTypeOK
    OBVIOUS
  <2>1. DiskOK /\ client \in [Clients -> ClientState] /\ aged \subseteq {u \in Users : Exists(<<u>>)}
    BY DEF FilesIInv, FilesState
  <2>2. ASSUME NEW path \in DOMAIN disk, Len(path) > 1 PROVE Exists(Front(path))
    <3>1. CASE \E u \in Users : path = <<u>>
      BY <2>2, <3>1
    <3>2. CASE \E u \in Users, x \in FolderIds \cup FileNames : path = <<u, x>>
      <4>1. PICK u \in Users, x \in FolderIds \cup FileNames : path = <<u, x>>
        BY <3>2
      <4>2. Front(<<u, x>>) = <<u>>
        BY Parents
      <4> QED BY <2>1, <4>1, <4>2 DEF DiskOK, Exists
    <3>3. CASE \E u \in Users, x \in LayerIds, n \in FileNames : path = <<u, x, n>>
      <4>1. PICK u \in Users, x \in LayerIds, n \in FileNames : path = <<u, x, n>>
        BY <3>3
      <4>2. Front(<<u, x, n>>) = <<u, x>>
        BY Parents
      <4> QED BY <2>1, <4>1, <4>2 DEF DiskOK, Exists
    <3>4. CASE \E u \in Users, d \in Clients, f \in {"file", "metadata"} : path = <<u, d, f>>
      <4>1. PICK u \in Users, d \in Clients, f \in {"file", "metadata"} : path = <<u, d, f>>
        BY <3>4
      <4>2. Front(<<u, d, f>>) = <<u, d>>
        BY Parents
      <4> QED BY <2>1, <4>1, <4>2 DEF DiskOK, Exists
    <3>5. CASE \E u \in Users, x \in LayerIds, n \in FileNames, f \in {"data", "metadata"} :
                 path = <<u, x, n, f>>
      <4>1. PICK u \in Users, x \in LayerIds, n \in FileNames, f \in {"data", "metadata"} :
               path = <<u, x, n, f>>
        BY <3>5
      <4>2. Front(<<u, x, n, f>>) = <<u, x, n>>
        BY Parents
      <4>3. Exists(<<u, x, n, f>>)
        BY <2>2, <4>1 DEF Exists
      <4>4. Exists(<<u, x, n>>)
        BY <2>1, <4>3 DEF DiskOK
      <4> QED BY <4>1, <4>2, <4>4
    <3> QED BY <2>1, <3>1, <3>2, <3>3, <3>4, <3>5 DEF DiskOK, Paths
  <2> QED BY <2>1, <2>2 DEF FilesTypeOK
<1> QED BY <1>1, FilesInvariance, PTL

(* save_file, export_file: an upload or export breaks only if a sweep or   *)
(* another request took or made the home it relies on, or if another one   *)
(* exports the same layer at the same time.                                *)
THEOREM LoneRequestsSucceed == FilesSpec => []LoneRequestsAreServed
<1>1. FilesIInv => LoneRequestsAreServed
  <2> SUFFICES ASSUME FilesIInv, NEW q \in Clients, Broken(q), client[q].kind # "import"
               PROVE  \/ q \in unsettled
                      \/ client[q].kind = "export" /\ \E r \in met[q] : SameFolder(q, r)
    BY DEF LoneRequestsAreServed
  <2>1. FilesState /\ RequestOK(q) /\ client[q].kind \in {"upload", "export"} /\ Begun(q)
    BY Facts, StageFacts DEF Broken, Begun
  <2>2. ~Undisturbed(q)
    BY DEF FilesIInv, BrokenForACause, Broken
  <2>3. client[q].kind = "upload" => ~\E r \in met[q] : SameFolder(q, r)
    <3> SUFFICES ASSUME client[q].kind = "upload", NEW r \in met[q], SameFolder(q, r) PROVE FALSE
      OBVIOUS
    <3>1. r \in Clients /\ Begun(r) /\ r # q
      BY <2>1 DEF FilesState, MeetingsOK
    <3>2. client[r].kind = "upload" /\ client[r].folder = client[q].folder
      BY DEF SameFolder, FolderOf
    <3>3. RequestOK(r)
      BY <3>1, Facts
    <3> QED BY <2>1, <3>1, <3>2, <3>3 DEF RequestOK, Begun
  <2> QED BY <2>1, <2>2, <2>3 DEF Undisturbed
<1> QED BY <1>1, FilesInvariance, PTL

(* export_file: the zip a user gets holds the data and the metadata of one *)
(* request, whole, unless requests of the same layer meet or a sweep takes *)
(* the home.                                                               *)
THEOREM ExportsAreWhole == FilesSpec => []ExportHoldsItsLayer
<1>1. FilesIInv => ExportHoldsItsLayer
  <2> SUFFICES ASSUME FilesIInv, NEW q \in Clients, client[q].kind = "export", client[q].pc = "done",
                      \A r \in Candidates(q) : Undisturbed(r)
               PROVE  \E r \in Candidates(q) : client[q].answer = BothParts(r)
    BY DEF ExportHoldsItsLayer, Candidates, Undisturbed, BothParts
  <2> QED BY DEF FilesIInv, ZipIsWhole
<1> QED BY <1>1, FilesInvariance, PTL

(* delete_old_files, upload_ogr2ogr, export_file: an upload that was       *)
(* answered is there for its import, and no folder stays, but for a cause. *)
THEOREM FoldersAreKept == FilesSpec => []FoldersLastAsNeeded
<1>1. FilesIInv => FoldersLastAsNeeded
  <2> SUFFICES ASSUME FilesIInv PROVE FoldersLastAsNeeded
    OBVIOUS
  <2>1. ASSUME NEW q \in Clients, client[q].kind = "import", client[q].why = "gone" \/ Broken(q)
        PROVE  LostForACause(client[q].folder, q)
    BY <2>1 DEF FilesIInv, GoneForACause, Broken
  <2>2. ASSUME NEW q \in Clients, Exists(FolderOf(q)) PROVE LeftForACause(FolderOf(q))
    <3>1. PICK r \in Clients : FolderOf(r) = FolderOf(q) /\ AccountsFor(r)
      <4>1. client[q].user \in Users /\ client[q].folder \in FolderIds
        BY Facts, RequestFacts
      <4> QED BY <2>2, <4>1 DEF FilesIInv, FoldersHaveACause, FolderOf
    <3>2. client[r].pc \in RunningAt => r \in Running
      BY DEF Running
    <3> QED BY <3>1, <3>2 DEF LeftForACause, AccountsFor, Is, ImportsOf
  <2> QED BY <2>1, <2>2 DEF FoldersLastAsNeeded
<1> QED BY <1>1, FilesInvariance, PTL

-----------------------------------------------------------------------------
HasRowsOf(j, layer) == \E i \in 1..MaxPoints : <<j, layer, i>> \in stored

Asking == {"ask", "write", "measure", "create", "link", "next"}

Making == {"measure", "create", "link", "next"}

(* An area was measured, so it has an extent. *)
Measured(j) ==
  job[j].pc \in {"create", "link", "next"} \/ (job[j].pc = "measure" /\ job[j].layer = "points")

(* Every starting point of the request is stored, and no other. *)
PointsStored(j) ==
  \A i \in 1..MaxPoints : <<j, "points", i>> \in stored <=> i <= job[j].kind.points

(* PT areas of several points make their layer twice, grids are not saved. *)
Simple(j) ==
  job[j].kind.mode = "routing" \/ (job[j].kind.points <= 1 /\ job[j].kind.type = "polygon")

Control(j) ==
  /\ job[j].pc \in {"check", "save"} \/ job[j].layer = "points" => WantsPoints(j)
  /\ job[j].pc \in {"idle", "check", "save", "read"} => job[j].layer = "area"
  /\ job[j].pc = "ask" /\ job[j].kind.mode = "routing" => job[j].layer = "area"
  /\ job[j].pc = "write" => job[j].kind.mode = "pt"
  /\ job[j].pc \in Asking /\ job[j].kind.mode = "pt" => job[j].left >= 1

(* Unless a sweep took rows of the job, they are there when it needs them. *)
HasRows(j) ==
  "swept" \notin cause[j] =>
    /\ WantsPoints(j) => IF job[j].pc \in {"idle", "check", "save"}
                         THEN \A i \in 1..MaxPoints : <<j, "points", i>> \notin stored
                         ELSE job[j].pc \in Asking \cup {"read", "done"} => PointsStored(j)
    /\ service[j] = "written" => HasRowsOf(j, "area") \/ "nowhere" \in cause[j]
    /\ job[j].kind.mode = "routing" /\ job[j].pc \in Making \cup {"done"} => service[j] = "written"
    /\ job[j].pc = "measure" /\ Simple(j) => HasRowsOf(j, "area") \/ "nowhere" \in cause[j]
    /\ Measured(j) => HasRowsOf(j, "area")
    /\ job[j].pc = "done" /\ job[j].kind.points > 0 => HasRowsOf(j, "area")

(* A layer is made once. *)
MadeOnce(j) ==
  /\ <<j, "points">> \in layers => WantsPoints(j)
  /\ job[j].pc \in {"idle", "check", "save", "read"} => <<j, "area">> \notin layers
  /\ job[j].pc = "link" => <<j, job[j].layer>> \in layers
  /\ Simple(j) /\ "swept" \notin cause[j] =>
       /\ job[j].pc \in {"ask", "write", "measure", "create"} => <<j, job[j].layer>> \notin layers
       /\ <<j, "points">> \in layers => job[j].layer = "points"
       /\ job[j].pc \in {"ask", "write"} => job[j].layer = "area"
       /\ job[j].kind.mode = "pt" /\ job[j].pc \in Asking => job[j].left = 1

(* The layers of a job are in the project when it says so. *)
InProject(j) ==
  "project" \notin cause[j] =>
    /\ job[j].pc = "next" => <<j, job[j].layer>> \in linked
    /\ job[j].pc \in Making \cup {"done"} /\ job[j].layer = "points" => <<j, "area">> \in linked
    /\ job[j].pc = "done" /\ job[j].kind.points > 0 /\ "swept" \notin cause[j] =>
         /\ <<j, "area">> \in linked
         /\ WantsPoints(j) => <<j, "points">> \in linked

HasCause(j) == job[j].pc = "clean" /\ cause[j] = {} => ~Simple(j)

ProjectTold == ~projectThere => \A j \in Runs : "project" \in cause[j]

Stage(j) == Control(j) /\ HasRows(j) /\ MadeOnce(j) /\ InProject(j) /\ HasCause(j)

CatchmentIInv == CatchmentTypeOK /\ ProjectTold /\ \A j \in Runs : Stage(j)

-----------------------------------------------------------------------------
(* Rows of a job and a layer, counted. *)
LEMMA OwnRows ==
  ASSUME CatchmentTypeOK, NEW j \in Runs, NEW layer \in Layer
  PROVE  HasExtent(j, layer) <=> HasRowsOf(j, layer)
<1>1. stored \subseteq StoredRow
  BY DEF CatchmentTypeOK
<1>2. ASSUME NEW r \in Own(j, layer), r[3] # 0 PROVE HasRowsOf(j, layer)
  <2>1. r \in stored /\ r[1] = j /\ r[2] = layer
    BY DEF Own
  <2>2. r[3] \in 1..MaxPoints /\ r = <<j, layer, r[3]>>
    BY <1>1, <1>2, <2>1 DEF StoredRow
  <2> QED BY <2>1, <2>2 DEF HasRowsOf
<1>3. ASSUME NEW i \in 1..MaxPoints, <<j, layer, i>> \in stored PROVE HasExtent(j, layer)
  <2>1. <<j, layer, i>> \in Own(j, layer) /\ <<j, layer, i>>[3] = i /\ i # 0
    BY <1>3, CatchmentAssumption DEF Own
  <2> QED BY <2>1, Zenon DEF HasExtent
<1> QED BY <1>2, <1>3 DEF HasRowsOf, HasExtent

LEMMA OwnIsCounted ==
  ASSUME CatchmentTypeOK, NEW j \in Runs
  PROVE  /\ Cardinality(Own(j, "points")) \in 0..MaxPoints
         /\ PointsStored(j) => Cardinality(Own(j, "points")) = job[j].kind.points
<1> USE CatchmentAssumption
<1>1. stored \subseteq StoredRow
  BY DEF CatchmentTypeOK
<1> DEFINE O == Own(j, "points")
           f == [r \in O |-> r[3]]
<1>2. \A r \in O : r[3] \in 1..MaxPoints /\ r = <<j, "points", r[3]>>
  BY <1>1 DEF Own, StoredRow
<1>3. f \in Injection(O, 1..MaxPoints)
  BY <1>2 DEF Injection, IsInjective
<1>4. IsFiniteSet(1..MaxPoints) /\ Cardinality(1..MaxPoints) = MaxPoints
  BY FS_Interval
<1>5. IsFiniteSet(O) /\ Cardinality(O) <= Cardinality(1..MaxPoints)
  <2> HIDE DEF O, f
  <2> QED BY <1>3, <1>4, FS_Injection, Zenon
<1>6. Cardinality(O) \in Nat
  BY <1>5, FS_CardinalityType, Zenon
<1>7. ASSUME PointsStored(j) PROVE Cardinality(O) = job[j].kind.points
  <2> DEFINE n == job[j].kind.points
             g == [i \in 1..n |-> <<j, "points", i>>]
  <2>1. n \in 0..MaxPoints
    BY DEF CatchmentTypeOK, JobState, Kind
  <2>2. \A i \in 1..n : g[i] \in O
    BY <1>7, <2>1 DEF Own, PointsStored
  <2>3. \A r \in O : r[3] \in 1..n /\ g[r[3]] = r
    BY <1>2, <1>7, <2>1 DEF Own, PointsStored
  <2>4. g \in Bijection(1..n, O)
    BY <2>2, <2>3 DEF Bijection, Injection, Surjection, IsInjective
  <2>5. IsFiniteSet(1..n) /\ Cardinality(1..n) = n
    <3> HIDE DEF n
    <3> QED BY <2>1, FS_Interval
  <2>6. ExistsBijection(1..n, O)
    BY <2>4, Zenon DEF ExistsBijection
  <2> HIDE DEF O, n
  <2>7. Cardinality(O) = Cardinality(1..n)
    BY <2>5, <2>6, FS_Bijection, Zenon
  <2>8. Cardinality(O) = n
    BY <2>5, <2>7, Zenon
  <2> QED BY <2>8 DEF n
<1> QED BY <1>4, <1>5, <1>6, <1>7

-----------------------------------------------------------------------------
LEMMA CatchmentInitInv == ASSUME CatchmentInit PROVE CatchmentIInv
<1> USE CatchmentAssumption DEF CatchmentInit
<1>1. PICK f \in [Runs -> Kind] :
        job = [j \in Runs |-> [pc |-> "idle", kind |-> f[j], left |-> 0, tries |-> 1, layer |-> "area"]]
  <2>1. \A j \in Runs : \E k \in Kind :
          job[j] = [pc |-> "idle", kind |-> k, left |-> 0, tries |-> 1, layer |-> "area"]
    OBVIOUS
  <2> DEFINE f == [j \in Runs |-> job[j].kind]
  <2>2. \A j \in Runs : job[j].kind \in Kind
                        /\ job[j] = [pc |-> "idle", kind |-> job[j].kind, left |-> 0, tries |-> 1, layer |-> "area"]
    BY <2>1
  <2>3. job = [j \in Runs |-> job[j]]
    OBVIOUS
  <2>4. f \in [Runs -> Kind]
    BY <2>2
  <2>5. job = [j \in Runs |-> [pc |-> "idle", kind |-> f[j], left |-> 0, tries |-> 1, layer |-> "area"]]
    BY <2>2, <2>3
  <2> QED BY <2>4, <2>5
<1>2. job \in [Runs -> JobState]
  BY <1>1 DEF JobState, PCs, Layer
<1>3. CatchmentTypeOK
  BY <1>2 DEF CatchmentTypeOK
<1>4. \A j \in Runs : /\ job[j].pc = "idle" /\ job[j].layer = "area" /\ service[j] = "idle"
                      /\ <<j, "points">> \notin layers /\ <<j, "area">> \notin layers
  BY <1>1
<1>5. \A j \in Runs : Stage(j)
  BY <1>4 DEF Stage, Control, HasRows, MadeOnce, InProject, HasCause, Asking, Making, Measured
<1> QED BY <1>3, <1>5 DEF CatchmentIInv, ProjectTold

(* What a step of one job leaves of the jobs. *)
JobChanged(j, pc, left, tries, layer) ==
  /\ job'[j].pc = pc /\ job'[j].left = left /\ job'[j].tries = tries /\ job'[j].layer = layer
  /\ job'[j].kind = job[j].kind
  /\ \A k \in Runs : k # j => job'[k] = job[k]
  /\ job' \in [Runs -> JobState]

JobGoes(j, pc) == JobChanged(j, pc, job[j].left, job[j].tries, job[j].layer)

LEMMA MovesAlone ==
  ASSUME CatchmentTypeOK, NEW j \in Runs, NEW pc \in PCs, Move(j, pc)
  PROVE  JobGoes(j, pc)
BY DEF CatchmentTypeOK, JobState, Move, JobChanged, JobGoes

LEMMA JobReadOn ==
  ASSUME CatchmentTypeOK, NEW j \in Runs, NEW pc \in PCs, NEW n \in 0..MaxPoints,
         job' = [job EXCEPT ![j].left = n, ![j].pc = pc]
  PROVE  JobChanged(j, pc, n, job[j].tries, job[j].layer)
BY DEF CatchmentTypeOK, JobState, JobChanged

LEMMA Retries ==
  ASSUME CatchmentTypeOK, NEW j \in Runs, NEW n \in 1..CRUD_NUM_RETRIES,
         job' = [job EXCEPT ![j].tries = n]
  PROVE  JobChanged(j, job[j].pc, job[j].left, n, job[j].layer)
BY DEF CatchmentTypeOK, JobState, JobChanged

LEMMA Restarts ==
  ASSUME CatchmentTypeOK, NEW j \in Runs, NEW pc \in PCs, NEW n \in 1..CRUD_NUM_RETRIES,
         job' = [job EXCEPT ![j].pc = pc, ![j].tries = n]
  PROVE  JobChanged(j, pc, job[j].left, n, job[j].layer)
BY DEF CatchmentTypeOK, JobState, JobChanged

LEMMA Begins ==
  ASSUME CatchmentTypeOK, NEW j \in Runs, NEW pc \in PCs, NEW layer \in Layer,
         job' = [job EXCEPT ![j].pc = pc, ![j].layer = layer]
  PROVE  JobChanged(j, pc, job[j].left, job[j].tries, layer)
BY DEF CatchmentTypeOK, JobState, JobChanged

(* Causes are only added. *)
CausesAreAdded ==
  /\ cause' \in [Runs -> SUBSET Causes]
  /\ \A k \in Runs : cause[k] \subseteq cause'[k]

LEMMA Fails ==
  ASSUME CatchmentTypeOK, NEW j \in Runs,
         NEW why \in SUBSET Causes, Fail(j, why)
  PROVE  /\ JobGoes(j, "clean") /\ CausesAreAdded /\ why \subseteq cause'[j]
         /\ why = {} => cause' = cause
<1>1. Move(j, "clean") /\ cause' = [cause EXCEPT ![j] = @ \cup why]
  BY DEF Fail
<1>2. JobGoes(j, "clean")
  BY <1>1, MovesAlone DEF PCs
<1> QED BY <1>1, <1>2 DEF CatchmentTypeOK, CausesAreAdded

(* What is stored, made and linked for a job whose own things stay. *)
SameRows(k) ==
  "swept" \in cause'[k] \/ \A layer \in Layer, i \in 1..MaxPoints :
                             <<k, layer, i>> \in stored' <=> <<k, layer, i>> \in stored

SameLayers(k) ==
  /\ \A layer \in Layer : <<k, layer>> \in layers' <=> <<k, layer>> \in layers
  /\ \/ "project" \in cause'[k]
     \/ \A layer \in Layer : <<k, layer>> \in linked' <=> <<k, layer>> \in linked

(* A job to which nothing happens but, maybe, a cause. *)
LEMMA Bystander ==
  ASSUME CatchmentIInv, NEW k \in Runs, job'[k] = job[k], service'[k] = service[k],
         cause[k] \subseteq cause'[k], SameRows(k), SameLayers(k)
  PROVE  Stage(k)'
<1>1. Stage(k) /\ "points" \in Layer /\ "area" \in Layer /\ job[k].layer \in Layer
  BY DEF CatchmentIInv, CatchmentTypeOK, JobState, Layer
<1>2. Control(k)'
  BY <1>1 DEF Stage, Control, WantsPoints
<1>3. HasRows(k)'
  BY <1>1 DEF Stage, HasRows, WantsPoints, SameRows, HasRowsOf, PointsStored, Measured, Simple
<1>4. MadeOnce(k)'
  BY <1>1 DEF Stage, MadeOnce, Simple, WantsPoints, SameLayers
<1>5. InProject(k)'
  BY <1>1 DEF Stage, InProject, WantsPoints, SameLayers
<1>6. HasCause(k)'
  BY <1>1 DEF Stage, HasCause, Simple
<1> QED BY <1>2, <1>3, <1>4, <1>5, <1>6 DEF Stage

(* A job that fails. *)
LEMMA Failing ==
  ASSUME CatchmentIInv, NEW j \in Runs, JobGoes(j, "clean"), CausesAreAdded, job[j].pc \notin {"done", "failed"},
         cause'[j] = {} => ~Simple(j),
         UNCHANGED <<stored, layers, linked, projectThere>>,
         service' \in [Runs -> {"idle", "working", "written"}],
         \A k \in Runs \ {j} : service'[k] = service[k],
         service'[j] = "written" => service[j] = "written"
  PROVE  CatchmentIInv'
<1> USE CatchmentAssumption
<1>1. CatchmentTypeOK'
  BY DEF CatchmentIInv, CatchmentTypeOK, JobGoes, JobChanged, CausesAreAdded
<1>2. ProjectTold'
  BY DEF CatchmentIInv, ProjectTold, CausesAreAdded
<1>3. ASSUME NEW k \in Runs, k # j PROVE Stage(k)'
  <2>1. job'[k] = job[k] /\ service'[k] = service[k] /\ cause[k] \subseteq cause'[k]
    BY <1>3 DEF JobGoes, JobChanged, CausesAreAdded
  <2> QED BY <2>1, Bystander DEF SameRows, SameLayers
<1>4. Stage(j)'
  <2>1. /\ job'[j].pc = "clean" /\ job'[j].layer = job[j].layer /\ job'[j].kind = job[j].kind
        /\ cause[j] \subseteq cause'[j] /\ Stage(j)
    BY DEF JobGoes, JobChanged, CausesAreAdded, CatchmentIInv
  <2>2. Control(j)'
    BY <2>1 DEF Stage, Control, WantsPoints, Asking
  <2>3. HasRows(j)'
    BY <2>1 DEF Stage, HasRows, HasRowsOf, Asking, Making, Measured, Simple
  <2>4. MadeOnce(j)'
    BY <2>1 DEF Stage, MadeOnce, Simple, WantsPoints, Asking
  <2>5. InProject(j)'
    BY <2>1 DEF Stage, InProject, Making
  <2>6. HasCause(j)'
    BY <2>1 DEF Stage, HasCause, Simple
  <2> QED BY <2>2, <2>3, <2>4, <2>5, <2>6 DEF Stage
<1> QED BY <1>1, <1>2, <1>3, <1>4 DEF CatchmentIInv

-----------------------------------------------------------------------------
(* One lemma for each action of a job: what it does to the job itself, and *)
(* that it is a bystander to the others.                                   *)
LEMMA OthersStand ==
  ASSUME CatchmentIInv, NEW j \in Runs, NEW pc, NEW left, NEW tries, NEW layer, JobChanged(j, pc, left, tries, layer),
         CausesAreAdded, \A k \in Runs \ {j} : service'[k] = service[k] /\ SameRows(k) /\ SameLayers(k),
         CatchmentTypeOK', projectThere' = projectThere, Stage(j)'
  PROVE  CatchmentIInv'
<1>1. ProjectTold'
  BY DEF CatchmentIInv, ProjectTold, CausesAreAdded
<1>2. ASSUME NEW k \in Runs, k # j PROVE Stage(k)'
  <2>1. job'[k] = job[k] /\ service'[k] = service[k] /\ cause[k] \subseteq cause'[k]
        /\ SameRows(k) /\ SameLayers(k)
    BY <1>2 DEF JobChanged, CausesAreAdded
  <2> QED BY <2>1, Bystander
<1> QED BY <1>1, <1>2 DEF CatchmentIInv

LEMMA NoCauseAdded == ASSUME CatchmentTypeOK, UNCHANGED cause PROVE CausesAreAdded
BY DEF CatchmentTypeOK, CausesAreAdded

(* A step that writes no row and makes no layer. *)
LEMMA JobMoves ==
  ASSUME CatchmentIInv, NEW j \in Runs, NEW pc, NEW left, NEW tries, NEW layer, JobChanged(j, pc, left, tries, layer),
         UNCHANGED <<stored, layers, linked, projectThere, cause>>,
         service' \in [Runs -> {"idle", "working", "written"}],
         \A k \in Runs \ {j} : service'[k] = service[k], Stage(j)'
  PROVE  CatchmentIInv'
<1>1. CatchmentTypeOK'
  BY DEF CatchmentIInv, CatchmentTypeOK, JobChanged
<1>2. CausesAreAdded
  BY NoCauseAdded DEF CatchmentIInv
<1> QED BY <1>1, <1>2, OthersStand DEF SameRows, SameLayers

LEMMA KindFacts ==
  ASSUME CatchmentTypeOK, NEW j \in Runs
  PROVE  /\ job[j].kind.mode \in {"routing", "pt"} /\ job[j].kind.points \in 0..MaxPoints
         /\ job[j].layer \in Layer /\ job[j].pc \in PCs /\ job[j].left \in 0..MaxPoints
         /\ job[j].kind.type \in {"polygon", "grid"} /\ (job[j].kind.type = "grid" => job[j].kind.mode = "pt")
         /\ job[j].kind.from \in {"layer", "coordinates"} /\ job[j].tries \in 1..CRUD_NUM_RETRIES
         /\ job[j].kind.mode = "pt" /\ WantsPoints(j) => job[j].kind.points = 1
         /\ WantsPoints(j) => job[j].kind.points >= 1
         /\ "points" \in Layer /\ "area" \in Layer
BY CatchmentAssumption DEF CatchmentTypeOK, JobState, Kind, Types_of, WantsPoints, Layer

LEMMA get_lats_lonsInv ==
  ASSUME CatchmentIInv, NEW j \in Runs, get_lats_lons(j) PROVE CatchmentIInv'
<1>1. PICK pc \in {"read", "check"} : JobGoes(j, pc) /\ (pc = "check" <=> job[j].kind.from # "layer")
  BY MovesAlone DEF get_lats_lons, CatchmentIInv, PCs
<1>2. /\ job[j].pc = "idle" /\ job'[j].pc = pc /\ job'[j].layer = job[j].layer /\ job'[j].kind = job[j].kind
      /\ job'[j].left = job[j].left /\ Stage(j) /\ pc \in {"read", "check"}
      /\ (pc = "check" <=> WantsPoints(j))
      /\ UNCHANGED <<stored, layers, linked, projectThere, service, cause>>
  BY <1>1, KindFacts DEF get_lats_lons, At, JobGoes, JobChanged, dataVars, CatchmentIInv, WantsPoints
<1>3. Stage(j)'
  <2>1. Control(j)'
    BY <1>2 DEF Stage, Control, WantsPoints, Asking
  <2>2. HasRows(j)'
    BY <1>2 DEF Stage, HasRows, WantsPoints, PointsStored, HasRowsOf, Asking, Making, Measured, Simple
  <2>3. MadeOnce(j)'
    BY <1>2 DEF Stage, MadeOnce, Simple, WantsPoints, Asking
  <2>4. InProject(j)'
    BY <1>2 DEF Stage, InProject, WantsPoints, Making
  <2>5. HasCause(j)'
    BY <1>2 DEF Stage, HasCause, Simple
  <2> QED BY <2>1, <2>2, <2>3, <2>4, <2>5 DEF Stage
<1> QED BY <1>1, <1>2, <1>3, JobMoves DEF JobGoes, CatchmentIInv, CatchmentTypeOK

LEMMA CheckGeofenceInv ==
  ASSUME CatchmentIInv, NEW j \in Runs, CheckGeofence(j) PROVE CatchmentIInv'
<1>1. CASE Fail(j, {"outside"})
  <2>1. JobGoes(j, "clean") /\ CausesAreAdded /\ "outside" \in cause'[j]
    BY <1>1, Fails DEF CatchmentIInv, Causes
  <2>2. job[j].pc = "check" /\ service' = service /\ UNCHANGED <<stored, layers, linked, projectThere>>
    BY DEF CheckGeofence, At, dataVars
  <2> QED BY <2>1, <2>2, Failing DEF CatchmentIInv, CatchmentTypeOK
<1>2. CASE Move(j, "save") /\ UNCHANGED cause
  <2>1. JobGoes(j, "save")
    BY <1>2, MovesAlone DEF CatchmentIInv, PCs
  <2>2. /\ job[j].pc = "check" /\ job'[j].pc = "save" /\ job'[j].layer = job[j].layer
        /\ job'[j].kind = job[j].kind /\ job'[j].left = job[j].left /\ Stage(j)
        /\ UNCHANGED <<stored, layers, linked, projectThere, service, cause>>
    BY <1>2, <2>1 DEF CheckGeofence, At, JobGoes, JobChanged, dataVars, CatchmentIInv
  <2>3. Stage(j)'
    <3>1. Control(j)'
      BY <2>2 DEF Stage, Control, WantsPoints, Asking
    <3>2. HasRows(j)'
      BY <2>2 DEF Stage, HasRows, WantsPoints, PointsStored, HasRowsOf, Asking, Making, Measured, Simple
    <3>3. MadeOnce(j)'
      BY <2>2 DEF Stage, MadeOnce, Simple, WantsPoints, Asking
    <3>4. InProject(j)'
      BY <2>2 DEF Stage, InProject, WantsPoints, Making
    <3>5. HasCause(j)'
      BY <2>2 DEF Stage, HasCause, Simple
    <3> QED BY <3>1, <3>2, <3>3, <3>4, <3>5 DEF Stage
  <2> QED BY <2>1, <2>2, <2>3, JobMoves DEF JobGoes, CatchmentIInv, CatchmentTypeOK
<1> QED BY <1>1, <1>2 DEF CheckGeofence

LEMMA SavePointsInv ==
  ASSUME CatchmentIInv, NEW j \in Runs, SavePoints(j) PROVE CatchmentIInv'
<1> DEFINE n == job[j].kind.points
<1>1. JobGoes(j, "read")
  BY MovesAlone DEF SavePoints, CatchmentIInv, PCs
<1>2. /\ job[j].pc = "save" /\ job'[j].pc = "read" /\ job'[j].layer = job[j].layer /\ job'[j].kind = job[j].kind
      /\ job'[j].left = job[j].left /\ Stage(j) /\ n \in 0..MaxPoints
      /\ stored' = stored \cup {<<j, "points", i>> : i \in 1..n}
      /\ UNCHANGED <<layers, linked, projectThere, service, cause>>
  BY <1>1, KindFacts DEF SavePoints, At, JobGoes, JobChanged, CatchmentIInv
<1>3. /\ \A k \in Runs, layer \in Layer, i \in 1..MaxPoints :
           <<k, layer, i>> \in stored' <=> <<k, layer, i>> \in stored \/ (k = j /\ layer = "points" /\ i <= n)
      /\ stored' \subseteq StoredRow
  BY <1>2, KindFacts, CatchmentAssumption DEF CatchmentIInv, CatchmentTypeOK, StoredRow, Layer
<1>4. /\ \A i \in 1..MaxPoints : <<j, "points", i>> \in stored' <=> <<j, "points", i>> \in stored \/ i <= n
      /\ \A i \in 1..MaxPoints : <<j, "area", i>> \in stored' <=> <<j, "area", i>> \in stored
  BY <1>3, KindFacts DEF CatchmentIInv
<1>5. CatchmentTypeOK'
  BY <1>1, <1>2, <1>3 DEF CatchmentIInv, CatchmentTypeOK, JobGoes, JobChanged
<1>6. \A k \in Runs \ {j} : SameRows(k) /\ SameLayers(k)
  BY <1>2, <1>3 DEF SameRows, SameLayers
<1>7. Stage(j)'
  <2>1. Control(j)'
    BY <1>2, <1>4 DEF Stage, Control, WantsPoints, Asking
  <2>2. HasRows(j)'
    BY <1>2, <1>4 DEF Stage, HasRows, WantsPoints, PointsStored, HasRowsOf, Asking, Making, Measured, Simple
  <2>3. MadeOnce(j)'
    BY <1>2, <1>4 DEF Stage, MadeOnce, Simple, WantsPoints, Asking
  <2>4. InProject(j)'
    BY <1>2, <1>4 DEF Stage, InProject, WantsPoints, Making
  <2>5. HasCause(j)'
    BY <1>2, <1>4 DEF Stage, HasCause, Simple
  <2> QED BY <2>1, <2>2, <2>3, <2>4, <2>5 DEF Stage
<1> QED BY <1>1, <1>2, <1>5, <1>6, <1>7, NoCauseAdded, OthersStand DEF JobGoes, CatchmentIInv

LEMMA ReadPointsInv ==
  ASSUME CatchmentIInv, NEW j \in Runs, ReadPoints(j) PROVE CatchmentIInv'
<1> DEFINE n == IF job[j].kind.from = "layer" THEN job[j].kind.points ELSE Cardinality(Own(j, "points"))
           pc == IF job[j].kind.mode = "pt" /\ n = 0 THEN "done" ELSE "ask"
<1>1. n \in 0..MaxPoints /\ pc \in PCs
  BY KindFacts, OwnIsCounted DEF CatchmentIInv, PCs
<1>2. job' = [job EXCEPT ![j].left = n, ![j].pc = pc]
  BY DEF ReadPoints
<1>3. JobChanged(j, pc, n, job[j].tries, job[j].layer)
  <2> HIDE DEF n, pc
  <2> QED BY <1>1, <1>2, JobReadOn DEF CatchmentIInv
<1>4. Stage(j) /\ job[j].pc = "read"
  BY DEF CatchmentIInv, ReadPoints, At
<1>5. "swept" \notin cause[j] => n = job[j].kind.points
  BY <1>4, KindFacts, OwnIsCounted DEF CatchmentIInv, Stage, HasRows, WantsPoints
<1>6. /\ job[j].kind.mode = "pt" => (pc = "done" <=> n = 0)
      /\ job[j].kind.mode = "routing" => pc = "ask"
      /\ pc \in {"ask", "done"}
  BY KindFacts DEF CatchmentIInv
<1>7. /\ job'[j].pc = pc /\ job'[j].layer = job[j].layer /\ job'[j].kind = job[j].kind /\ job'[j].left = n
      /\ UNCHANGED <<stored, layers, linked, projectThere, service, cause>>
  BY <1>3 DEF JobChanged, ReadPoints, dataVars
<1> HIDE DEF n, pc
<1>8. /\ job[j].kind.mode \in {"routing", "pt"} /\ job[j].kind.points \in 0..MaxPoints
      /\ job[j].layer = "area"
      /\ WantsPoints(j) => job[j].kind.points >= 1
  BY <1>4, KindFacts DEF CatchmentIInv, Stage, Control
<1>9. Stage(j)'
  <2> USE CatchmentAssumption
  <2>1. Control(j)'
    BY <1>1, <1>4, <1>5, <1>6, <1>7, <1>8 DEF Stage, Control, WantsPoints, Asking
  <2>2. HasRows(j)'
    <3>1. HasRowsOf(j, "area")' <=> HasRowsOf(j, "area")
      BY <1>7 DEF HasRowsOf
    <3>2. PointsStored(j)' <=> PointsStored(j)
      BY <1>7 DEF PointsStored
    <3>3. WantsPoints(j)' <=> WantsPoints(j)
      BY <1>7 DEF WantsPoints
    <3>4. HasRows(j)
      BY <1>4 DEF Stage
    <3>5. WantsPoints(j) /\ "swept" \notin cause[j] => PointsStored(j)
      BY <1>4, <3>4 DEF HasRows
    <3>6. pc = "done" /\ "swept" \notin cause[j] => job[j].kind.mode = "pt" /\ job[j].kind.points = 0
      BY <1>5, <1>6, <1>8
    <3> QED BY <1>6, <1>7, <1>8, <3>1, <3>2, <3>3, <3>4, <3>5, <3>6 DEF HasRows, Making, Measured
  <2>3. MadeOnce(j)'
    BY <1>1, <1>4, <1>5, <1>6, <1>7, <1>8 DEF Stage, MadeOnce, Simple, WantsPoints, Asking
  <2>4. InProject(j)'
    BY <1>1, <1>4, <1>5, <1>6, <1>7, <1>8 DEF Stage, InProject, WantsPoints, Making
  <2>5. HasCause(j)'
    BY <1>1, <1>4, <1>5, <1>6, <1>7, <1>8 DEF Stage, HasCause, Simple
  <2> QED BY <2>1, <2>2, <2>3, <2>4, <2>5 DEF Stage
<1> QED BY <1>3, <1>7, <1>9, JobMoves DEF CatchmentIInv, CatchmentTypeOK

LEMMA call_routing_endpointInv ==
  ASSUME CatchmentIInv, NEW j \in Runs, call_routing_endpoint(j) PROVE CatchmentIInv'
<1>1. /\ job[j].pc = "ask" /\ job[j].kind.mode = "routing" /\ Stage(j)
      /\ UNCHANGED <<stored, layers, linked, projectThere>>
  BY DEF call_routing_endpoint, At, CatchmentIInv
<1>2. CASE service[j] = "written"
  <2>1. job' = [job EXCEPT ![j].pc = "measure", ![j].layer = "area"] /\ UNCHANGED <<service, cause>>
    BY <1>2 DEF call_routing_endpoint
  <2>2. JobChanged(j, "measure", job[j].left, job[j].tries, "area")
    BY <2>1, Begins DEF CatchmentIInv, PCs, Layer
  <2>3. /\ job'[j].pc = "measure" /\ job'[j].layer = "area" /\ job'[j].kind = job[j].kind
        /\ job'[j].left = job[j].left /\ UNCHANGED <<service, cause>>
        /\ job[j].layer = "area"
    BY <1>1, <2>1, <2>2 DEF JobChanged, Stage, Control
  <2>4. Stage(j)'
    <3>1. Control(j)'
      BY <1>1, <1>2, <2>3 DEF Stage, Control, WantsPoints, Asking
    <3>2. HasRows(j)'
      BY <1>1, <1>2, <2>3 DEF Stage, HasRows, WantsPoints, PointsStored, HasRowsOf, Asking, Making, Measured, Simple
    <3>3. MadeOnce(j)'
      BY <1>1, <1>2, <2>3 DEF Stage, MadeOnce, Simple, WantsPoints, Asking
    <3>4. InProject(j)'
      BY <1>1, <1>2, <2>3 DEF Stage, InProject, WantsPoints, Making
    <3>5. HasCause(j)'
      BY <1>1, <1>2, <2>3 DEF Stage, HasCause, Simple
    <3> QED BY <3>1, <3>2, <3>3, <3>4, <3>5 DEF Stage
  <2> QED BY <1>1, <2>1, <2>2, <2>4, JobMoves DEF CatchmentIInv, CatchmentTypeOK
<1>3. CASE service[j] # "written"
  <2>1. /\ service' = [service EXCEPT ![j] = "working"] /\ service'[j] # "written"
        /\ \A k \in Runs \ {j} : service'[k] = service[k]
        /\ service' \in [Runs -> {"idle", "working", "written"}]
    BY <1>3 DEF call_routing_endpoint, CatchmentIInv, CatchmentTypeOK
  <2>2. CASE Fail(j, {"slow"})
    <3>1. JobGoes(j, "clean") /\ CausesAreAdded /\ "slow" \in cause'[j]
      BY <2>2, Fails DEF CatchmentIInv, Causes
    <3> QED BY <1>1, <2>1, <3>1, Failing
  <2>3. CASE job[j].tries # CRUD_NUM_RETRIES /\ job' = [job EXCEPT ![j].tries = @ + 1] /\ UNCHANGED cause
    <3>1. job[j].tries + 1 \in 1..CRUD_NUM_RETRIES
      BY <2>3, KindFacts, CatchmentAssumption DEF CatchmentIInv
    <3>2. JobChanged(j, "ask", job[j].left, job[j].tries + 1, job[j].layer)
      BY <1>1, <2>3, <3>1, Retries DEF CatchmentIInv
    <3>3. /\ job'[j].pc = "ask" /\ job'[j].layer = job[j].layer /\ job'[j].kind = job[j].kind
          /\ job'[j].left = job[j].left /\ cause' = cause
      BY <2>3, <3>2 DEF JobChanged
    <3>4. Stage(j)'
      <4>1. Control(j)'
        BY <1>1, <2>1, <3>3 DEF Stage, Control, WantsPoints, Asking
      <4>2. HasRows(j)'
        BY <1>1, <2>1, <3>3 DEF Stage, HasRows, WantsPoints, PointsStored, HasRowsOf, Asking, Making, Measured, Simple
      <4>3. MadeOnce(j)'
        BY <1>1, <2>1, <3>3 DEF Stage, MadeOnce, Simple, WantsPoints, Asking
      <4>4. InProject(j)'
        BY <1>1, <2>1, <3>3 DEF Stage, InProject, WantsPoints, Making
      <4>5. HasCause(j)'
        BY <1>1, <2>1, <3>3 DEF Stage, HasCause, Simple
      <4> QED BY <4>1, <4>2, <4>3, <4>4, <4>5 DEF Stage
    <3> QED BY <1>1, <2>1, <2>3, <3>2, <3>4, JobMoves
  <2> QED BY <1>3, <2>2, <2>3 DEF call_routing_endpoint, ComeAgain
<1> QED BY <1>2, <1>3

LEMMA ask_r5Inv ==
  ASSUME CatchmentIInv, NEW j \in Runs, ask_r5(j) PROVE CatchmentIInv'
<1>1. /\ job[j].pc = "ask" /\ job[j].kind.mode = "pt" /\ Stage(j)
      /\ UNCHANGED <<stored, layers, linked, projectThere, service>>
      /\ service \in [Runs -> {"idle", "working", "written"}]
  BY DEF ask_r5, At, CatchmentIInv, dataVars, CatchmentTypeOK
<1>2. CASE job' = [job EXCEPT ![j].pc = "write", ![j].tries = 1] /\ UNCHANGED cause
  <2>0. 1 \in 1..CRUD_NUM_RETRIES /\ "write" \in PCs
    BY CatchmentAssumption DEF PCs
  <2>1. JobChanged(j, "write", job[j].left, 1, job[j].layer)
    BY <1>2, <2>0, Restarts DEF CatchmentIInv
  <2>2. /\ job'[j].pc = "write" /\ job'[j].layer = job[j].layer /\ job'[j].kind = job[j].kind
        /\ job'[j].left = job[j].left /\ cause' = cause
    BY <1>2, <2>1 DEF JobChanged
  <2>3. Stage(j)'
    <3>1. Control(j)'
      BY <1>1, <2>2 DEF Stage, Control, WantsPoints, Asking
    <3>2. HasRows(j)'
      BY <1>1, <2>2 DEF Stage, HasRows, WantsPoints, PointsStored, HasRowsOf, Asking, Making, Measured, Simple
    <3>3. MadeOnce(j)'
      BY <1>1, <2>2 DEF Stage, MadeOnce, Simple, WantsPoints, Asking
    <3>4. InProject(j)'
      BY <1>1, <2>2 DEF Stage, InProject, WantsPoints, Making
    <3>5. HasCause(j)'
      BY <1>1, <2>2 DEF Stage, HasCause, Simple
    <3> QED BY <3>1, <3>2, <3>3, <3>4, <3>5 DEF Stage
  <2> QED BY <1>1, <1>2, <2>1, <2>3, JobMoves
<1>3. CASE Fail(j, {"slow"})
  <2>1. JobGoes(j, "clean") /\ CausesAreAdded /\ "slow" \in cause'[j]
    BY <1>3, Fails DEF CatchmentIInv, Causes
  <2> QED BY <1>1, <2>1, Failing
<1>4. CASE job[j].tries # CRUD_NUM_RETRIES /\ job' = [job EXCEPT ![j].tries = @ + 1] /\ UNCHANGED cause
  <2>1. job[j].tries + 1 \in 1..CRUD_NUM_RETRIES
    BY <1>4, KindFacts, CatchmentAssumption DEF CatchmentIInv
  <2>2. JobChanged(j, "ask", job[j].left, job[j].tries + 1, job[j].layer)
    BY <1>1, <1>4, <2>1, Retries DEF CatchmentIInv
  <2>3. /\ job'[j].pc = "ask" /\ job'[j].layer = job[j].layer /\ job'[j].kind = job[j].kind
        /\ job'[j].left = job[j].left /\ cause' = cause
    BY <1>4, <2>2 DEF JobChanged
  <2>4. Stage(j)'
    <3>1. Control(j)'
      BY <1>1, <2>3 DEF Stage, Control, WantsPoints, Asking
    <3>2. HasRows(j)'
      BY <1>1, <2>3 DEF Stage, HasRows, WantsPoints, PointsStored, HasRowsOf, Asking, Making, Measured, Simple
    <3>3. MadeOnce(j)'
      BY <1>1, <2>3 DEF Stage, MadeOnce, Simple, WantsPoints, Asking
    <3>4. InProject(j)'
      BY <1>1, <2>3 DEF Stage, InProject, WantsPoints, Making
    <3>5. HasCause(j)'
      BY <1>1, <2>3 DEF Stage, HasCause, Simple
    <3> QED BY <3>1, <3>2, <3>3, <3>4, <3>5 DEF Stage
  <2> QED BY <1>1, <1>4, <2>2, <2>4, JobMoves
<1> QED BY <1>2, <1>3, <1>4 DEF ask_r5, ComeAgain

LEMMA RefusedInv ==
  ASSUME CatchmentIInv, NEW j \in Runs, Refused(j) PROVE CatchmentIInv'
<1>1. JobGoes(j, "clean") /\ CausesAreAdded /\ "refused" \in cause'[j]
  BY Fails DEF Refused, CatchmentIInv, Causes
<1>2. /\ job[j].pc = "ask" /\ UNCHANGED <<stored, layers, linked, projectThere>>
      /\ service' \in [Runs -> {"idle", "working", "written"}]
      /\ \A k \in Runs \ {j} : service'[k] = service[k]
      /\ service'[j] = "written" => service[j] = "written"
  BY DEF Refused, At, CatchmentIInv, CatchmentTypeOK
<1> QED BY <1>1, <1>2, Failing

LEMMA TimeOutInv ==
  ASSUME CatchmentIInv, NEW j \in Runs, TimeOut(j) PROVE CatchmentIInv'
<1>1. JobGoes(j, "clean") /\ CausesAreAdded /\ "timeout" \in cause'[j]
  BY Fails DEF TimeOut, CatchmentIInv, Causes
<1>2. /\ job[j].pc \notin {"done", "failed"} /\ UNCHANGED <<stored, layers, linked, projectThere, service>>
      /\ service' \in [Runs -> {"idle", "working", "written"}]
  BY DEF TimeOut, dataVars, CatchmentIInv, CatchmentTypeOK
<1> QED BY <1>1, <1>2, Failing

(* The area's row of one job is written. *)
LEMMA RowWritten ==
  ASSUME CatchmentTypeOK, NEW j \in Runs, NEW n \in 1..MaxPoints, NEW reached \in BOOLEAN,
         SaveAnswer(j, n, reached), UNCHANGED <<layers, linked>>
  PROVE  /\ stored' \subseteq StoredRow /\ CausesAreAdded
         /\ \A i \in 1..MaxPoints : <<j, "points", i>> \in stored' <=> <<j, "points", i>> \in stored
         /\ \A i \in 1..MaxPoints : <<j, "area", i>> \in stored => <<j, "area", i>> \in stored'
         /\ (\E i \in 1..MaxPoints : <<j, "area", i>> \in stored') \/ "nowhere" \in cause'[j]
         /\ "swept" \in cause'[j] <=> "swept" \in cause[j]
         /\ "project" \in cause'[j] <=> "project" \in cause[j]
         /\ \A k \in Runs \ {j} : SameRows(k) /\ SameLayers(k)
<1> USE CatchmentAssumption
<1>1. CASE reached
  <2>1. stored' = stored \cup {<<j, "area", n>>} /\ cause' = cause
    BY <1>1 DEF SaveAnswer
  <2>2. stored' \subseteq StoredRow /\ CausesAreAdded
    BY <2>1, NoCauseAdded DEF CatchmentTypeOK, Layer, StoredRow
  <2> QED BY <2>1, <2>2 DEF SameRows, SameLayers
<1>2. CASE ~reached
  <2>1. /\ stored' = stored \cup {<<j, "area", 0>>}
        /\ cause' = [cause EXCEPT ![j] = @ \cup {"nowhere"}]
    BY <1>2 DEF SaveAnswer
  <2>2. /\ cause'[j] = cause[j] \cup {"nowhere"} /\ CausesAreAdded
    BY <2>1 DEF CatchmentTypeOK, CausesAreAdded, Causes
  <2>3. stored' \subseteq StoredRow
    BY <2>1 DEF CatchmentTypeOK, Layer, StoredRow
  <2>4. \A k \in Runs \ {j} : SameRows(k) /\ SameLayers(k)
    BY <2>1 DEF SameRows, SameLayers
  <2> QED BY <2>1, <2>2, <2>3, <2>4
<1> QED BY <1>1, <1>2

LEMMA ServiceWritesInv ==
  ASSUME CatchmentIInv, NEW j \in Runs, ServiceWrites(j) PROVE CatchmentIInv'
<1>1. /\ service[j] = "working" /\ service'[j] = "written" /\ \A k \in Runs \ {j} : service'[k] = service[k]
      /\ service' \in [Runs -> {"idle", "working", "written"}]
      /\ \E reached \in BOOLEAN : SaveAnswer(j, 1, reached)
      /\ UNCHANGED <<job, layers, linked, projectThere>> /\ Stage(j) /\ CatchmentTypeOK
  BY DEF ServiceWrites, CatchmentIInv, CatchmentTypeOK
<1>2. /\ stored' \subseteq StoredRow /\ CausesAreAdded
      /\ \A i \in 1..MaxPoints : <<j, "points", i>> \in stored' <=> <<j, "points", i>> \in stored
      /\ \A i \in 1..MaxPoints : <<j, "area", i>> \in stored => <<j, "area", i>> \in stored'
      /\ (\E i \in 1..MaxPoints : <<j, "area", i>> \in stored') \/ "nowhere" \in cause'[j]
      /\ "swept" \in cause'[j] <=> "swept" \in cause[j]
      /\ "project" \in cause'[j] <=> "project" \in cause[j]
      /\ \A k \in Runs \ {j} : SameRows(k) /\ SameLayers(k)
  <2>1. 1 \in 1..MaxPoints
    BY CatchmentAssumption
  <2> QED BY <1>1, <2>1, RowWritten
<1>3. CatchmentTypeOK' /\ cause[j] \subseteq cause'[j]
  BY <1>1, <1>2 DEF CatchmentTypeOK, CausesAreAdded
<1>4. JobChanged(j, job[j].pc, job[j].left, job[j].tries, job[j].layer)
  BY <1>1 DEF JobChanged, CatchmentIInv, CatchmentTypeOK
<1>5. Stage(j)'
  <2>1. Control(j)'
    BY <1>1, <1>2 DEF Stage, Control, WantsPoints, Asking
  <2>2. HasRows(j)'
    BY <1>1, <1>2, <1>3 DEF Stage, HasRows, WantsPoints, PointsStored, HasRowsOf, Asking, Making, Measured, Simple
  <2>3. MadeOnce(j)'
    BY <1>1, <1>2 DEF Stage, MadeOnce, Simple, WantsPoints, Asking
  <2>4. InProject(j)'
    BY <1>1, <1>2 DEF Stage, InProject, WantsPoints, Making
  <2>5. HasCause(j)'
    BY <1>1, <1>3 DEF Stage, HasCause, Simple
  <2> QED BY <2>1, <2>2, <2>3, <2>4, <2>5 DEF Stage
<1> QED BY <1>1, <1>2, <1>3, <1>4, <1>5, OthersStand

LEMMA write_catchment_area_resultInv ==
  ASSUME CatchmentIInv, NEW j \in Runs, write_catchment_area_result(j) PROVE CatchmentIInv'
<1>1. /\ job[j].pc = "write" /\ Stage(j) /\ CatchmentTypeOK
      /\ job' = [job EXCEPT ![j].pc = "measure", ![j].layer = "area"]
      /\ UNCHANGED <<layers, linked, service, projectThere>>
  BY DEF write_catchment_area_result, At, CatchmentIInv
<1>2. job[j].kind.mode = "pt" /\ job[j].left \in 1..MaxPoints
  BY <1>1, KindFacts, CatchmentAssumption DEF Stage, Control, Asking, CatchmentIInv
<1>3. /\ stored' \subseteq StoredRow /\ CausesAreAdded
      /\ \A i \in 1..MaxPoints : <<j, "points", i>> \in stored' <=> <<j, "points", i>> \in stored
      /\ \A i \in 1..MaxPoints : <<j, "area", i>> \in stored => <<j, "area", i>> \in stored'
      /\ Simple(j) => (\E i \in 1..MaxPoints : <<j, "area", i>> \in stored') \/ "nowhere" \in cause'[j]
      /\ "swept" \in cause'[j] <=> "swept" \in cause[j]
      /\ "project" \in cause'[j] <=> "project" \in cause[j]
      /\ \A k \in Runs \ {j} : SameRows(k) /\ SameLayers(k)
  <2>1. CASE job[j].kind.type = "polygon"
    <3>1. PICK reached \in BOOLEAN : SaveAnswer(j, job[j].left, reached)
      BY <2>1 DEF write_catchment_area_result
    <3> QED BY <1>1, <1>2, <3>1, RowWritten
  <2>2. CASE job[j].kind.type # "polygon"
    <3>1. UNCHANGED <<stored, cause>> /\ ~Simple(j)
      BY <1>2, <2>2 DEF write_catchment_area_result, Simple
    <3> QED BY <1>1, <3>1, NoCauseAdded DEF CatchmentTypeOK, SameRows, SameLayers
  <2> QED BY <2>1, <2>2
<1>4. JobChanged(j, "measure", job[j].left, job[j].tries, "area")
  BY <1>1, Begins DEF CatchmentIInv, PCs, Layer
<1>5. CatchmentTypeOK' /\ cause[j] \subseteq cause'[j]
  BY <1>1, <1>3, <1>4 DEF CatchmentIInv, CatchmentTypeOK, CausesAreAdded, JobChanged
<1>6. /\ job'[j].pc = "measure" /\ job'[j].layer = "area" /\ job'[j].kind = job[j].kind
      /\ job'[j].left = job[j].left
  BY <1>4 DEF JobChanged
<1>7. Simple(j) /\ "swept" \notin cause[j] => <<j, "area">> \notin layers /\ <<j, "points">> \notin layers
  BY <1>1, <1>2, KindFacts DEF CatchmentIInv, Stage, MadeOnce, Simple, Layer
<1>8. Stage(j) /\ job[j].pc = "write" /\ UNCHANGED <<layers, linked, service>>
  BY <1>1
<1>9. Stage(j)'
  <2>1. Control(j)'
    BY <1>2, <1>3, <1>6, <1>7, <1>8 DEF Stage, Control, WantsPoints, Asking
  <2>2. HasRows(j)'
    BY <1>2, <1>3, <1>5, <1>6, <1>8 DEF Stage, HasRows, WantsPoints, PointsStored, HasRowsOf, Asking, Making, Measured, Simple
  <2>3. MadeOnce(j)'
    BY <1>2, <1>3, <1>6, <1>7, <1>8 DEF Stage, MadeOnce, Simple, WantsPoints, Asking
  <2>4. InProject(j)'
    BY <1>2, <1>3, <1>6, <1>7, <1>8 DEF Stage, InProject, WantsPoints, Making
  <2>5. HasCause(j)'
    BY <1>2, <1>6, <1>8 DEF Stage, HasCause, Simple
  <2> QED BY <2>1, <2>2, <2>3, <2>4, <2>5 DEF Stage
<1> QED BY <1>1, <1>3, <1>4, <1>5, <1>9, OthersStand

LEMMA MeasureInv ==
  ASSUME CatchmentIInv, NEW j \in Runs, Measure(j) PROVE CatchmentIInv'
<1>1. /\ job[j].pc = "measure" /\ Stage(j) /\ UNCHANGED <<stored, layers, linked, projectThere, service>>
      /\ service \in [Runs -> {"idle", "working", "written"}]
  BY DEF Measure, At, CatchmentIInv, dataVars, CatchmentTypeOK
<1>2. CASE projectThere /\ HasExtent(j, job[j].layer)
  <2>1. Move(j, "create") /\ UNCHANGED cause
    BY <1>2 DEF Measure
  <2>2. JobGoes(j, "create")
    BY <2>1, MovesAlone DEF CatchmentIInv, PCs
  <2>3. /\ job'[j].pc = "create" /\ job'[j].layer = job[j].layer /\ job'[j].kind = job[j].kind
        /\ job'[j].left = job[j].left /\ cause' = cause
    BY <2>1, <2>2 DEF JobGoes, JobChanged
  <2>4. Stage(j)'
    <3>1. Control(j)'
      BY <1>1, <2>3 DEF Stage, Control, WantsPoints, Asking
    <3>2. HasRows(j)'
      <4>1. HasRowsOf(j, job[j].layer) /\ job[j].layer \in {"area", "points"}
        BY <1>2, OwnRows, KindFacts DEF CatchmentIInv, Layer
      <4>2. "swept" \notin cause[j] => HasRowsOf(j, "area")
        BY <1>1, <4>1 DEF Stage, HasRows, Measured
      <4> QED BY <1>1, <2>3, <4>2 DEF Stage, HasRows, WantsPoints, PointsStored, HasRowsOf, Asking, Making, Measured
    <3>3. MadeOnce(j)'
      BY <1>1, <2>3 DEF Stage, MadeOnce, Simple, WantsPoints, Asking
    <3>4. InProject(j)'
      BY <1>1, <2>3 DEF Stage, InProject, WantsPoints, Making
    <3>5. HasCause(j)'
      BY <1>1, <2>3 DEF Stage, HasCause, Simple
    <3> QED BY <3>1, <3>2, <3>3, <3>4, <3>5 DEF Stage
  <2> QED BY <1>1, <2>1, <2>2, <2>4, JobMoves DEF JobGoes
<1>3. CASE ~(projectThere /\ HasExtent(j, job[j].layer))
  <2>1. JobGoes(j, "clean") /\ CausesAreAdded /\ cause' = cause
    BY <1>3, Fails DEF Measure, CatchmentIInv
  <2>2. projectThere => ~HasRowsOf(j, job[j].layer)
    BY <1>3, OwnRows, KindFacts DEF CatchmentIInv
  <2>3. "swept" \notin cause[j] /\ Simple(j) => HasRowsOf(j, job[j].layer) \/ "nowhere" \in cause[j]
    <3>1. job[j].layer \in Layer /\ job[j].kind.mode \in {"routing", "pt"}
          /\ (WantsPoints(j) => 1 <= job[j].kind.points) /\ 1 \in 1..MaxPoints
      BY KindFacts, CatchmentAssumption DEF CatchmentIInv
    <3>2. "swept" \notin cause[j] /\ Simple(j) => HasRowsOf(j, "area") \/ "nowhere" \in cause[j]
      BY <1>1, <3>1 DEF Stage, HasRows, Measured, Simple
    <3>3. "swept" \notin cause[j] /\ job[j].layer = "points" => HasRowsOf(j, "points")
      BY <1>1, <3>1 DEF Stage, HasRows, Control, PointsStored, HasRowsOf, Asking, Measured, Simple
    <3> QED BY <3>1, <3>2, <3>3 DEF Layer
  <2>4. cause[j] = {} => ~Simple(j)
    BY <2>2, <2>3 DEF CatchmentIInv, ProjectTold
  <2> QED BY <1>1, <2>1, <2>4, Failing
<1> QED BY <1>2, <1>3

LEMMA CreateLayerInv ==
  ASSUME CatchmentIInv, NEW j \in Runs, CreateLayer(j) PROVE CatchmentIInv'
<1>1. /\ job[j].pc = "create" /\ Stage(j) /\ UNCHANGED <<stored, linked, projectThere, service>>
      /\ service \in [Runs -> {"idle", "working", "written"}] /\ job[j].layer \in Layer
  BY KindFacts DEF CreateLayer, At, CatchmentIInv, CatchmentTypeOK
<1>2. CASE <<j, job[j].layer>> \in layers
  <2>1. JobGoes(j, "clean") /\ CausesAreAdded /\ cause' = cause /\ layers' = layers
    BY <1>2, Fails DEF CreateLayer, CatchmentIInv
  <2>2. cause[j] = {} => ~Simple(j)
    BY <1>1, <1>2 DEF Stage, MadeOnce
  <2> QED BY <1>1, <2>1, <2>2, Failing
<1>3. CASE <<j, job[j].layer>> \notin layers
  <2>1. layers' = layers \cup {<<j, job[j].layer>>} /\ Move(j, "link") /\ UNCHANGED cause
    BY <1>3 DEF CreateLayer
  <2>2. JobGoes(j, "link")
    BY <2>1, MovesAlone DEF CatchmentIInv, PCs
  <2>3. /\ job'[j].pc = "link" /\ job'[j].layer = job[j].layer /\ job'[j].kind = job[j].kind
        /\ job'[j].left = job[j].left /\ cause' = cause
        /\ job[j].layer = "points" => WantsPoints(j)
    BY <1>1, <2>1, <2>2 DEF JobGoes, JobChanged, Stage, Control
  <2>4. /\ \A layer : <<j, layer>> \in layers' <=> <<j, layer>> \in layers \/ layer = job[j].layer
        /\ \A k \in Runs \ {j} : SameRows(k) /\ SameLayers(k)
    BY <1>1, <2>1 DEF SameRows, SameLayers
  <2>5. CatchmentTypeOK' /\ CausesAreAdded
    BY <1>1, <2>1, <2>2 DEF CatchmentIInv, CatchmentTypeOK, CausesAreAdded, JobGoes, JobChanged
  <2>6. Stage(j)'
    <3>1. Control(j)'
      BY <1>1, <2>3, <2>4 DEF Stage, Control, WantsPoints, Asking
    <3>2. HasRows(j)'
      BY <1>1, <2>3, <2>4 DEF Stage, HasRows, WantsPoints, PointsStored, HasRowsOf, Asking, Making, Measured, Simple
    <3>3. MadeOnce(j)'
      BY <1>1, <2>3, <2>4 DEF Stage, MadeOnce, Simple, WantsPoints, Asking
    <3>4. InProject(j)'
      BY <1>1, <2>3, <2>4 DEF Stage, InProject, WantsPoints, Making
    <3>5. HasCause(j)'
      BY <1>1, <2>3, <2>4 DEF Stage, HasCause, Simple
    <3> QED BY <3>1, <3>2, <3>3, <3>4, <3>5 DEF Stage
  <2> QED BY <1>1, <2>2, <2>4, <2>5, <2>6, OthersStand DEF JobGoes
<1> QED BY <1>2, <1>3

LEMMA LinkLayerInv ==
  ASSUME CatchmentIInv, NEW j \in Runs, LinkLayer(j) PROVE CatchmentIInv'
<1>1. /\ job[j].pc = "link" /\ Stage(j) /\ UNCHANGED <<stored, layers, projectThere, service>>
      /\ service \in [Runs -> {"idle", "working", "written"}] /\ job[j].layer \in Layer
  BY KindFacts DEF LinkLayer, At, CatchmentIInv, CatchmentTypeOK
<1>2. CASE ~projectThere
  <2>1. JobGoes(j, "clean") /\ CausesAreAdded /\ cause' = cause /\ linked' = linked
    BY <1>2, Fails DEF LinkLayer, CatchmentIInv
  <2>2. cause[j] # {}
    BY <1>2 DEF CatchmentIInv, ProjectTold
  <2> QED BY <1>1, <2>1, <2>2, Failing
<1>3. CASE projectThere
  <2>1. linked' = linked \cup {<<j, job[j].layer>>} /\ Move(j, "next") /\ UNCHANGED cause
    BY <1>3 DEF LinkLayer
  <2>2. JobGoes(j, "next")
    BY <2>1, MovesAlone DEF CatchmentIInv, PCs
  <2>3. /\ job'[j].pc = "next" /\ job'[j].layer = job[j].layer /\ job'[j].kind = job[j].kind
        /\ job'[j].left = job[j].left /\ cause' = cause
    BY <2>1, <2>2 DEF JobGoes, JobChanged
  <2>4. /\ \A layer : <<j, layer>> \in linked' <=> <<j, layer>> \in linked \/ layer = job[j].layer
        /\ \A k \in Runs \ {j} : SameRows(k) /\ SameLayers(k)
    BY <1>1, <2>1 DEF SameRows, SameLayers
  <2>5. <<j, job[j].layer>> \in layers
    BY <1>1 DEF Stage, MadeOnce
  <2>6. CatchmentTypeOK' /\ CausesAreAdded
    BY <1>1, <2>1, <2>2, <2>5 DEF CatchmentIInv, CatchmentTypeOK, CausesAreAdded, JobGoes, JobChanged
  <2>7. Stage(j)'
    <3>1. Control(j)'
      BY <1>1, <2>3, <2>4 DEF Stage, Control, WantsPoints, Asking
    <3>2. HasRows(j)'
      BY <1>1, <2>3, <2>4 DEF Stage, HasRows, WantsPoints, PointsStored, HasRowsOf, Asking, Making, Measured, Simple
    <3>3. MadeOnce(j)'
      BY <1>1, <2>3, <2>4 DEF Stage, MadeOnce, Simple, WantsPoints, Asking
    <3>4. InProject(j)'
      BY <1>1, <2>3, <2>4 DEF Stage, InProject, WantsPoints, Making
    <3>5. HasCause(j)'
      BY <1>1, <2>3, <2>4 DEF Stage, HasCause, Simple
    <3> QED BY <3>1, <3>2, <3>3, <3>4, <3>5 DEF Stage
  <2> QED BY <1>1, <2>2, <2>4, <2>6, <2>7, OthersStand DEF JobGoes
<1> QED BY <1>2, <1>3

LEMMA Next_layerInv ==
  ASSUME CatchmentIInv, NEW j \in Runs, Next_layer(j) PROVE CatchmentIInv'
<1> DEFINE last == job[j].kind.mode = "routing" \/ job[j].left = 1
<1>1. /\ job[j].pc = "next" /\ Stage(j) /\ UNCHANGED <<stored, layers, linked, projectThere, service, cause>>
      /\ service \in [Runs -> {"idle", "working", "written"}] /\ job[j].layer \in Layer
      /\ job[j].kind.mode \in {"routing", "pt"} /\ job[j].kind.points \in 0..MaxPoints
      /\ "swept" \notin cause[j] => HasRowsOf(j, "area")
  BY KindFacts DEF Measured, Next_layer, At, CatchmentIInv, CatchmentTypeOK, dataVars, Stage, HasRows, Making
<1>2. CASE job[j].layer = "area" /\ WantsPoints(j)
  <2>1. job' = [job EXCEPT ![j].pc = "measure", ![j].layer = "points"]
    BY <1>2 DEF Next_layer
  <2>2. JobChanged(j, "measure", job[j].left, job[j].tries, "points")
    BY <2>1, Begins DEF CatchmentIInv, PCs, Layer
  <2>3. /\ job'[j].pc = "measure" /\ job'[j].layer = "points" /\ job'[j].kind = job[j].kind
        /\ job'[j].left = job[j].left
    BY <2>2 DEF JobChanged
  <2>4. Stage(j)'
    <3>1. Control(j)'
      BY <1>1, <1>2, <2>3 DEF Stage, Control, WantsPoints, Asking
    <3>2. HasRows(j)'
      BY <1>1, <1>2, <2>3 DEF Stage, HasRows, WantsPoints, PointsStored, HasRowsOf, Asking, Making, Measured, Simple
    <3>3. MadeOnce(j)'
      BY <1>1, <1>2, <2>3 DEF Stage, MadeOnce, Simple, WantsPoints, Asking
    <3>4. InProject(j)'
      BY <1>1, <1>2, <2>3 DEF Stage, InProject, WantsPoints, Making
    <3>5. HasCause(j)'
      BY <1>1, <1>2, <2>3 DEF Stage, HasCause, Simple
    <3> QED BY <3>1, <3>2, <3>3, <3>4, <3>5 DEF Stage
  <2> QED BY <1>1, <2>2, <2>4, JobMoves
<1>3. CASE ~(job[j].layer = "area" /\ WantsPoints(j)) /\ last
  <2>1. Move(j, "done")
    BY <1>3 DEF Next_layer, Move
  <2>2. JobGoes(j, "done")
    BY <2>1, MovesAlone DEF CatchmentIInv, PCs
  <2>3. /\ job'[j].pc = "done" /\ job'[j].layer = job[j].layer /\ job'[j].kind = job[j].kind
        /\ job'[j].left = job[j].left
    BY <2>2 DEF JobGoes, JobChanged
  <2>4. Stage(j)'
    <3>1. Control(j)'
      BY <1>1, <1>3, <2>3 DEF Stage, Control, WantsPoints, Asking, Layer
    <3>2. HasRows(j)'
      BY <1>1, <1>3, <2>3 DEF Stage, HasRows, WantsPoints, PointsStored, HasRowsOf, Asking, Making, Layer, Measured, Simple
    <3>3. MadeOnce(j)'
      BY <1>1, <1>3, <2>3 DEF Stage, MadeOnce, Simple, WantsPoints, Asking, Layer
    <3>4. InProject(j)'
      BY <1>1, <1>3, <2>3 DEF Stage, InProject, WantsPoints, Making, Layer
    <3>5. HasCause(j)'
      BY <1>1, <1>3, <2>3 DEF Stage, HasCause, Simple, Layer
    <3> QED BY <3>1, <3>2, <3>3, <3>4, <3>5 DEF Stage
  <2> QED BY <1>1, <2>2, <2>4, JobMoves DEF JobGoes
<1>4. CASE ~(job[j].layer = "area" /\ WantsPoints(j)) /\ ~last
  <2>1. job' = [job EXCEPT ![j].left = job[j].left - 1, ![j].pc = "ask"]
    BY <1>4 DEF Next_layer, CatchmentIInv, CatchmentTypeOK
  <2>2. job[j].kind.mode = "pt" /\ job[j].left - 1 \in 1..MaxPoints /\ job[j].left - 1 \in 0..MaxPoints
    BY <1>1, <1>4, KindFacts, CatchmentAssumption DEF CatchmentIInv, Stage, Control, Asking
  <2>3. JobChanged(j, "ask", job[j].left - 1, job[j].tries, job[j].layer)
    BY <2>1, <2>2, JobReadOn DEF CatchmentIInv, PCs
  <2>4. /\ job'[j].pc = "ask" /\ job'[j].layer = job[j].layer /\ job'[j].kind = job[j].kind
        /\ job'[j].left = job[j].left - 1
    BY <2>3 DEF JobChanged
  <2>5. Simple(j) => "swept" \in cause[j]
    BY <1>1, <1>4 DEF Stage, MadeOnce, Asking
  <2>6. Stage(j)'
    <3> USE CatchmentAssumption
    <3>1. Control(j)'
      BY <1>1, <1>4, <2>2, <2>4, <2>5 DEF Stage, Control, WantsPoints, Asking
    <3>2. HasRows(j)'
      BY <1>1, <1>4, <2>2, <2>4, <2>5 DEF Stage, HasRows, WantsPoints, PointsStored, HasRowsOf, Asking, Making, Measured, Simple
    <3>3. MadeOnce(j)'
      BY <1>1, <1>4, <2>2, <2>4, <2>5 DEF Stage, MadeOnce, Simple, WantsPoints, Asking
    <3>4. InProject(j)'
      BY <1>1, <1>4, <2>2, <2>4, <2>5 DEF Stage, InProject, WantsPoints, Making
    <3>5. HasCause(j)'
      BY <1>1, <1>4, <2>2, <2>4, <2>5 DEF Stage, HasCause, Simple
    <3> QED BY <3>1, <3>2, <3>3, <3>4, <3>5 DEF Stage
  <2> QED BY <1>1, <2>3, <2>6, JobMoves
<1> QED BY <1>2, <1>3, <1>4

LEMMA delete_orphan_dataInv ==
  ASSUME CatchmentIInv, NEW j \in Runs, delete_orphan_data(j) PROVE CatchmentIInv'
<1> DEFINE swept == {r \in stored : <<r[1], r[2]>> \notin layers}
<1>1. /\ job[j].pc = "clean" /\ Move(j, "drop") /\ stored' = stored \ swept
      /\ cause' = [k \in Runs |-> IF \E r \in swept : r[1] = k THEN cause[k] \cup {"swept"} ELSE cause[k]]
      /\ UNCHANGED <<layers, linked, service, projectThere>> /\ Stage(j)
  BY DEF delete_orphan_data, At, CatchmentIInv
<1>2. JobGoes(j, "drop")
  BY <1>1, MovesAlone DEF CatchmentIInv, PCs
<1>3. CausesAreAdded
  BY <1>1 DEF CatchmentIInv, CatchmentTypeOK, CausesAreAdded, Causes
<1>4. ASSUME NEW k \in Runs PROVE SameRows(k) /\ SameLayers(k)
  <2>1. CASE \E r \in swept : r[1] = k
    BY <1>1, <2>1 DEF SameRows, SameLayers
  <2>2. CASE ~\E r \in swept : r[1] = k
    <3>1. \A layer \in Layer, i \in 1..MaxPoints : <<k, layer, i>> \notin swept
      BY <2>2
    <3> QED BY <1>1, <3>1 DEF SameRows, SameLayers
  <2> QED BY <2>1, <2>2
<1>5. CatchmentTypeOK'
  BY <1>1, <1>2, <1>3 DEF CatchmentIInv, CatchmentTypeOK, JobGoes, JobChanged, CausesAreAdded
<1>6. /\ job'[j].pc = "drop" /\ job'[j].layer = job[j].layer /\ job'[j].kind = job[j].kind
      /\ cause[j] \subseteq cause'[j] /\ SameRows(j) /\ job[j].layer \in Layer /\ "area" \in Layer
  BY <1>2, <1>3, <1>4, KindFacts DEF JobGoes, JobChanged, CausesAreAdded, CatchmentIInv
<1>7. Stage(j)'
  <2>1. Control(j)'
    BY <1>1, <1>6 DEF Stage, Control, WantsPoints, Asking
  <2>2. HasRows(j)'
    BY <1>1, <1>6 DEF Stage, HasRows, WantsPoints, HasRowsOf, SameRows, Asking, Making, Measured, Simple
  <2>3. MadeOnce(j)'
    BY <1>1, <1>6 DEF Stage, MadeOnce, Simple, WantsPoints, Asking
  <2>4. InProject(j)'
    BY <1>1, <1>6 DEF Stage, InProject, Making
  <2>5. HasCause(j)'
    BY <1>1, <1>6 DEF Stage, HasCause
  <2> QED BY <2>1, <2>2, <2>3, <2>4, <2>5 DEF Stage
<1> QED BY <1>1, <1>2, <1>3, <1>4, <1>5, <1>7, OthersStand DEF JobGoes

LEMMA delete_created_layersInv ==
  ASSUME CatchmentIInv, NEW j \in Runs, delete_created_layers(j) PROVE CatchmentIInv'
<1>1. /\ job[j].pc = "drop" /\ Move(j, "failed") /\ Stage(j)
      /\ layers' = {l \in layers : l[1] # j} /\ linked' = {l \in linked : l[1] # j}
      /\ UNCHANGED <<stored, service, projectThere, cause>>
  BY DEF delete_created_layers, At, CatchmentIInv
<1>2. JobGoes(j, "failed")
  BY <1>1, MovesAlone DEF CatchmentIInv, PCs
<1>3. /\ \A k \in Runs \ {j} : SameRows(k) /\ SameLayers(k)
      /\ \A layer : <<j, layer>> \notin layers'
  BY <1>1 DEF SameRows, SameLayers
<1>4. CatchmentTypeOK' /\ CausesAreAdded
  BY <1>1, <1>2 DEF CatchmentIInv, CatchmentTypeOK, JobGoes, JobChanged, CausesAreAdded
<1>5. /\ job'[j].pc = "failed" /\ job'[j].layer = job[j].layer /\ job'[j].kind = job[j].kind
  BY <1>2 DEF JobGoes, JobChanged
<1>6. Stage(j)'
  <2>1. Control(j)'
    BY <1>1, <1>5 DEF Stage, Control, WantsPoints, Asking
  <2>2. HasRows(j)'
    BY <1>1, <1>5 DEF Stage, HasRows, WantsPoints, HasRowsOf, Asking, Making, Measured, Simple
  <2>3. MadeOnce(j)'
    BY <1>1, <1>3, <1>5 DEF Stage, MadeOnce, Simple, WantsPoints, Asking
  <2>4. InProject(j)'
    BY <1>1, <1>5 DEF Stage, InProject, Making
  <2>5. HasCause(j)'
    BY <1>1, <1>5 DEF Stage, HasCause
  <2> QED BY <2>1, <2>2, <2>3, <2>4, <2>5 DEF Stage
<1> QED BY <1>1, <1>2, <1>3, <1>4, <1>6, OthersStand DEF JobGoes

LEMMA DeleteProjectInv == ASSUME CatchmentIInv, DeleteProject PROVE CatchmentIInv'
<1>1. /\ cause' = [j \in Runs |-> cause[j] \cup {"project"}] /\ projectThere' = FALSE /\ linked' = {}
      /\ UNCHANGED <<job, stored, layers, service>>
  BY DEF DeleteProject
<1>2. CatchmentTypeOK' /\ ProjectTold'
  BY <1>1 DEF CatchmentIInv, CatchmentTypeOK, ProjectTold, Causes
<1>3. ASSUME NEW k \in Runs PROVE Stage(k)'
  BY <1>1, Bystander DEF SameRows, SameLayers
<1> QED BY <1>2, <1>3 DEF CatchmentIInv

LEMMA CatchmentNextInv == ASSUME CatchmentIInv, [CatchmentNext]_catchmentVars PROVE CatchmentIInv'
<1>1. CASE DeleteProject
  BY <1>1, DeleteProjectInv
<1>2. ASSUME NEW j \in Runs,
             \/ get_lats_lons(j) \/ CheckGeofence(j) \/ SavePoints(j) \/ ReadPoints(j)
             \/ call_routing_endpoint(j) \/ ask_r5(j) \/ Refused(j)
             \/ ServiceWrites(j) \/ write_catchment_area_result(j)
             \/ Measure(j) \/ CreateLayer(j) \/ LinkLayer(j) \/ Next_layer(j)
             \/ TimeOut(j) \/ delete_orphan_data(j) \/ delete_created_layers(j)
      PROVE  CatchmentIInv'
  BY <1>2, get_lats_lonsInv, CheckGeofenceInv, SavePointsInv, ReadPointsInv, call_routing_endpointInv,
     ask_r5Inv, RefusedInv, ServiceWritesInv, write_catchment_area_resultInv, MeasureInv, CreateLayerInv,
     LinkLayerInv, Next_layerInv, TimeOutInv, delete_orphan_dataInv, delete_created_layersInv, Zenon
<1>3. CASE UNCHANGED catchmentVars
  <2>1. UNCHANGED <<job, stored, layers, linked, service, projectThere, cause>>
    BY <1>3 DEF catchmentVars
  <2>2. CatchmentTypeOK' /\ ProjectTold'
    BY <2>1 DEF CatchmentIInv, CatchmentTypeOK, ProjectTold
  <2>3. ASSUME NEW k \in Runs PROVE Stage(k)'
    BY <2>1, Bystander DEF SameRows, SameLayers
  <2> QED BY <2>2, <2>3 DEF CatchmentIInv
<1> QED BY <1>1, <1>2, <1>3 DEF CatchmentNext

-----------------------------------------------------------------------------
(* Where a job is fits what it has stored, made and linked, up to the      *)
(* causes recorded for it, in every reachable state.                       *)
THEOREM CatchmentInvariance == CatchmentSpec => []CatchmentIInv
BY CatchmentInitInv, CatchmentNextInv, PTL DEF CatchmentSpec

(* Every variable keeps its type: in particular the starting points that a *)
(* job counts down, and every linked layer is one.                         *)
THEOREM CatchmentTypeCorrect == CatchmentSpec => []CatchmentTypeOK
BY CatchmentInvariance, PTL DEF CatchmentIInv

(* A job fails only of a cause, except for PT areas of several points and  *)
(* PT areas that are to be grids.                                          *)
THEOREM FailuresHaveCauses == CatchmentSpec => []OnlyAccidentsFail
<1>1. ASSUME CatchmentIInv PROVE OnlyAccidentsFail
  <2> SUFFICES ASSUME NEW j \in Runs, At(j, "clean"), cause[j] = {}
               PROVE  job[j].kind.mode = "pt" /\ (job[j].kind.points > 1 \/ job[j].kind.type = "grid")
    BY DEF OnlyAccidentsFail
  <2>1. ~Simple(j)
    BY <1>1 DEF CatchmentIInv, Stage, HasCause, At
  <2> QED BY <1>1, <2>1, KindFacts DEF CatchmentIInv, Simple
<1> QED BY <1>1, CatchmentInvariance, PTL

(* A finished catchment area has its layers in the project and their data, *)
(* however many jobs, sweeps and late answers of the service interleave.   *)
THEOREM FinishedIsWhole == CatchmentSpec => []FinishedCatchmentIsWhole
<1>1. ASSUME CatchmentIInv PROVE FinishedCatchmentIsWhole
  <2> SUFFICES ASSUME NEW j \in Runs, job[j].pc = "done", job[j].kind.points > 0,
                      "swept" \notin cause[j], "project" \notin cause[j],
                      NEW wanted, wanted = {"area"} \cup (IF WantsPoints(j) THEN {"points"} ELSE {})
               PROVE  /\ {l[2] : l \in {k \in linked : k[1] = j}} = wanted
                      /\ \A l \in wanted : HasExtent(j, l)
                      /\ WantsPoints(j) => Cardinality(Own(j, "points")) = job[j].kind.points
    BY DEF FinishedCatchmentIsWhole, At
  <2>1. Stage(j) /\ linked \subseteq layers /\ layers \subseteq Runs \X Layer /\ CatchmentTypeOK
    BY <1>1 DEF CatchmentIInv, CatchmentTypeOK
  <2>2. /\ <<j, "area">> \in linked
        /\ WantsPoints(j) => <<j, "points">> \in linked
        /\ <<j, "points">> \in linked => WantsPoints(j)
    BY <2>1 DEF Stage, InProject, MadeOnce, Control
  <2>3. HasRowsOf(j, "area") /\ (WantsPoints(j) => PointsStored(j))
    BY <2>1 DEF Stage, HasRows, Measured, Simple
  <2>4. {l[2] : l \in {k \in linked : k[1] = j}} = wanted
    <3>1. \A l \in linked : l[1] = j => l = <<j, l[2]>> /\ l[2] \in {"area", "points"}
      BY <2>1 DEF Layer
    <3> QED BY <2>2, <3>1
  <2>5. WantsPoints(j) => HasRowsOf(j, "points") /\ Cardinality(Own(j, "points")) = job[j].kind.points
    <3>1. WantsPoints(j) => 1 <= job[j].kind.points /\ 1 \in 1..MaxPoints
      BY <2>1, KindFacts, CatchmentAssumption
    <3> QED BY <2>1, <2>3, <3>1, OwnIsCounted DEF PointsStored, HasRowsOf
  <2>6. \A l \in wanted : HasExtent(j, l)
    BY <2>1, <2>3, <2>5, OwnRows DEF Layer
  <2> QED BY <2>4, <2>5, <2>6
<1> QED BY <1>1, CatchmentInvariance, PTL

=============================================================================
