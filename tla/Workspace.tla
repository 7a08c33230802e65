----------------------------- MODULE Workspace ------------------------------
(***************************************************************************)
(* A user's workspace: the tables that hold the user's data, the folders,  *)
(* the projects with the view each opens with, and the public copies of    *)
(* projects (user.py, folder.py and project.py of the endpoints with their *)
(* cruds, and the triggers on accounts.user).                              *)
(*                                                                         *)
(* Every statement commits on its own; a request that awaits between two   *)
(* statements can be overtaken there, or die there.  Contents of a project *)
(* are a version number.  One project suffices: nothing relates two.       *)
(***************************************************************************)
EXTENDS Naturals, FiniteSets, Sequences

CONSTANTS Calls,            \* requests, each names the folder it creates
          TableTypes,       \* sequence: the tables of a user, in order
          MAX_FOLDER_COUNT,
          MaxVersion,       \* bound: edits of the project
          Home              \* the name of the folder every user has

(* The home folder is one more than a request may name, and fits the limit *)
(* beside a folder that was counted before it was there.                   *)
ASSUME WorkspaceAssumption ==
  /\ TableTypes \in Seq(STRING)
  /\ MAX_FOLDER_COUNT \in Nat /\ MAX_FOLDER_COUNT >= 2
  /\ MaxVersion \in Nat
  /\ Home \notin Calls

VARIABLES account,      \* the row of accounts.user exists
          tables,       \* type -> "none", "bare" (no trigger yet), "ready"
          folders,      \* names; unique for a user
          project,      \* "none", "bare" (no user_project link yet), "open"
          version,      \* of the project's contents
          publics,      \* rows of project_public: [by, version]
          call,         \* the requests in progress
          asked,        \* history: somebody asked to drop the tables
          uncounted,    \* history: a folder was added that no count saw
          crossed,      \* history: two publications ran at the same time
          promised      \* history: versions the public copy may show now

workspaceVars == <<account, tables, folders, project, version, publics, call,
                   asked, uncounted, crossed, promised>>

Types == {TableTypes[i] : i \in DOMAIN TableTypes}

Public == [by: Calls, version: 0..MaxVersion]

NoRow == [by |-> "nobody", version |-> 0]

CallLabels == {"idle", "exists", "create", "index", "home", "drop", "folder", "link",
               "read", "add", "replace", "unpublish", "ok", "failed", "torn"}

CallState == [pc: CallLabels,
              at: 1..(Len(TableTypes) + 1),
              version: 0..MaxVersion,
              old: SUBSET Public]

WorkspaceInit ==
  /\ account = FALSE
  /\ tables = [t \in Types |-> "none"]
  /\ folders = {} /\ project = "none" /\ version = 0 /\ publics = {}
  /\ call = [c \in Calls |-> [pc |-> "idle", at |-> 1, version |-> 0, old |-> {}]]
  /\ asked = FALSE /\ uncounted = FALSE /\ crossed = FALSE /\ promised = {}

Step(c, from, to) == call[c].pc = from /\ call' = [call EXCEPT ![c].pc = to]

Busy(c) == call[c].pc \notin {"idle", "ok", "failed", "torn"}

Table(c) == TableTypes[call[c].at]

Next_table(c, label) ==
  call' = [call EXCEPT ![c].pc = label, ![c].at = @ + 1]

userVars == <<account, tables, asked>>
folderVars == <<folders, uncounted>>
projectVars == <<project, version, publics, crossed, promised>>

-----------------------------------------------------------------------------
(* The triggers on accounts.user: one transaction with the row itself.  A  *)
(* table that exists already is passed over, its trigger and indices too.  *)
CreateAccount ==
  /\ ~account
  /\ account' = TRUE
  /\ tables' = [t \in Types |-> IF tables[t] = "none" THEN "ready" ELSE tables[t]]
  /\ folders' = {Home}
  /\ UNCHANGED <<asked, uncounted, projectVars, call>>

DeleteAccount ==
  /\ account
  /\ account' = FALSE /\ asked' = TRUE
  /\ tables' = [t \in Types |-> "none"]
  /\ folders' = {} /\ project' = "none" /\ publics' = {} /\ promised' = {}
  /\ UNCHANGED <<uncounted, version, crossed, call>>

(* POST /user/data-schema: each table is looked up, created, and then      *)
(* given its trigger and indices.                                          *)
create_user_base_data(c) ==
  Step(c, "idle", "exists") /\ UNCHANGED <<userVars, folderVars, projectVars>>

TableExists(c) ==
  /\ call[c].pc = "exists" /\ call[c].at <= Len(TableTypes)
  /\ IF tables[Table(c)] = "none"
     THEN call' = [call EXCEPT ![c].pc = "create"]
     ELSE Next_table(c, "exists")
  /\ UNCHANGED <<userVars, folderVars, projectVars>>

CreateTable(c) ==
  /\ call[c].pc = "create"
  /\ IF tables[Table(c)] = "none"
     THEN /\ tables' = [tables EXCEPT ![Table(c)] = "bare"]
          /\ call' = [call EXCEPT ![c].pc = "index"]
     ELSE call' = [call EXCEPT ![c].pc = "failed"] /\ UNCHANGED tables
  /\ UNCHANGED <<account, asked, folderVars, projectVars>>

IndexTable(c) ==
  /\ call[c].pc = "index"
  /\ IF tables[Table(c)] = "none"
     THEN call' = [call EXCEPT ![c].pc = "failed"] /\ UNCHANGED tables
     ELSE /\ tables' = [tables EXCEPT ![Table(c)] = "ready"]
          /\ Next_table(c, "exists")
  /\ UNCHANGED <<account, asked, folderVars, projectVars>>

TablesDone(c) ==
  /\ call[c].at > Len(TableTypes) /\ Step(c, "exists", "home")
  /\ UNCHANGED <<userVars, folderVars, projectVars>>

(* Mutant: the except branch drops the tables, as it means to. *)
CreateHomeOrDrop(c) ==
  /\ call[c].pc = "home"
  /\ IF account /\ Home \notin folders
     THEN /\ folders' = folders \cup {Home} /\ uncounted' = TRUE
          /\ call' = [call EXCEPT ![c].pc = "ok"] /\ UNCHANGED tables
     ELSE /\ tables' = [t \in Types |-> "none"]
          /\ call' = [call EXCEPT ![c].pc = "failed"] /\ UNCHANGED folderVars
  /\ UNCHANGED <<account, asked, projectVars>>

(* The home folder is refused when there is one, or no user.  The except   *)
(* branch means to drop the tables then, but the failed flush has left the *)
(* session unusable, and its first query raises: nothing is dropped.       *)
CreateHome(c) ==
  /\ call[c].pc = "home"
  /\ IF account /\ Home \notin folders
     THEN /\ folders' = folders \cup {Home} /\ uncounted' = TRUE
          /\ call' = [call EXCEPT ![c].pc = "ok"]
     ELSE call' = [call EXCEPT ![c].pc = "failed"] /\ UNCHANGED folderVars
  /\ UNCHANGED <<userVars, projectVars>>

(* DELETE /user/data-schema drops the tables one after the other; the user *)
(* and everything else of theirs stays.                                    *)
delete_user(c) ==
  /\ account /\ Step(c, "idle", "drop") /\ asked' = TRUE
  /\ UNCHANGED <<account, tables, folderVars, projectVars>>

DropTable(c) ==
  /\ call[c].pc = "drop" /\ call[c].at <= Len(TableTypes)
  /\ tables' = [tables EXCEPT ![Table(c)] = "none"]
  /\ Next_table(c, IF call[c].at = Len(TableTypes) THEN "ok" ELSE "drop")
  /\ UNCHANGED <<account, asked, folderVars, projectVars>>

-----------------------------------------------------------------------------
(* POST /folder: the folders are counted, then one is added. *)
Counted(c) == call[c].pc = "folder"

(* Mutant: one folder too many. *)
create_folder_off_by_one(c) ==
  /\ account
  /\ Step(c, "idle", IF Cardinality(folders) > MAX_FOLDER_COUNT
                     THEN "failed" ELSE "folder")
  /\ uncounted' = (uncounted \/ \E d \in Calls : Counted(d))
  /\ UNCHANGED <<folders, userVars, projectVars>>

create_folder(c) ==
  /\ account
  /\ Step(c, "idle", IF Cardinality(folders) >= MAX_FOLDER_COUNT
                     THEN "failed" ELSE "folder")
  /\ uncounted' = (uncounted \/ \E d \in Calls : Counted(d))
  /\ UNCHANGED <<folders, userVars, projectVars>>

AddFolder(c) ==
  /\ IF account /\ c \notin folders
     THEN Step(c, "folder", "ok") /\ folders' = folders \cup {c}
     ELSE Step(c, "folder", "failed") /\ UNCHANGED folders
  /\ UNCHANGED <<uncounted, userVars, projectVars>>

(* PUT /folder/{id}: a new name, refused when another folder has it. *)
update_folder(c) ==
  /\ \E old \in folders :
       IF c \in folders
       THEN Step(c, "idle", "failed") /\ UNCHANGED folders
       ELSE /\ Step(c, "idle", "ok")
            /\ folders' = (folders \ {old}) \cup {c}
  /\ UNCHANGED <<uncounted, userVars, projectVars>>

(* DELETE /folder/{id}; UserData has what becomes of the layers in it. *)
delete_folder(c) ==
  /\ \E old \in folders : folders' = folders \ {old}
  /\ Step(c, "idle", "ok")
  /\ UNCHANGED <<uncounted, userVars, projectVars>>

-----------------------------------------------------------------------------
(* POST /project: the project, then the link that holds its first view. *)
create_project(c) ==
  /\ account /\ project = "none" /\ Step(c, "idle", "link")
  /\ project' = "bare"
  /\ UNCHANGED <<version, publics, crossed, promised, userVars, folderVars>>

LinkUserProject(c) ==
  /\ IF project = "bare"
     THEN Step(c, "link", "ok") /\ project' = "open"
     ELSE Step(c, "link", "failed") /\ UNCHANGED project
  /\ UNCHANGED <<version, publics, crossed, promised, userVars, folderVars>>

(* PUT /project/{id} and PUT /project/{id}/initial-view-state. *)
update_project ==
  /\ project # "none" /\ version < MaxVersion
  /\ version' = version + 1
  /\ UNCHANGED <<project, publics, crossed, promised, userVars, folderVars, call>>

delete_project(c) ==
  /\ project # "none" /\ Step(c, "idle", "ok")
  /\ project' = "none" /\ publics' = {} /\ promised' = {}
  /\ UNCHANGED <<version, crossed, userVars, folderVars>>

(* POST /project/{id}/publish reads the project, its public row and its    *)
(* view; the flush at the end inserts the new row, then deletes the old.   *)
Publishing(c) == call[c].pc \in {"read", "add", "replace", "unpublish"}

publish_project(c) ==
  /\ project # "none" /\ Step(c, "idle", "read")
  /\ crossed' = (crossed \/ \E d \in Calls : Publishing(d))
  /\ UNCHANGED <<project, version, publics, promised, userVars, folderVars>>

(* first() of the rows: any one of them. *)
FirstPublic == IF publics = {} THEN {{}} ELSE {{p} : p \in publics}

ReadProject(c) ==
  /\ call[c].pc = "read"
  /\ \E old \in FirstPublic :
       call' = [call EXCEPT ![c].pc = IF project = "open" THEN "add" ELSE "failed",
                            ![c].version = version, ![c].old = old]
  /\ UNCHANGED <<projectVars, userVars, folderVars>>

AddPublic(c) ==
  /\ LET new == [by |-> c, version |-> call[c].version]
     IN IF project = "none"
        THEN Step(c, "add", "failed") /\ UNCHANGED <<publics, promised>>
        ELSE /\ Step(c, "add", "replace")
             /\ publics' = publics \cup {new}
             /\ promised' = {new.version} \cup {p.version : p \in call[c].old}
  /\ UNCHANGED <<project, version, crossed, userVars, folderVars>>

(* Mutant: the old public copy stays. *)
ReplaceNothing(c) ==
  /\ Step(c, "replace", "ok")
  /\ promised' = {call[c].version} \cap {p.version : p \in publics}
  /\ UNCHANGED <<project, version, publics, crossed, userVars, folderVars>>

ReplacePublic(c) ==
  /\ Step(c, "replace", "ok")
  /\ publics' = publics \ call[c].old
  /\ promised' = {call[c].version} \cap {p.version : p \in publics}
  /\ UNCHANGED <<project, version, crossed, userVars, folderVars>>

(* DELETE /project/{id}/unpublish deletes the row it finds first. *)
unpublish_project(c) ==
  /\ crossed' = (crossed \/ \E d \in Calls : Publishing(d))
  /\ \E old \in FirstPublic :
       IF old = {} THEN Step(c, "idle", "failed")
       ELSE /\ call[c].pc = "idle"
            /\ call' = [call EXCEPT ![c].pc = "unpublish", ![c].old = old]
  /\ UNCHANGED <<project, version, publics, promised, userVars, folderVars>>

RemovePublic(c) ==
  /\ Step(c, "unpublish", "ok")
  /\ publics' = publics \ call[c].old
  /\ promised' = {}
  /\ UNCHANGED <<project, version, crossed, userVars, folderVars>>

(* The process dies, or the client goes away: the request ends where it is, *)
(* "torn" when that is between a table and its trigger and indices.         *)
Die(c) ==
  /\ Busy(c)
  /\ call' = [call EXCEPT ![c].pc = IF @ = "index" THEN "torn" ELSE "failed"]
  /\ UNCHANGED <<userVars, folderVars, projectVars>>

WorkspaceNext ==
  \/ CreateAccount \/ DeleteAccount \/ update_project
  \/ \E c \in Calls :
       \/ create_user_base_data(c) \/ TableExists(c) \/ CreateTable(c)
       \/ IndexTable(c) \/ TablesDone(c) \/ CreateHome(c)
       \/ delete_user(c) \/ DropTable(c)
       \/ create_folder(c) \/ AddFolder(c) \/ update_folder(c) \/ delete_folder(c)
       \/ create_project(c) \/ LinkUserProject(c) \/ delete_project(c)
       \/ publish_project(c) \/ ReadProject(c) \/ AddPublic(c) \/ ReplacePublic(c)
       \/ unpublish_project(c) \/ RemovePublic(c)
       \/ Die(c)

WorkspaceSpec == WorkspaceInit /\ [][WorkspaceNext]_workspaceVars

-----------------------------------------------------------------------------
WorkspaceTypeOK ==
  /\ account \in BOOLEAN /\ asked \in BOOLEAN /\ uncounted \in BOOLEAN
  /\ crossed \in BOOLEAN
  /\ tables \in [Types -> {"none", "bare", "ready"}]
  /\ folders \subseteq Calls \cup {Home} /\ project \in {"none", "bare", "open"}
  /\ version \in 0..MaxVersion /\ promised \subseteq 0..MaxVersion
  /\ publics \subseteq Public /\ call \in [Calls -> CallState]

(* The tables of a user are there from the day the account is made until   *)
(* somebody asks to drop them: repeating POST /user/data-schema, two at    *)
(* once, or one that dies half way, costs the user no table.  Each has its *)
(* trigger and indices too, but for the one that a POST made before the    *)
(* account: the account's trigger passes it over, so it waits for that     *)
(* POST, and stays bare when that POST died in between.                    *)
WorkspaceKeepsTables ==
  account /\ ~asked =>
    \A t \in Types :
      \/ tables[t] = "ready"
      \/ /\ tables[t] = "bare"
         /\ \E c \in Calls : call[c].pc \in {"index", "torn"} /\ Table(c) = t

(* Nobody has more folders than allowed, unless two requests counted them  *)
(* before either added one, or the home folder was made without counting.  *)
FolderLimit == ~uncounted => Cardinality(folders) <= MAX_FOLDER_COUNT

(* At rest a project has at most one public copy, and it is the one last   *)
(* published; none after it was unpublished.  Claimed unless publications  *)
(* crossed (two publishes that found the same old row leave two new ones,  *)
(* and unpublishing then takes only one of them away) or one died between  *)
(* its two statements.                                                     *)
OnePublicCopy ==
  /\ ~crossed
  /\ \A c \in Calls : ~Publishing(c)
  /\ \A c \in Calls : call[c].pc = "failed" => call[c].old = {}
  => /\ {p.version : p \in publics} = promised
     /\ Cardinality(publics) <= 1
=============================================================================
