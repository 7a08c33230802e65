------------------------------- MODULE Files --------------------------------
(***************************************************************************)
(* The files under DATA_DIR: uploads (FileUpload in core/layer.py), their  *)
(* import, exports (CRUDLayerExport, export_ogr2ogr), and delete_old_files, *)
(* which every upload and export starts with and which removes the folders  *)
(* of users that did not change for two hours.                             *)
(*                                                                         *)
(* Every action is what happens on disk between two awaits, or in one      *)
(* thread; removing a tree and zipping one are taken as one step.  Paths:  *)
(*    <<user>>                       the user's home                       *)
(*    <<user, dataset>>              an upload, with "file" and "metadata" *)
(*    <<user, layer, name>>          an export, with "data" and "metadata" *)
(*    <<user, name>>                 the zip of an export                  *)
(* A file has the set of its pieces, <<what, of which call>>; a zip those  *)
(* of the files it was made of.                                            *)
(***************************************************************************)
EXTENDS Naturals, FiniteSets, Sequences, SequencesExt

CONSTANTS Clients,        \* the requests; an upload is also its dataset
          Users,
          LayerIds,     \* the layers a user exports
          FileNames,    \* what the user names an export
          MaxNew        \* bound: uploads and exports in a behaviour

(* Ids of layers and datasets differ, and a zip has an ending of its own.  *)
ASSUME FilesAssumption ==
  /\ LayerIds \cap Clients = {} /\ FileNames \cap (LayerIds \cup Clients) = {}
  /\ Users # {} /\ LayerIds # {} /\ FileNames # {} /\ MaxNew \in Nat

VARIABLES disk,         \* path -> pieces of the file, for what exists
          aged,         \* users whose home did not change for two hours
          client,       \* the requests
          met,          \* history: the calls each ran together with
          unsettled,    \* history: a home went or came by another's doing
          waited        \* history: the user's home was aged meanwhile

filesVars == <<disk, aged, client, met, unsettled, waited>>

Kinds == {"upload", "import", "export"}

RunningAt == {"sweep", "expel", "home", "make home", "make", "make inner", "write",
              "validate", "metadata", "zip", "remove", "send", "read", "drop", "clean"}

Waiting == [pc |-> "idle", kind |-> "upload", user |-> CHOOSE u \in Users : TRUE,
            folder |-> CHOOSE x \in LayerIds : TRUE, name |-> CHOOSE n \in FileNames : TRUE,
            listed |-> {}, victim |-> {}, why |-> "", answer |-> {}]

FilesInit ==
  /\ disk = <<>> /\ aged = {}
  /\ client = [q \in Clients |-> Waiting]
  /\ met = [q \in Clients |-> {}]
  /\ unsettled = {} /\ waited = {}

Running == {q \in Clients : client[q].pc \in RunningAt}

Is(q, kind, pc) == client[q].kind \in kind /\ client[q].pc = pc

HomeOf(q) == <<client[q].user>>
FolderOf(q) == <<client[q].user, client[q].folder>>
Inner(q) == Append(FolderOf(q), client[q].name)
ZipOf(q) == <<client[q].user, client[q].name>>

Exists(path) == path \in DOMAIN disk

-----------------------------------------------------------------------------
(* A home is as old as the last change of its own entries.                 *)
Entries(d, u) == {path \in DOMAIN d : Len(path) = 2 /\ path[1] = u}

Stored(d) ==
  /\ disk' = d
  /\ aged' = {u \in aged : <<u>> \in DOMAIN d /\ Entries(d, u) = Entries(disk, u)}

Without_tree(path) ==
  [p \in {r \in DOMAIN disk : ~IsPrefix(path, r)} |-> disk[p]]

async_delete_dir(path) == Stored(Without_tree(path))

WithFile(path, pieces) == [p \in DOMAIN disk \cup {path} |-> IF p = path THEN pieces ELSE disk[p]]

To(q, pc) == client' = [client EXCEPT ![q].pc = pc]

(* An upload that fails removes its folder, and so does an import; an      *)
(* export leaves it to the next one.                                       *)
GivesUp(q, why) ==
  client' = [client EXCEPT ![q].why = why, ![q].listed = {}, ![q].victim = {},
                           ![q].pc = IF client[q].kind = "export" THEN "failed" ELSE "clean"]

Breaks(q) == GivesUp(q, "broken") /\ UNCHANGED <<disk, aged>>

CleanUp(q) ==
  /\ client[q].pc = "clean"
  /\ async_delete_dir(FolderOf(q)) /\ To(q, "failed")
  /\ UNCHANGED <<met, unsettled, waited>>

-----------------------------------------------------------------------------
(* Uploads and exports list the homes first.                               *)
Begin(q, kind, user, folder, name) ==
  /\ client[q].pc = "idle"
  /\ client' = [client EXCEPT ![q].kind = kind, ![q].user = user, ![q].folder = folder,
                              ![q].name = name,
                              ![q].pc = IF kind = "import" THEN "read" ELSE "sweep",
                              ![q].listed = IF kind = "import" THEN {}
                                            ELSE {u \in Users : Exists(<<u>>)}]
  /\ met' = [r \in Clients |-> IF r = q THEN Running
                             ELSE IF r \in Running THEN met[r] \cup {q} ELSE met[r]]
  /\ UNCHANGED <<disk, aged, unsettled, waited>>

MoreMayCome ==
  Cardinality({q \in Clients : client[q].pc # "idle" /\ client[q].kind # "import"}) < MaxNew

upload_file(q) == MoreMayCome /\ \E u \in Users : Begin(q, "upload", u, q, Waiting.name)

export_layer(q) ==
  MoreMayCome /\ \E u \in Users, x \in LayerIds, n \in FileNames : Begin(q, "export", u, x, n)

(* Of a dataset that was answered for; a dataset that is gone is a 404.    *)
create_layer_from_dataset(q) ==
  \E d \in Clients :
    /\ Is(d, {"upload"}, "done")
    /\ IF Exists(Append(FolderOf(d), "metadata"))
       THEN Begin(q, "import", client[d].user, d, Waiting.name)
       ELSE /\ client[q].pc = "idle"
            /\ client' = [client EXCEPT ![q].kind = "import", ![q].user = client[d].user,
                            ![q].folder = d, ![q].pc = "failed", ![q].why = "gone"]
            /\ UNCHANGED <<disk, aged, met, unsettled, waited>>

-----------------------------------------------------------------------------
(* Mutant: the age is not looked at. *)
AnyHome(u) == TRUE

Old_enough(u) == u \in aged

(* stat fails for a home that went since it was listed.                    *)
Look(q) ==
  /\ client[q].pc = "sweep"
  /\ \E u \in client[q].listed :
       IF Exists(<<u>>)
       THEN /\ client' = [client EXCEPT ![q].listed = @ \ {u},
                 ![q].victim = IF Old_enough(u) THEN {u} ELSE {},
                 ![q].pc = IF Old_enough(u) THEN "expel" ELSE "sweep"]
            /\ UNCHANGED <<disk, aged>>
       ELSE Breaks(q)
  /\ UNCHANGED <<met, unsettled, waited>>

(* Whoever uses this home, or has yet to look at it, notices.              *)
Expel(q) ==
  /\ client[q].pc = "expel"
  /\ client' = [client EXCEPT ![q].victim = {}, ![q].pc = "sweep"]
  /\ \E u \in client[q].victim :
       /\ async_delete_dir(<<u>>)
       /\ unsettled' = IF Exists(<<u>>)
                       THEN unsettled
                              \cup {r \in Running \ {q} : client[r].user = u \/ u \in client[r].listed}
                              \cup {r \in met[q] : client[r].kind = "upload" /\ client[r].user = u}
                       ELSE unsettled
  /\ UNCHANGED <<met, waited>>

(* Mutant: a folder that is there already is kept. *)
KeepFolder(path) == UNCHANGED <<disk, aged>>

ClearedFolder(path) == async_delete_dir(path)

ClearFolder(q) ==
  /\ client[q].pc = "sweep" /\ client[q].listed = {}
  /\ ClearedFolder(FolderOf(q)) /\ To(q, "home")
  /\ UNCHANGED <<met, unsettled, waited>>

FindHome(q) ==
  /\ client[q].pc = "home"
  /\ To(q, IF Exists(HomeOf(q)) THEN "make" ELSE "make home")
  /\ UNCHANGED <<disk, aged, met, unsettled, waited>>

(* mkdir *)
Makes(q, path, pc) ==
  IF Exists(Front(path)) /\ ~Exists(path)
  THEN Stored(WithFile(path, {})) /\ To(q, pc)
  ELSE Breaks(q)

MakeHome(q) ==
  /\ client[q].pc = "make home"
  /\ IF Exists(HomeOf(q)) THEN Breaks(q)
     ELSE Stored(WithFile(HomeOf(q), {})) /\ To(q, "make")
  /\ unsettled' = unsettled \cup {r \in Running \ {q} :
                    client[r].pc = "make home" /\ HomeOf(r) = HomeOf(q)}
  /\ UNCHANGED <<met, waited>>

MakeFolder(q) ==
  /\ client[q].pc = "make"
  /\ Makes(q, FolderOf(q), IF client[q].kind = "export" THEN "make inner" ELSE "write")
  /\ UNCHANGED <<met, unsettled, waited>>

-----------------------------------------------------------------------------
(* The file is saved, fetched from a service, or refused for what it is.   *)
fetch_and_write(q) ==
  /\ Is(q, {"upload"}, "write")
  /\ \/ IF Exists(FolderOf(q))
        THEN Stored(WithFile(Append(FolderOf(q), "file"), {<<"file", q>>})) /\ To(q, "validate")
        ELSE Breaks(q)
     \/ GivesUp(q, "own") /\ UNCHANGED <<disk, aged>>
  /\ UNCHANGED <<met, unsettled, waited>>

(* save_file gets 120 s.  validate never waits, so that it never times out. *)
TimeOutOfSave(q) ==
  /\ client[q].kind = "upload"
  /\ client[q].pc \in {"sweep", "expel", "home", "make home", "make", "write"}
  /\ GivesUp(q, "own")
  /\ UNCHANGED <<disk, aged, met, unsettled, waited>>

(* A file that is not valid is removed; one that validate raises for stays. *)
validate(q) ==
  /\ Is(q, {"upload"}, "validate")
  /\ \/ /\ Exists(Append(FolderOf(q), "file"))
        /\ \/ Stored(WithFile(Append(FolderOf(q), "metadata"), {<<"metadata", q>>})) /\ To(q, "done")
           \/ GivesUp(q, "own") /\ UNCHANGED <<disk, aged>>
     \/ /\ client' = [client EXCEPT ![q].pc = "failed",
              ![q].why = IF Exists(Append(FolderOf(q), "file")) THEN "raised" ELSE "broken"]
        /\ UNCHANGED <<disk, aged>>
  /\ UNCHANGED <<met, unsettled, waited>>

upload_ogr2ogr(q) ==
  /\ Is(q, {"import"}, "read")
  /\ \/ IF Exists(Append(FolderOf(q), "file"))
        THEN To(q, "drop") /\ UNCHANGED <<disk, aged>> ELSE Breaks(q)
     \/ GivesUp(q, "own") /\ UNCHANGED <<disk, aged>>
  /\ UNCHANGED <<met, unsettled, waited>>

DropUpload(q) ==
  /\ Is(q, {"import"}, "drop")
  /\ async_delete_dir(FolderOf(q)) /\ To(q, "done")
  /\ UNCHANGED <<met, unsettled, waited>>

-----------------------------------------------------------------------------
(* The layer may lie outside the coordinate system that is asked for.      *)
MakeInner(q) ==
  /\ Is(q, {"export"}, "make inner")
  /\ \/ Makes(q, Inner(q), "write")
     \/ /\ Exists(FolderOf(q)) /\ ~Exists(Inner(q))
        /\ Stored(WithFile(Inner(q), {})) /\ GivesUp(q, "own")
  /\ UNCHANGED <<met, unsettled, waited>>

(* ogr2ogr fails for reasons of its own, and in most formats for a file    *)
(* that is there.                                                          *)
export_ogr2ogr(q) ==
  /\ Is(q, {"export"}, "write")
  /\ \/ /\ Exists(Inner(q))
        /\ Stored(WithFile(Append(Inner(q), "data"), {<<"data", q>>})) /\ To(q, "metadata")
     \/ /\ ~Exists(Inner(q)) \/ Exists(Append(Inner(q), "data"))
        /\ Breaks(q)
     \/ GivesUp(q, "own") /\ UNCHANGED <<disk, aged>>
  /\ UNCHANGED <<met, unsettled, waited>>

create_metadata_file(q) ==
  /\ Is(q, {"export"}, "metadata")
  /\ IF Exists(Inner(q))
     THEN Stored(WithFile(Append(Inner(q), "metadata"), {<<"metadata", q>>})) /\ To(q, "zip")
     ELSE Breaks(q)
  /\ UNCHANGED <<met, unsettled, waited>>

(* What is in a folder, and nothing if there is no folder.                 *)
zip_directory(path) ==
  UNION {disk[p] : p \in {r \in DOMAIN disk : IsPrefix(path, r)}}

(* Mutant: the zip is opened to append. *)
AppendedZip(zip, path) ==
  zip_directory(path) \cup (IF Exists(zip) THEN disk[zip] ELSE {})

WrittenZip(zip, path) == zip_directory(path)

ZipFolder(q) ==
  /\ Is(q, {"export"}, "zip")
  /\ IF Exists(HomeOf(q))
     THEN Stored(WithFile(ZipOf(q), WrittenZip(ZipOf(q), Inner(q)))) /\ To(q, "remove")
     ELSE Breaks(q)
  /\ UNCHANGED <<met, unsettled, waited>>

RemoveFolder(q) ==
  /\ Is(q, {"export"}, "remove")
  /\ async_delete_dir(FolderOf(q)) /\ To(q, "send")
  /\ UNCHANGED <<met, unsettled, waited>>

SendZip(q) ==
  /\ Is(q, {"export"}, "send")
  /\ IF Exists(ZipOf(q))
     THEN client' = [client EXCEPT ![q].pc = "done", ![q].answer = disk[ZipOf(q)]]
     ELSE GivesUp(q, "broken")
  /\ UNCHANGED <<disk, aged, met, unsettled, waited>>

-----------------------------------------------------------------------------
(* Two hours pass, but not while an upload writes into the home: it gets   *)
(* 120 s for all it does.                                                  *)
Age(u) ==
  /\ Exists(<<u>>) /\ u \notin aged
  /\ ~\E q \in Running : client[q].kind = "upload" /\ client[q].user = u
                          /\ client[q].pc \in {"make", "write", "validate"}
  /\ aged' = aged \cup {u}
  /\ waited' = waited \cup {q \in Clients : client[q].pc # "idle" /\ client[q].user = u}
  /\ UNCHANGED <<disk, client, met, unsettled>>

(* The server stops: what is on disk stays.                                *)
Crash ==
  /\ Running # {}
  /\ client' = [q \in Clients |-> IF q \in Running
                   THEN [client[q] EXCEPT !.pc = "failed", !.why = "crash", !.listed = {}, !.victim = {}]
                   ELSE client[q]]
  /\ UNCHANGED <<disk, aged, met, unsettled, waited>>

FileStep(q) ==
  \/ upload_file(q) \/ create_layer_from_dataset(q) \/ export_layer(q)
  \/ Look(q) \/ Expel(q) \/ ClearFolder(q) \/ FindHome(q) \/ MakeHome(q) \/ MakeFolder(q)
  \/ fetch_and_write(q) \/ TimeOutOfSave(q) \/ validate(q)
  \/ upload_ogr2ogr(q) \/ DropUpload(q)
  \/ MakeInner(q) \/ export_ogr2ogr(q) \/ create_metadata_file(q) \/ ZipFolder(q)
  \/ RemoveFolder(q) \/ SendZip(q) \/ CleanUp(q)

FilesNext ==
  \/ \E q \in Clients : FileStep(q)
  \/ \E u \in Users : Age(u)
  \/ Crash

FilesSpec == FilesInit /\ [][FilesNext]_filesVars

-----------------------------------------------------------------------------
ClientState ==
  [pc: RunningAt \cup {"idle", "done", "failed"}, kind: Kinds, user: Users,
   folder: LayerIds \cup Clients, name: FileNames, listed: SUBSET Users, victim: SUBSET Users,
   why: {"", "own", "broken", "raised", "gone", "crash"},
   answer: SUBSET ({"data", "metadata"} \X Clients)]

(* DATA_DIR: every file is in a folder that exists, and every folder in    *)
(* the home of its user.                                                   *)
FilesTypeOK ==
  /\ client \in [Clients -> ClientState]
  /\ aged \subseteq {u \in Users : Exists(<<u>>)}
  /\ \A path \in DOMAIN disk : Len(path) > 1 => Exists(Front(path))

Broken(q) == client[q].pc = "failed" /\ client[q].why = "broken"

SameFolder(q, r) == client[r].kind = client[q].kind /\ FolderOf(r) = FolderOf(q)

(* save_file, export_file: a request that nobody meets is served or fails  *)
(* for a reason of its own, whatever earlier requests, a crash or old age  *)
(* left behind.  An upload or export breaks only if the home of its user   *)
(* (or one it was to look at) went or came by the doing of another, and an *)
(* export also if it met one of the same layer.                            *)
LoneRequestsAreServed ==
  \A q \in Clients :
    Broken(q) /\ client[q].kind # "import" =>
      \/ q \in unsettled
      \/ client[q].kind = "export" /\ \E r \in met[q] : SameFolder(q, r)

(* export_file: the zip has the data and the metadata of its own request,  *)
(* unless a request of the same layer or under the same file name came     *)
(* between; one that met only other layers is whole, if not its own.       *)
ExportHoldsItsLayer ==
  \A q \in Clients :
    LET whole(r) == {<<"data", r>>, <<"metadata", r>>}
        undisturbed(r) == r \notin unsettled /\ ~\E i \in met[r] : SameFolder(r, i)
        candidates == {q} \cup {r \in met[q] : client[r].kind = "export" /\ ZipOf(r) = ZipOf(q)}
    IN client[q].kind = "export" /\ client[q].pc = "done" /\ (\A r \in candidates : undisturbed(r))
       => \E r \in candidates : client[q].answer = whole(r)

(* An upload is gone only if imported, if its user was away for two hours, *)
(* or if it met a sweep that had looked before.                            *)
LostForACause(d, q) ==
  \/ \E r \in Clients \ {q} : SameFolder(q, r)
  \/ d \in waited \/ d \in unsettled

(* A folder nobody works in is that of an upload that waits, or of one who *)
(* failed without cleaning up: an export, an upload validate raised for.   *)
LeftForACause(folder) ==
  \E r \in Clients :
    /\ FolderOf(r) = folder
    /\ \/ r \in Running \/ client[r].why = "crash"
       \/ /\ client[r].kind = "upload" /\ client[r].pc = "done"
          /\ ~\E i \in Clients : client[i].kind = "import" /\ client[i].folder = r
       \/ client[r].pc = "failed" /\ (client[r].kind = "export" \/ client[r].why = "raised")

(* delete_old_files, save_file_fail, upload_ogr2ogr, export_file: folders  *)
(* last as long as they are needed.  An upload that was answered is there  *)
(* for its import, and none stays, but for a cause.                        *)
FoldersLastAsNeeded ==
  /\ \A q \in Clients :
       client[q].kind = "import" /\ (client[q].why = "gone" \/ Broken(q)) =>
         LostForACause(client[q].folder, q)
  /\ \A q \in Clients :
       client[q].pc # "idle" /\ Exists(FolderOf(q)) => LeftForACause(FolderOf(q))
=============================================================================
