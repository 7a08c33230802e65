------------------------------ MODULE Sharing -------------------------------
(***************************************************************************)
(* The lists of projects and of layers: what a user owns, with whom it is  *)
(* shared, and what a team or an organization was given                    *)
(* (create_query_shared_content and build_shared_with_object in            *)
(* core/content.py, get_projects, get_layers_with_filter).                 *)
(*                                                                         *)
(* A content is [id, user, folder, catalog].  Links are [row, content, to, *)
(* role], to a team or to an organization; nothing makes a link unique.    *)
(***************************************************************************)
EXTENDS Naturals, FiniteSets

CONSTANTS Nobody,        \* SQL's NULL: no link, no role
          NotGiven       \* a parameter that was not given

(* A request is [user, folder, team, organization, catalog].  The folder   *)
(* is ignored for teams and organizations, and so is the user.             *)
Filtered(contents, r) ==
  {c \in contents :
     /\ r.team = NotGiven /\ r.organization = NotGiven =>
          c.user = r.user /\ r.folder \in {NotGiven, c.folder}
     /\ r.catalog \in {NotGiven, c.catalog}}

NoLink == [row |-> 0, content |-> Nobody, to |-> Nobody, role |-> Nobody]

(* Mutant: what is shared with nobody is left out. *)
InnerJoined(c, links) == {l \in links : l.content = c.id}

OuterJoined(c, links) ==
  LET own == {l \in links : l.content = c.id} IN IF own = {} THEN {NoLink} ELSE own

(* The rows of the query, <<content, link to a team, to an organization>>. *)
create_query_shared_content(contents, teams, organizations, r) ==
  LET chosen == Filtered(contents, r)
  IN IF r.team # NotGiven
     THEN {<<x[1], x[2], NoLink>> : x \in
             {y \in chosen \X teams : y[2].content = y[1].id /\ y[2].to = r.team}}
     ELSE IF r.organization # NotGiven
     THEN {<<x[1], NoLink, x[2]>> : x \in
             {y \in chosen \X organizations :
                y[2].content = y[1].id /\ y[2].to = r.organization}}
     ELSE UNION {{c} \X OuterJoined(c, teams) \X OuterJoined(c, organizations) : c \in chosen}

(* The role is that of the link to an organization only for a list of one. *)
RoleOf(row, r) == IF r.organization # NotGiven /\ r.team = NotGiven THEN row[3].role ELSE row[2].role

With_whom(links) == {[to |-> l.to, role |-> l.role] : l \in links}

(* Rows that show the same are one item.  A list of a user names all the   *)
(* teams and organizations, loaded for themselves; that of a team or of an *)
(* organization, the owner in its place: the columns are those of the      *)
(* owner.                                                                  *)
build_shared_with_object(rows, teams, organizations, r) ==
  LET given(row, links, kind) ==
        IF r.team = NotGiven /\ r.organization = NotGiven
        THEN With_whom({l \in links : l.content = row[1].id})
        ELSE IF kind THEN {[to |-> row[1].user, role |-> RoleOf(row, r)]}
        ELSE {}
  IN {[content |-> row[1].id, owned_by |-> row[1].user, role |-> RoleOf(row, r),
       teams |-> given(row, teams, r.team # NotGiven),
       organizations |-> given(row, organizations, r.team = NotGiven)] : row \in rows}

get_contents(contents, teams, organizations, r) ==
  LET rows == create_query_shared_content(contents, teams, organizations, r)
  IN [items |-> build_shared_with_object(rows, teams, organizations, r),
      total |-> Cardinality(rows)]

-----------------------------------------------------------------------------
(* A user is shown what they own, in the folder asked for, with every team *)
(* and organization it is shared with and the role given to each, whatever *)
(* else is shared with whom; each once unless teams have it in different   *)
(* roles, and counted once unless it is shared with several.  A team or an *)
(* organization is shown what it was given, with its role, by whomever.    *)
(* (With whom the content is shared is not claimed: the owner is named.)    *)
SharedListsAreExact(contents, teams, organizations, r) ==
  LET list == get_contents(contents, teams, organizations, r)
      wanted == {c \in contents : r.catalog \in {NotGiven, c.catalog}}
      to(c, links) == {l \in links : l.content = c.id}
      roles(c) == {l.role : l \in to(c, teams)}
      mine == {c \in wanted : c.user = r.user /\ (r.folder = NotGiven \/ c.folder = r.folder)}
      given == {x \in wanted \X (IF r.team # NotGiven THEN teams ELSE organizations) :
                  /\ x[2].content = x[1].id
                  /\ x[2].to = IF r.team # NotGiven THEN r.team ELSE r.organization}
  IN IF r.team = NotGiven /\ r.organization = NotGiven
     THEN /\ {<<i.content, i.owned_by, i.teams, i.organizations>> : i \in list.items}
               = {<<c.id, c.user, With_whom(to(c, teams)), With_whom(to(c, organizations))>> :
                    c \in mine}
          /\ \A c \in mine : Cardinality(roles(c)) <= 1 =>
               Cardinality({i \in list.items : i.content = c.id}) = 1
          /\ (\A c \in mine : Cardinality(to(c, teams)) <= 1 /\ Cardinality(to(c, organizations)) <= 1)
               => list.total = Cardinality(mine)
     ELSE /\ {<<i.content, i.owned_by, i.role>> : i \in list.items}
               = {<<x[1].id, x[1].user, x[2].role>> : x \in given}
          /\ list.total = Cardinality(given)
=============================================================================
