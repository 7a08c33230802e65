------------------------- MODULE DatasetUpdateProofs -------------------------
(***************************************************************************)
(* Proofs about DatasetUpdate, for any updates, imports, layers and links. *)
(***************************************************************************)
EXTENDS DatasetUpdate, FiniteSetTheorems, SequenceTheorems, TLAPS

Unborn == {"idle", "migrate", "name", "create"}

\* A job makes its layer once, and nobody can have asked to delete or update it before.
NotYetMade(j) ==
  pc[j] \in Unborn =>
    /\ j \notin layers
    /\ \A w \in Deleters : pc[w] # "idle" => target[w] # j
    /\ pc[j] \in {"name", "create"} => j \in data \cup skipped \cup swept

\* A started update or deletion works on a layer, and not on the one it makes.
HasTarget(w) == pc[w] # "idle" => target[w] \in Layers /\ target[w] # w

\* An update that has moved the links has left none behind but the late ones.
LinksMoved(j) ==
  /\ pc[j] \in {"find", "delete_row"} => LinksOf(target[j]) \subseteq excused
  /\ pc[j] = "delete_row" => doomed[j] \subseteq excused

\* Whose rows are gone: the user's, a killed job's, a swept one's, or a layer on its way out.
HasRows(l) ==
  l \in layers =>
    \/ l \in data \cup removed \cup skipped \cup swept
    \/ \E j \in Updates : target[j] = l /\ pc[j] \in {"delete_row", "clean", "failed"}

LinkAlive(i) ==
  /\ link[i] \in Layers => link[i] \in layers
  /\ link[i] = "gone" => i \in excused

IInv ==
  /\ TypeOK
  /\ \A j \in Jobs : NotYetMade(j)
  /\ \A w \in Deleters : HasTarget(w)
  /\ \A j \in Updates : LinksMoved(j)
  /\ \A l \in Layers : HasRows(l)
  /\ \A i \in Links : LinkAlive(i)
----------------------------------------------------------------------------
\* check_and_alter_layer_name never returns a name that it has just read, whatever the
\* names in the folder and the name asked for.
THEOREM AlteredNameIsFree ==
  ASSUME NEW base \in Seq(Nat), NEW names \in SUBSET Seq(Nat), NEW h,
         IsHighest(h, base, names)
  PROVE  AlteredName(base, names, h) \in Seq(Nat) \ names
<1>1. Numbers(base, names) \subseteq Nat
  <2> SUFFICES ASSUME NEW m \in Seq(Nat), m # <<>> PROVE m[Len(m)] \in Nat
    BY DEF Numbers
  <2> QED OBVIOUS
<1>2. h \in Nat
  BY <1>1 DEF IsHighest
<1>3. CASE ~(base \in names \/ h > 0)
  BY <1>3 DEF AlteredName
<1>4. CASE base \in names \/ h > 0
  <2> DEFINE new == Append(base, h + 1)
  <2>1. new \in Seq(Nat) /\ new # <<>> /\ new[Len(new)] = h + 1
    <3>1. h + 1 \in Nat
      BY <1>2
    <3>2. new \in Seq(Nat) /\ Len(new) = Len(base) + 1 /\ new[Len(base) + 1] = h + 1
      BY <3>1, AppendProperties
    <3> HIDE DEF new
    <3>3. Len(base) \in Nat
      OBVIOUS
    <3>4. new # <<>>
      BY <3>2, <3>3
    <3> QED BY <3>2, <3>4
  <2>2. SUFFICES ASSUME new \in names PROVE FALSE
    BY <2>1, <1>4 DEF AlteredName
  <2>3. h + 1 \in Numbers(base, names)
    <3> HIDE DEF new
    <3>1. new \in {m \in names \ {<<>>} : m = Append(base, m[Len(m)])}
      BY <2>1, <2>2 DEF new
    <3> QED BY <3>1, <2>1 DEF Numbers
  <2> QED BY <2>3, <1>2 DEF IsHighest
<1> QED BY <1>3, <1>4

\* The initial states satisfy the invariant.
LEMMA InitInv == Init => IInv
<1> SUFFICES ASSUME Init PROVE IInv
  OBVIOUS
<1> USE DatasetUpdateAssumption DEF Init, Layers, Jobs, Deleters
<1>1. Cardinality(Existing) \in Nat
  <2>1. Existing \subseteq Layers /\ IsFiniteSet(Layers)
    OBVIOUS
  <2>2. IsFiniteSet(Existing)
    BY <2>1, FS_Subset
  <2> QED BY <2>2, FS_CardinalityType
<1>2. TypeOK
  <2>1. name \in [Layers -> LayerNames] /\ <<>> \in LayerNames
    <3> DEFINE names == {<<>>} \cup {<<n>> : n \in 1..(Cardinality(Existing) - 1)}
    <3>1. names \subseteq Seq(Nat)
      <4>1. <<>> \in Seq(Nat)
        OBVIOUS
      <4>2. ASSUME NEW x \in {<<n>> : n \in 1..(Cardinality(Existing) - 1)}
            PROVE  x \in Seq(Nat)
        <5>1. PICK n \in 1..(Cardinality(Existing) - 1) : x = <<n>>
          BY <4>2
        <5>2. n \in Nat
          BY <1>1, <5>1
        <5>3. <<n>> \in Seq(Nat)
          BY <5>2
        <5> QED BY <5>1, <5>3
      <4> QED BY <4>1, <4>2
    <3>2. name \in [Layers -> names]
      OBVIOUS
    <3> HIDE DEF names
    <3>3. <<>> \in Seq(Nat)
      OBVIOUS
    <3> QED BY <3>1, <3>2, <3>3 DEF LayerNames
  <2> QED BY <2>1 DEF TypeOK
<1>3. \A j \in Jobs : NotYetMade(j)
  BY DEF NotYetMade
<1>4. \A w \in Deleters : HasTarget(w)
  BY DEF HasTarget
<1>5. \A j \in Updates : LinksMoved(j)
  BY DEF LinksMoved
<1>6. \A l \in Layers : HasRows(l)
  BY DEF HasRows
<1>7. \A i \in Links : LinkAlive(i)
  BY DEF LinkAlive
<1> QED BY <1>2, <1>3, <1>4, <1>5, <1>6, <1>7 DEF IInv

LEMMA NextInv == IInv /\ [Next]_vars => IInv'
<1> SUFFICES ASSUME IInv, [Next]_vars PROVE IInv'
  OBVIOUS
<1> USE DatasetUpdateAssumption DEF Layers, Jobs, Deleters, Goto, dbVars, jobVars, histVars
<1>0. TypeOK
  BY DEF IInv
<1>1. ASSUME NEW j \in Updates, StartUpdate(j) PROVE IInv'
  <2> USE <1>1 DEF StartUpdate, AboutToTake
  <2>1. TypeOK'
    BY <1>0, SMTT(40) DEF TypeOK
  <2>2. \A k \in Jobs : NotYetMade(k)'
    BY <1>0, SMTT(40) DEF IInv, TypeOK, NotYetMade, HasTarget, Unborn
  <2>3. \A w \in Deleters : HasTarget(w)'
    BY <1>0, SMTT(40) DEF IInv, TypeOK, HasTarget, NotYetMade, Unborn
  <2>4. \A k \in Updates : LinksMoved(k)'
    BY <1>0, SMTT(40) DEF IInv, TypeOK, LinksMoved, HasTarget, LinksOf, TooLate
  <2>5. \A l \in Layers : HasRows(l)'
    BY <1>0, SMTT(40) DEF IInv, TypeOK, HasRows, NotYetMade, HasTarget, Unborn
  <2>6. \A i \in Links : LinkAlive(i)'
    BY <1>0, SMTT(40) DEF IInv, TypeOK, LinkAlive, NotYetMade, Unborn, LinksOf, Unlink
  <2> QED BY <2>1, <2>2, <2>3, <2>4, <2>5, <2>6 DEF IInv
<1>2. ASSUME NEW j \in Updates, Migrate(j) PROVE IInv'
  <2> USE <1>2 DEF Migrate
  <2>1. TypeOK'
    BY <1>0, SMTT(40) DEF TypeOK
  <2>2. \A k \in Jobs : NotYetMade(k)'
    BY <1>0, SMTT(40) DEF IInv, TypeOK, NotYetMade, HasTarget, Unborn
  <2>3. \A w \in Deleters : HasTarget(w)'
    BY <1>0, SMTT(40) DEF IInv, TypeOK, HasTarget, NotYetMade, Unborn
  <2>4. \A k \in Updates : LinksMoved(k)'
    BY <1>0, SMTT(40) DEF IInv, TypeOK, LinksMoved, HasTarget, LinksOf, TooLate
  <2>5. \A l \in Layers : HasRows(l)'
    BY <1>0, SMTT(40) DEF IInv, TypeOK, HasRows, NotYetMade, HasTarget, Unborn
  <2>6. \A i \in Links : LinkAlive(i)'
    BY <1>0, SMTT(40) DEF IInv, TypeOK, LinkAlive, NotYetMade, Unborn, LinksOf, Unlink
  <2> QED BY <2>1, <2>2, <2>3, <2>4, <2>5, <2>6 DEF IInv
<1>3. ASSUME NEW j \in Updates, SkipMigration(j) PROVE IInv'
  <2> USE <1>3 DEF SkipMigration
  <2>1. TypeOK'
    BY <1>0, SMTT(40) DEF TypeOK
  <2>2. \A k \in Jobs : NotYetMade(k)'
    BY <1>0, SMTT(40) DEF IInv, TypeOK, NotYetMade, HasTarget, Unborn
  <2>3. \A w \in Deleters : HasTarget(w)'
    BY <1>0, SMTT(40) DEF IInv, TypeOK, HasTarget, NotYetMade, Unborn
  <2>4. \A k \in Updates : LinksMoved(k)'
    BY <1>0, SMTT(40) DEF IInv, TypeOK, LinksMoved, HasTarget, LinksOf, TooLate
  <2>5. \A l \in Layers : HasRows(l)'
    BY <1>0, SMTT(40) DEF IInv, TypeOK, HasRows, NotYetMade, HasTarget, Unborn
  <2>6. \A i \in Links : LinkAlive(i)'
    BY <1>0, SMTT(40) DEF IInv, TypeOK, LinkAlive, NotYetMade, Unborn, LinksOf, Unlink
  <2> QED BY <2>1, <2>2, <2>3, <2>4, <2>5, <2>6 DEF IInv
<1>4. ASSUME NEW j \in Updates, check_and_alter_layer_name(j) PROVE IInv'
  <2> USE <1>4 DEF check_and_alter_layer_name
  <2>1. TypeOK'
    <3>1. PICK h : /\ IsHighest(h, original[j], Names)
                   /\ new_name' = [new_name EXCEPT ![j] = AlteredName(original[j], Names, h)]
      OBVIOUS
    <3>2. original[j] \in Seq(Nat) /\ Names \in SUBSET Seq(Nat)
      BY <1>0 DEF TypeOK, Names, LayerNames
    <3>3. AlteredName(original[j], Names, h) \in LayerNames
      BY <3>1, <3>2, AlteredNameIsFree DEF LayerNames
    <3> QED BY <1>0, <3>1, <3>3, SMTT(40) DEF TypeOK
  <2>2. \A k \in Jobs : NotYetMade(k)'
    BY <1>0, SMTT(40) DEF IInv, TypeOK, NotYetMade, HasTarget, Unborn
  <2>3. \A w \in Deleters : HasTarget(w)'
    BY <1>0, SMTT(40) DEF IInv, TypeOK, HasTarget, NotYetMade, Unborn
  <2>4. \A k \in Updates : LinksMoved(k)'
    BY <1>0, SMTT(40) DEF IInv, TypeOK, LinksMoved, HasTarget, LinksOf, TooLate
  <2>5. \A l \in Layers : HasRows(l)'
    BY <1>0, SMTT(40) DEF IInv, TypeOK, HasRows, NotYetMade, HasTarget, Unborn
  <2>6. \A i \in Links : LinkAlive(i)'
    BY <1>0, SMTT(40) DEF IInv, TypeOK, LinkAlive, NotYetMade, Unborn, LinksOf, Unlink
  <2> QED BY <2>1, <2>2, <2>3, <2>4, <2>5, <2>6 DEF IInv
<1>5. ASSUME NEW j \in Updates, update_layer_id(j) PROVE IInv'
  <2> USE <1>5 DEF update_layer_id
  <2>1. TypeOK'
    BY <1>0, SMTT(40) DEF TypeOK, LinksOf, Unlink
  <2>2. \A k \in Jobs : NotYetMade(k)'
    BY <1>0, SMTT(40) DEF IInv, TypeOK, NotYetMade, HasTarget, Unborn
  <2>3. \A w \in Deleters : HasTarget(w)'
    BY <1>0, SMTT(40) DEF IInv, TypeOK, HasTarget, NotYetMade, Unborn
  <2>4. \A k \in Updates : LinksMoved(k)'
    BY <1>0, SMTT(40) DEF IInv, TypeOK, LinksMoved, HasTarget, LinksOf, TooLate, Unlink
  <2>5. \A l \in Layers : HasRows(l)'
    BY <1>0, SMTT(40) DEF IInv, TypeOK, HasRows, NotYetMade, HasTarget, Unborn
  <2>6. \A i \in Links : LinkAlive(i)'
    BY <1>0, SMTT(40) DEF IInv, TypeOK, LinkAlive, NotYetMade, Unborn, LinksOf, Unlink
  <2> QED BY <2>1, <2>2, <2>3, <2>4, <2>5, <2>6 DEF IInv
<1>6. ASSUME NEW j \in Updates, Rename(j) PROVE IInv'
  <2> USE <1>6 DEF Rename
  <2>1. TypeOK'
    BY <1>0, SMTT(40) DEF TypeOK
  <2>2. \A k \in Jobs : NotYetMade(k)'
    BY <1>0, SMTT(40) DEF IInv, TypeOK, NotYetMade, HasTarget, Unborn
  <2>3. \A w \in Deleters : HasTarget(w)'
    BY <1>0, SMTT(40) DEF IInv, TypeOK, HasTarget, NotYetMade, Unborn
  <2>4. \A k \in Updates : LinksMoved(k)'
    BY <1>0, SMTT(40) DEF IInv, TypeOK, LinksMoved, HasTarget, LinksOf, TooLate
  <2>5. \A l \in Layers : HasRows(l)'
    BY <1>0, SMTT(40) DEF IInv, TypeOK, HasRows, NotYetMade, HasTarget, Unborn
  <2>6. \A i \in Links : LinkAlive(i)'
    BY <1>0, SMTT(40) DEF IInv, TypeOK, LinkAlive, NotYetMade, Unborn, LinksOf, Unlink
  <2> QED BY <2>1, <2>2, <2>3, <2>4, <2>5, <2>6 DEF IInv
<1>7. ASSUME NEW j \in Updates, Fail(j) PROVE IInv'
  <2> USE <1>7 DEF Fail
  <2>1. TypeOK'
    BY <1>0, SMTT(40) DEF TypeOK
  <2>2. \A k \in Jobs : NotYetMade(k)'
    BY <1>0, SMTT(40) DEF IInv, TypeOK, NotYetMade, HasTarget, Unborn
  <2>3. \A w \in Deleters : HasTarget(w)'
    BY <1>0, SMTT(40) DEF IInv, TypeOK, HasTarget, NotYetMade, Unborn
  <2>4. \A k \in Updates : LinksMoved(k)'
    BY <1>0, SMTT(40) DEF IInv, TypeOK, LinksMoved, HasTarget, LinksOf, TooLate
  <2>5. \A l \in Layers : HasRows(l)'
    BY <1>0, SMTT(40) DEF IInv, TypeOK, HasRows, NotYetMade, HasTarget, Unborn
  <2>6. \A i \in Links : LinkAlive(i)'
    BY <1>0, SMTT(40) DEF IInv, TypeOK, LinkAlive, NotYetMade, Unborn, LinksOf, Unlink
  <2> QED BY <2>1, <2>2, <2>3, <2>4, <2>5, <2>6 DEF IInv
<1>8. ASSUME NEW j \in Updates, delete_created_layers(j) PROVE IInv'
  <2> USE <1>8 DEF delete_created_layers
  <2>1. TypeOK'
    BY <1>0, SMTT(40) DEF TypeOK, LinksOf, Unlink
  <2>2. \A k \in Jobs : NotYetMade(k)'
    BY <1>0, SMTT(40) DEF IInv, TypeOK, NotYetMade, HasTarget, Unborn
  <2>3. \A w \in Deleters : HasTarget(w)'
    BY <1>0, SMTT(40) DEF IInv, TypeOK, HasTarget, NotYetMade, Unborn
  <2>4. \A k \in Updates : LinksMoved(k)'
    BY <1>0, SMTT(40) DEF IInv, TypeOK, LinksMoved, HasTarget, LinksOf, TooLate, Unlink
  <2>5. \A l \in Layers : HasRows(l)'
    BY <1>0, SMTT(40) DEF IInv, TypeOK, HasRows, NotYetMade, HasTarget, Unborn
  <2>6. \A i \in Links : LinkAlive(i)'
    BY <1>0, SMTT(40) DEF IInv, TypeOK, LinkAlive, NotYetMade, Unborn, LinksOf, Unlink
  <2> QED BY <2>1, <2>2, <2>3, <2>4, <2>5, <2>6 DEF IInv
<1>9. ASSUME NEW j \in Imports, StartImport(j) PROVE IInv'
  <2> USE <1>9 DEF StartImport
  <2>1. TypeOK'
    <3>1. PICK n \in UserNames : \E h :
            /\ IsHighest(h, n, Names)
            /\ original' = [original EXCEPT ![j] = n]
            /\ new_name' = [new_name EXCEPT ![j] = AlteredName(n, Names, h)]
      OBVIOUS
    <3>2. PICK h : /\ IsHighest(h, n, Names)
                   /\ new_name' = [new_name EXCEPT ![j] = AlteredName(n, Names, h)]
      BY <3>1
    <3>3. n \in Seq(Nat) /\ Names \in SUBSET Seq(Nat)
      BY <1>0 DEF TypeOK, Names, LayerNames
    <3>4. AlteredName(n, Names, h) \in LayerNames
      BY <3>2, <3>3, AlteredNameIsFree DEF LayerNames
    <3> QED BY <1>0, <3>1, <3>2, <3>4, SMTT(40) DEF TypeOK
  <2>2. \A k \in Jobs : NotYetMade(k)'
    BY <1>0, SMTT(40) DEF IInv, TypeOK, NotYetMade, HasTarget, Unborn
  <2>3. \A w \in Deleters : HasTarget(w)'
    BY <1>0, SMTT(40) DEF IInv, TypeOK, HasTarget, NotYetMade, Unborn
  <2>4. \A k \in Updates : LinksMoved(k)'
    BY <1>0, SMTT(40) DEF IInv, TypeOK, LinksMoved, HasTarget, LinksOf, TooLate
  <2>5. \A l \in Layers : HasRows(l)'
    BY <1>0, SMTT(40) DEF IInv, TypeOK, HasRows, NotYetMade, HasTarget, Unborn
  <2>6. \A i \in Links : LinkAlive(i)'
    BY <1>0, SMTT(40) DEF IInv, TypeOK, LinkAlive, NotYetMade, Unborn, LinksOf, Unlink
  <2> QED BY <2>1, <2>2, <2>3, <2>4, <2>5, <2>6 DEF IInv
<1>10. ASSUME NEW j \in Jobs, CreateLayer(j) PROVE IInv'
  <2> USE <1>10 DEF CreateLayer
  <2>1. TypeOK'
    BY <1>0, SMTT(40) DEF TypeOK
  <2>2. \A k \in Jobs : NotYetMade(k)'
    BY <1>0, SMTT(40) DEF IInv, TypeOK, NotYetMade, HasTarget, Unborn
  <2>3. \A w \in Deleters : HasTarget(w)'
    BY <1>0, SMTT(40) DEF IInv, TypeOK, HasTarget, NotYetMade, Unborn
  <2>4. \A k \in Updates : LinksMoved(k)'
    BY <1>0, SMTT(40) DEF IInv, TypeOK, LinksMoved, HasTarget, LinksOf, TooLate
  <2>5. \A l \in Layers : HasRows(l)'
    BY <1>0, SMTT(40) DEF IInv, TypeOK, HasRows, NotYetMade, HasTarget, Unborn
  <2>6. \A i \in Links : LinkAlive(i)'
    BY <1>0, SMTT(40) DEF IInv, TypeOK, LinkAlive, NotYetMade, Unborn, LinksOf, Unlink
  <2> QED BY <2>1, <2>2, <2>3, <2>4, <2>5, <2>6 DEF IInv
<1>11. ASSUME NEW d \in Deletes, StartDelete(d) PROVE IInv'
  <2> USE <1>11 DEF StartDelete
  <2>1. TypeOK'
    BY <1>0, SMTT(40) DEF TypeOK
  <2>2. \A k \in Jobs : NotYetMade(k)'
    BY <1>0, SMTT(40) DEF IInv, TypeOK, NotYetMade, HasTarget, Unborn
  <2>3. \A w \in Deleters : HasTarget(w)'
    BY <1>0, SMTT(40) DEF IInv, TypeOK, HasTarget, NotYetMade, Unborn
  <2>4. \A k \in Updates : LinksMoved(k)'
    BY <1>0, SMTT(40) DEF IInv, TypeOK, LinksMoved, HasTarget, LinksOf, TooLate
  <2>5. \A l \in Layers : HasRows(l)'
    BY <1>0, SMTT(40) DEF IInv, TypeOK, HasRows, NotYetMade, HasTarget, Unborn
  <2>6. \A i \in Links : LinkAlive(i)'
    BY <1>0, SMTT(40) DEF IInv, TypeOK, LinkAlive, NotYetMade, Unborn, LinksOf, Unlink
  <2> QED BY <2>1, <2>2, <2>3, <2>4, <2>5, <2>6 DEF IInv
<1>12. ASSUME NEW v \in Deleters, DeleteData(v) PROVE IInv'
  <2> USE <1>12 DEF DeleteData
  <2>1. TypeOK'
    BY <1>0, SMTT(40) DEF TypeOK, LinksOf, Unlink
  <2>2. \A k \in Jobs : NotYetMade(k)'
    BY <1>0, SMTT(40) DEF IInv, TypeOK, NotYetMade, HasTarget, Unborn
  <2>3. \A w \in Deleters : HasTarget(w)'
    BY <1>0, SMTT(40) DEF IInv, TypeOK, HasTarget, NotYetMade, Unborn
  <2>4. \A k \in Updates : LinksMoved(k)'
    BY <1>0, SMTT(40) DEF IInv, TypeOK, LinksMoved, HasTarget, LinksOf, TooLate, Unlink
  <2>5. \A l \in Layers : HasRows(l)'
    BY <1>0, SMTT(40) DEF IInv, TypeOK, HasRows, NotYetMade, HasTarget, Unborn
  <2>6. \A i \in Links : LinkAlive(i)'
    BY <1>0, SMTT(40) DEF IInv, TypeOK, LinkAlive, NotYetMade, Unborn, LinksOf, Unlink
  <2> QED BY <2>1, <2>2, <2>3, <2>4, <2>5, <2>6 DEF IInv
<1>13. ASSUME NEW v \in Deleters, DeleteRow(v) PROVE IInv'
  <2> USE <1>13 DEF DeleteRow
  <2>1. TypeOK'
    BY <1>0, SMTT(40) DEF TypeOK, LinksOf, Unlink
  <2>2. \A k \in Jobs : NotYetMade(k)'
    BY <1>0, SMTT(40) DEF IInv, TypeOK, NotYetMade, HasTarget, Unborn
  <2>3. \A w \in Deleters : HasTarget(w)'
    BY <1>0, SMTT(40) DEF IInv, TypeOK, HasTarget, NotYetMade, Unborn
  <2>4. \A k \in Updates : LinksMoved(k)'
    BY <1>0, SMTT(40) DEF IInv, TypeOK, LinksMoved, HasTarget, LinksOf, TooLate, Unlink
  <2>5. \A l \in Layers : HasRows(l)'
    BY <1>0, SMTT(40) DEF IInv, TypeOK, HasRows, NotYetMade, HasTarget, Unborn
  <2>6. \A i \in Links : LinkAlive(i)'
    <3>1. doomed[v] \cup LinksOf(target[v]) \subseteq excused'
      BY <1>0, SMTT(40) DEF IInv, TypeOK, LinksMoved
    <3> QED BY <1>0, <3>1, SMTT(40) DEF IInv, TypeOK, LinkAlive, LinksOf, Unlink
  <2> QED BY <2>1, <2>2, <2>3, <2>4, <2>5, <2>6 DEF IInv
<1>14. ASSUME NEW m \in Layers, NEW x \in Links, AddLink(x, m) PROVE IInv'
  <2> USE <1>14 DEF AddLink
  <2>1. TypeOK'
    BY <1>0, SMTT(40) DEF TypeOK
  <2>2. \A k \in Jobs : NotYetMade(k)'
    BY <1>0, SMTT(40) DEF IInv, TypeOK, NotYetMade, HasTarget, Unborn
  <2>3. \A w \in Deleters : HasTarget(w)'
    BY <1>0, SMTT(40) DEF IInv, TypeOK, HasTarget, NotYetMade, Unborn
  <2>4. \A k \in Updates : LinksMoved(k)'
    BY <1>0, SMTT(40) DEF IInv, TypeOK, LinksMoved, HasTarget, LinksOf, TooLate
  <2>5. \A l \in Layers : HasRows(l)'
    BY <1>0, SMTT(40) DEF IInv, TypeOK, HasRows, NotYetMade, HasTarget, Unborn
  <2>6. \A i \in Links : LinkAlive(i)'
    BY <1>0, SMTT(40) DEF IInv, TypeOK, LinkAlive, NotYetMade, Unborn, LinksOf, Unlink
  <2> QED BY <2>1, <2>2, <2>3, <2>4, <2>5, <2>6 DEF IInv
<1>15. ASSUME NEW m \in Layers, NEW n \in UserNames, RenameLayer(m, n) PROVE IInv'
  <2> USE <1>15 DEF RenameLayer
  <2>1. TypeOK'
    BY <1>0, SMTT(40) DEF TypeOK
  <2>2. \A k \in Jobs : NotYetMade(k)'
    BY <1>0, SMTT(40) DEF IInv, TypeOK, NotYetMade, HasTarget, Unborn
  <2>3. \A w \in Deleters : HasTarget(w)'
    BY <1>0, SMTT(40) DEF IInv, TypeOK, HasTarget, NotYetMade, Unborn
  <2>4. \A k \in Updates : LinksMoved(k)'
    BY <1>0, SMTT(40) DEF IInv, TypeOK, LinksMoved, HasTarget, LinksOf, TooLate
  <2>5. \A l \in Layers : HasRows(l)'
    BY <1>0, SMTT(40) DEF IInv, TypeOK, HasRows, NotYetMade, HasTarget, Unborn
  <2>6. \A i \in Links : LinkAlive(i)'
    BY <1>0, SMTT(40) DEF IInv, TypeOK, LinkAlive, NotYetMade, Unborn, LinksOf, Unlink
  <2> QED BY <2>1, <2>2, <2>3, <2>4, <2>5, <2>6 DEF IInv
<1>16. CASE UNCHANGED vars
  BY <1>16 DEF vars, IInv, TypeOK, NotYetMade, HasTarget, LinksMoved, HasRows, LinkAlive, LinksOf
<1> QED
  BY <1>1, <1>2, <1>3, <1>4, <1>5, <1>6, <1>7, <1>8, <1>9, <1>10, <1>11, <1>12, <1>13, <1>14, <1>15, <1>16 DEF Next, Update, Delete
----------------------------------------------------------------------------
\* The strengthening holds in every reachable state.
THEOREM Invariance == Spec => []IInv
BY InitInv, NextInv, PTL DEF Spec

\* Every variable keeps its type: in particular the numbered names that
\* check_and_alter_layer_name makes are names.
THEOREM TypeCorrect == Spec => []TypeOK
BY Invariance, PTL DEF IInv

\* A project loses a layer only for one of the known reasons, however many updates of
\* the same layer, imports and deletions interleave.
THEOREM LinksCarried == Spec => []LinksAreCarriedOver
<1>1. IInv => LinksAreCarriedOver
  BY DEF IInv, LinkAlive, LinksAreCarriedOver
<1> QED BY <1>1, Invariance, PTL

\* A shown layer has its row and its data, except for the known reasons.  While an
\* update is between deleting the old rows and the old layer (HasRows, LinksMoved),
\* only late links show that layer.
THEOREM ShownHaveRows == Spec => []ShownLayersHaveRows
<1>1. ASSUME IInv PROVE ShownLayersHaveRows
  <2> SUFFICES ASSUME NEW i \in Links, link[i] \in Layers
               PROVE  /\ link[i] \in layers
                      /\ \/ link[i] \in data \cup removed \cup skipped \cup swept
                         \/ i \in excused
                         \/ \E j \in Updates :
                              target[j] = link[i] /\ pc[j] \in {"clean", "failed"}
    BY DEF ShownLayersHaveRows
  <2>1. link[i] \in layers /\ HasRows(link[i])
    BY <1>1 DEF IInv, LinkAlive
  <2>2. CASE \E j \in Updates : target[j] = link[i] /\ pc[j] = "delete_row"
    BY <1>1, <2>1, <2>2 DEF IInv, LinksMoved, LinksOf
  <2>3. CASE ~\E j \in Updates : target[j] = link[i] /\ pc[j] = "delete_row"
    BY <2>1, <2>3 DEF HasRows
  <2> QED BY <2>2, <2>3
<1> QED BY <1>1, Invariance, PTL
-----------------------------------------------------------------------------
(***************************************************************************)
(* The name an update gives back is kept for it, for any updates, imports, *)
(* layers and names.  While an update goes on, either its target stands in *)
(* the folder under the name of the request (TargetNamed), or its own      *)
(* layer does under a numbered one (Numbered, OwnName): whoever asks for   *)
(* that name meanwhile gets another (NotTaken).                            *)
(***************************************************************************)

Swapping == {"begun", "repoint", "find"}

Deleting == {"delete_row", "rename"}

(* An update that will end, if it ends: CRUDLayer.delete finds the target. *)
Alive(j) ==
  \/ pc[j] \in {"migrate", "name", "create"} \cup Swapping /\ target[j] \in layers
  \/ pc[j] \in Deleting

Unique == \A l, m \in layers : name[l] = name[m] => l = m

ImportName(i) == pc[i] = "done" /\ i \notin renamed => name[i] = new_name[i]

TargetNamed(j) ==
  /\ Alive(j) /\ pc[j] \notin Deleting /\ target[j] \notin renamed => name[target[j]] = original[j]
  /\ pc[j] = "rename" => target[j] \notin layers

Numbered(j) ==
  Alive(j) /\ pc[j] \in {"create"} \cup Swapping \cup Deleting /\ target[j] \notin renamed =>
    \E n \in Nat \ {0} : new_name[j] = Append(original[j], n)

OwnName(j) == pc[j] \in Swapping \cup Deleting /\ j \notin renamed => name[j] = new_name[j]

(* Import i has, or is about to take, the name update j has to give back. *)
Takes(i, j) ==
  /\ pc[i] = "create" \/ i \in layers
  /\ original[i] = original[j] /\ new_name[i] = original[j]

NotTaken(j, i) ==
  Alive(j) /\ (pc[j] \in Deleting => j \in layers) /\ Takes(i, j) =>
    i \in early[j] \/ i = target[j] \/ {i, j, target[j]} \cap renamed # {}

NamesInv ==
  /\ Unique
  /\ \A i \in Imports : ImportName(i) /\ pc[i] \in {"idle", "create", "done"}
  /\ \A j \in Updates : TargetNamed(j) /\ Numbered(j) /\ OwnName(j)
  /\ \A j \in Updates, i \in Imports : NotTaken(j, i)
-----------------------------------------------------------------------------
LEMMA NotItself == ASSUME NEW base \in Seq(Nat), NEW n \in Nat PROVE Append(base, n) # base
<1>1. Len(Append(base, n)) = Len(base) + 1 /\ Len(base) \in Nat
  BY AppendProperties
<1> QED BY <1>1

(* A numbered name in the folder is counted. *)
LEMMA IsCounted ==
  ASSUME NEW base \in Seq(Nat), NEW names, NEW n \in Nat, Append(base, n) \in names
  PROVE  n \in Numbers(base, names)
<1>1. PICK m \in names : m = Append(base, n)
  OBVIOUS
<1>2. m # <<>> /\ m[Len(m)] = n
  <2>1. m \in Seq(Nat) /\ Len(m) = Len(base) + 1 /\ m[Len(base) + 1] = n /\ Len(base) \in Nat
    BY <1>1, AppendProperties
  <2> QED BY <2>1
<1> QED BY <1>1, <1>2 DEF Numbers

(* Who asks for a name that is there, or there with a number, gets a number. *)
LEMMA GetsNumber ==
  ASSUME NEW base \in Seq(Nat), NEW names \in SUBSET Seq(Nat), NEW h, IsHighest(h, base, names),
         base \in names \/ \E n \in Nat \ {0} : Append(base, n) \in names
  PROVE  \E n \in Nat \ {0} : AlteredName(base, names, h) = Append(base, n)
<1>1. Numbers(base, names) \subseteq Nat
  <2> SUFFICES ASSUME NEW m \in Seq(Nat), m # <<>> PROVE m[Len(m)] \in Nat
    BY DEF Numbers
  <2> QED OBVIOUS
<1>2. h \in Nat
  BY <1>1 DEF IsHighest
<1>3. base \in names \/ h > 0
  <2> SUFFICES ASSUME NEW n \in Nat \ {0}, Append(base, n) \in names PROVE h > 0
    OBVIOUS
  <2>1. n \in Numbers(base, names)
    BY IsCounted
  <2> QED BY <1>2, <2>1 DEF IsHighest
<1> QED BY <1>2, <1>3 DEF AlteredName

LEMMA NamesInit == ASSUME Init PROVE NamesInv
<1> USE DatasetUpdateAssumption DEF Init, Jobs, Deleters, Layers
<1>1. layers = Existing /\ (\A l, m \in Existing : name[l] = name[m] => l = m)
      /\ \A j \in Jobs : pc[j] = "idle"
  OBVIOUS
<1>2. Unique
  BY <1>1 DEF Unique
<1>3. \A i \in Imports : ImportName(i) /\ pc[i] \in {"idle", "create", "done"}
  BY <1>1 DEF ImportName
<1>4. \A j \in Updates : ~Alive(j)
  BY <1>1 DEF Alive, Swapping, Deleting
<1>5. \A j \in Updates : TargetNamed(j) /\ Numbered(j) /\ OwnName(j)
  BY <1>1, <1>4 DEF TargetNamed, Numbered, OwnName, Swapping, Deleting
<1>6. \A j \in Updates, i \in Imports : NotTaken(j, i)
  BY <1>4 DEF NotTaken
<1> QED BY <1>2, <1>3, <1>5, <1>6 DEF NamesInv

(* A target is a layer that was made, and is not made again. *)
LEMMA Reach ==
  ASSUME IInv
  PROVE  /\ \A j \in Jobs : pc[j] \in Unborn => j \notin layers
         /\ \A j \in Jobs, w \in Deleters : pc[j] \in Unborn /\ pc[w] # "idle" => target[w] # j
         /\ \A w \in Deleters : pc[w] # "idle" => target[w] \in Layers /\ target[w] # w
BY DEF IInv, NotYetMade, HasTarget

LEMMA NamesNext == ASSUME IInv, NamesInv, [Next]_vars PROVE NamesInv'
<1> USE DatasetUpdateAssumption DEF Layers, Jobs, Deleters, Goto, dbVars, jobVars, histVars, Unborn
<1>0. TypeOK /\ NamesInv
  BY DEF IInv
<1>1. ASSUME NEW j \in Updates, StartUpdate(j) PROVE NamesInv'
  <2> USE <1>1 DEF StartUpdate
  <2>1. Unique'
    BY <1>0, Reach, SMTT(40) DEF TypeOK, NamesInv, Unique, NameFree
  <2>2. \A i \in Imports : ImportName(i)' /\ pc'[i] \in {"idle", "create", "done"}
    BY <1>0, Reach, SMTT(40) DEF TypeOK, NamesInv, ImportName
  <2>3. \A k \in Updates : TargetNamed(k)'
    BY <1>0, Reach, SMTT(40) DEF TypeOK, NamesInv, TargetNamed, Alive, Swapping, Deleting
  <2>4. \A k \in Updates : Numbered(k)'
    BY <1>0, Reach, SMTT(40) DEF TypeOK, NamesInv, Numbered, Alive, Swapping, Deleting
  <2>5. \A k \in Updates : OwnName(k)'
    BY <1>0, Reach, SMTT(40) DEF TypeOK, NamesInv, OwnName, Alive, Swapping, Deleting
  <2>6. \A k \in Updates, i \in Imports : NotTaken(k, i)'
    <3>1. ASSUME NEW k \in Updates, NEW i \in Imports, k # j PROVE NotTaken(k, i)'
      BY <1>0, <3>1, SMTT(40) DEF TypeOK, NamesInv, NotTaken, Takes, Alive, Swapping, Deleting
    <3>2. ASSUME NEW i \in Imports, pc[i] = "create" PROVE NotTaken(j, i)'
      BY <1>0, <3>2, SMTT(40) DEF TypeOK, NotTaken, Takes, AboutToTake
    <3>3. ASSUME NEW i \in Imports, pc[i] # "create", i \in layers, i \notin renamed,
                 new_name[i] = original'[j]
          PROVE  i = target'[j]
      <4>1. pc[i] = "done"
        BY <1>0, <3>3, Reach DEF NamesInv
      <4>2. name[i] = original'[j]
        BY <1>0, <3>3, <4>1 DEF NamesInv, ImportName
      <4>3. target'[j] \in layers /\ name[target'[j]] = original'[j]
        BY <1>0 DEF TypeOK
      <4> QED BY <1>0, <3>3, <4>2, <4>3 DEF NamesInv, Unique
    <3>4. ASSUME NEW i \in Imports, pc[i] # "create" PROVE NotTaken(j, i)'
      BY <1>0, <3>3, <3>4, SMTT(40) DEF TypeOK, NotTaken, Takes
    <3> QED BY <3>1, <3>2, <3>4
  <2> QED BY <2>1, <2>2, <2>3, <2>4, <2>5, <2>6 DEF NamesInv
<1>2. ASSUME NEW j \in Updates, Migrate(j) PROVE NamesInv'
  <2> USE <1>2 DEF Migrate
  <2>1. Unique'
    BY <1>0, Reach, SMTT(40) DEF TypeOK, NamesInv, Unique, NameFree
  <2>2. \A i \in Imports : ImportName(i)' /\ pc'[i] \in {"idle", "create", "done"}
    BY <1>0, Reach, SMTT(40) DEF TypeOK, NamesInv, ImportName
  <2>3. \A k \in Updates : TargetNamed(k)'
    BY <1>0, Reach, SMTT(40) DEF TypeOK, NamesInv, TargetNamed, Alive, Swapping, Deleting
  <2>4. \A k \in Updates : Numbered(k)'
    BY <1>0, Reach, SMTT(40) DEF TypeOK, NamesInv, Numbered, Alive, Swapping, Deleting
  <2>5. \A k \in Updates : OwnName(k)'
    BY <1>0, Reach, SMTT(40) DEF TypeOK, NamesInv, OwnName, Alive, Swapping, Deleting
  <2>6. \A k \in Updates, i \in Imports : NotTaken(k, i)'
    BY <1>0, Reach, SMTT(40) DEF TypeOK, NamesInv, NotTaken, Takes, ImportName, Alive, Swapping, Deleting
  <2> QED BY <2>1, <2>2, <2>3, <2>4, <2>5, <2>6 DEF NamesInv
<1>3. ASSUME NEW j \in Updates, SkipMigration(j) PROVE NamesInv'
  <2> USE <1>3 DEF SkipMigration
  <2>1. Unique'
    BY <1>0, Reach, SMTT(40) DEF TypeOK, NamesInv, Unique, NameFree
  <2>2. \A i \in Imports : ImportName(i)' /\ pc'[i] \in {"idle", "create", "done"}
    BY <1>0, Reach, SMTT(40) DEF TypeOK, NamesInv, ImportName
  <2>3. \A k \in Updates : TargetNamed(k)'
    BY <1>0, Reach, SMTT(40) DEF TypeOK, NamesInv, TargetNamed, Alive, Swapping, Deleting
  <2>4. \A k \in Updates : Numbered(k)'
    BY <1>0, Reach, SMTT(40) DEF TypeOK, NamesInv, Numbered, Alive, Swapping, Deleting
  <2>5. \A k \in Updates : OwnName(k)'
    BY <1>0, Reach, SMTT(40) DEF TypeOK, NamesInv, OwnName, Alive, Swapping, Deleting
  <2>6. \A k \in Updates, i \in Imports : NotTaken(k, i)'
    BY <1>0, Reach, SMTT(40) DEF TypeOK, NamesInv, NotTaken, Takes, ImportName, Alive, Swapping, Deleting
  <2> QED BY <2>1, <2>2, <2>3, <2>4, <2>5, <2>6 DEF NamesInv
<1>4. ASSUME NEW j \in Updates, check_and_alter_layer_name(j) PROVE NamesInv'
  <2> USE <1>4 DEF check_and_alter_layer_name
  <2>1. Unique'
    BY <1>0, Reach, SMTT(40) DEF TypeOK, NamesInv, Unique, NameFree
  <2>2. \A i \in Imports : ImportName(i)' /\ pc'[i] \in {"idle", "create", "done"}
    BY <1>0, Reach, SMTT(40) DEF TypeOK, NamesInv, ImportName
  <2>3. \A k \in Updates : TargetNamed(k)'
    BY <1>0, Reach, SMTT(40) DEF TypeOK, NamesInv, TargetNamed, Alive, Swapping, Deleting
  <2>4. \A k \in Updates : Numbered(k)'
    <3>1. PICK h : /\ IsHighest(h, original[j], Names)
                   /\ new_name' = [new_name EXCEPT ![j] = AlteredName(original[j], Names, h)]
      OBVIOUS
    <3>2. original[j] \in Seq(Nat) /\ Names \in SUBSET Seq(Nat)
      BY <1>0 DEF TypeOK, Names, LayerNames
    <3>3. ASSUME target[j] \in layers, target[j] \notin renamed
          PROVE  \E n \in Nat \ {0} : AlteredName(original[j], Names, h) = Append(original[j], n)
      <4>1. name[target[j]] = original[j]
        BY <1>0, <3>3 DEF NamesInv, TargetNamed, Alive, Deleting
      <4>2. original[j] \in Names
        BY <3>3, <4>1 DEF Names
      <4> QED BY <3>1, <3>2, <4>2, GetsNumber
    <3>4. ASSUME NEW k \in Updates, k # j PROVE Numbered(k)'
      BY <1>0, <3>4 DEF TypeOK, NamesInv, Numbered, Alive, Swapping, Deleting
    <3>5. new_name'[j] = AlteredName(original[j], Names, h)
      BY <1>0, <3>1 DEF TypeOK
    <3>6. Numbered(j)'
      BY <1>0, <3>3, <3>5 DEF TypeOK, Numbered, Alive, Swapping, Deleting
    <3> QED BY <3>4, <3>6
  <2>5. \A k \in Updates : OwnName(k)'
    BY <1>0, Reach, SMTT(40) DEF TypeOK, NamesInv, OwnName, Alive, Swapping, Deleting
  <2>6. \A k \in Updates, i \in Imports : NotTaken(k, i)'
    BY <1>0, Reach, SMTT(40) DEF TypeOK, NamesInv, NotTaken, Takes, ImportName, Alive, Swapping, Deleting
  <2> QED BY <2>1, <2>2, <2>3, <2>4, <2>5, <2>6 DEF NamesInv
<1>5. ASSUME NEW j \in Updates, update_layer_id(j) PROVE NamesInv'
  <2> USE <1>5 DEF update_layer_id
  <2>1. Unique'
    BY <1>0, Reach, SMTT(40) DEF TypeOK, NamesInv, Unique, NameFree
  <2>2. \A i \in Imports : ImportName(i)' /\ pc'[i] \in {"idle", "create", "done"}
    BY <1>0, Reach, SMTT(40) DEF TypeOK, NamesInv, ImportName
  <2>3. \A k \in Updates : TargetNamed(k)'
    BY <1>0, Reach, SMTT(40) DEF TypeOK, NamesInv, TargetNamed, Alive, Swapping, Deleting
  <2>4. \A k \in Updates : Numbered(k)'
    BY <1>0, Reach, SMTT(40) DEF TypeOK, NamesInv, Numbered, Alive, Swapping, Deleting
  <2>5. \A k \in Updates : OwnName(k)'
    BY <1>0, Reach, SMTT(40) DEF TypeOK, NamesInv, OwnName, Alive, Swapping, Deleting
  <2>6. \A k \in Updates, i \in Imports : NotTaken(k, i)'
    BY <1>0, Reach, SMTT(40) DEF TypeOK, NamesInv, NotTaken, Takes, ImportName, Alive, Swapping, Deleting
  <2> QED BY <2>1, <2>2, <2>3, <2>4, <2>5, <2>6 DEF NamesInv
<1>6. ASSUME NEW j \in Updates, Rename(j) PROVE NamesInv'
  <2> USE <1>6 DEF Rename
  <2>1. Unique'
    BY <1>0, Reach, SMTT(40) DEF TypeOK, NamesInv, Unique, NameFree
  <2>2. \A i \in Imports : ImportName(i)' /\ pc'[i] \in {"idle", "create", "done"}
    BY <1>0, Reach, SMTT(40) DEF TypeOK, NamesInv, ImportName
  <2>3. \A k \in Updates : TargetNamed(k)'
    BY <1>0, Reach, SMTT(40) DEF TypeOK, NamesInv, TargetNamed, Alive, Swapping, Deleting
  <2>4. \A k \in Updates : Numbered(k)'
    BY <1>0, Reach, SMTT(40) DEF TypeOK, NamesInv, Numbered, Alive, Swapping, Deleting
  <2>5. \A k \in Updates : OwnName(k)'
    BY <1>0, Reach, SMTT(40) DEF TypeOK, NamesInv, OwnName, Alive, Swapping, Deleting
  <2>6. \A k \in Updates, i \in Imports : NotTaken(k, i)'
    BY <1>0, Reach, SMTT(40) DEF TypeOK, NamesInv, NotTaken, Takes, ImportName, Alive, Swapping, Deleting
  <2> QED BY <2>1, <2>2, <2>3, <2>4, <2>5, <2>6 DEF NamesInv
<1>7. ASSUME NEW j \in Updates, Fail(j) PROVE NamesInv'
  <2> USE <1>7 DEF Fail
  <2>1. Unique'
    BY <1>0, Reach, SMTT(40) DEF TypeOK, NamesInv, Unique, NameFree
  <2>2. \A i \in Imports : ImportName(i)' /\ pc'[i] \in {"idle", "create", "done"}
    BY <1>0, Reach, SMTT(40) DEF TypeOK, NamesInv, ImportName
  <2>3. \A k \in Updates : TargetNamed(k)'
    BY <1>0, Reach, SMTT(40) DEF TypeOK, NamesInv, TargetNamed, Alive, Swapping, Deleting
  <2>4. \A k \in Updates : Numbered(k)'
    BY <1>0, Reach, SMTT(40) DEF TypeOK, NamesInv, Numbered, Alive, Swapping, Deleting
  <2>5. \A k \in Updates : OwnName(k)'
    BY <1>0, Reach, SMTT(40) DEF TypeOK, NamesInv, OwnName, Alive, Swapping, Deleting
  <2>6. \A k \in Updates, i \in Imports : NotTaken(k, i)'
    BY <1>0, Reach, SMTT(40) DEF TypeOK, NamesInv, NotTaken, Takes, ImportName, Alive, Swapping, Deleting
  <2> QED BY <2>1, <2>2, <2>3, <2>4, <2>5, <2>6 DEF NamesInv
<1>8. ASSUME NEW j \in Updates, delete_created_layers(j) PROVE NamesInv'
  <2> USE <1>8 DEF delete_created_layers
  <2>1. Unique'
    BY <1>0, Reach, SMTT(40) DEF TypeOK, NamesInv, Unique, NameFree
  <2>2. \A i \in Imports : ImportName(i)' /\ pc'[i] \in {"idle", "create", "done"}
    BY <1>0, Reach, SMTT(40) DEF TypeOK, NamesInv, ImportName
  <2>3. \A k \in Updates : TargetNamed(k)'
    BY <1>0, Reach, SMTT(40) DEF TypeOK, NamesInv, TargetNamed, Alive, Swapping, Deleting
  <2>4. \A k \in Updates : Numbered(k)'
    BY <1>0, Reach, SMTT(40) DEF TypeOK, NamesInv, Numbered, Alive, Swapping, Deleting
  <2>5. \A k \in Updates : OwnName(k)'
    BY <1>0, Reach, SMTT(40) DEF TypeOK, NamesInv, OwnName, Alive, Swapping, Deleting
  <2>6. \A k \in Updates, i \in Imports : NotTaken(k, i)'
    BY <1>0, Reach, SMTT(40) DEF TypeOK, NamesInv, NotTaken, Takes, ImportName, Alive, Swapping, Deleting
  <2> QED BY <2>1, <2>2, <2>3, <2>4, <2>5, <2>6 DEF NamesInv
<1>9. ASSUME NEW j \in Imports, StartImport(j) PROVE NamesInv'
  <2> USE <1>9 DEF StartImport
  <2>1. Unique'
    BY <1>0, Reach, SMTT(40) DEF TypeOK, NamesInv, Unique, NameFree
  <2>2. \A i \in Imports : ImportName(i)' /\ pc'[i] \in {"idle", "create", "done"}
    BY <1>0, Reach, SMTT(40) DEF TypeOK, NamesInv, ImportName
  <2>3. \A k \in Updates : TargetNamed(k)'
    BY <1>0, Reach, SMTT(40) DEF TypeOK, NamesInv, TargetNamed, Alive, Swapping, Deleting
  <2>4. \A k \in Updates : Numbered(k)'
    BY <1>0, Reach, SMTT(40) DEF TypeOK, NamesInv, Numbered, Alive, Swapping, Deleting
  <2>5. \A k \in Updates : OwnName(k)'
    BY <1>0, Reach, SMTT(40) DEF TypeOK, NamesInv, OwnName, Alive, Swapping, Deleting
  <2>6. \A k \in Updates, i \in Imports : NotTaken(k, i)'
    <3>1. PICK n \in UserNames : \E h :
            /\ IsHighest(h, n, Names)
            /\ original' = [original EXCEPT ![j] = n]
            /\ new_name' = [new_name EXCEPT ![j] = AlteredName(n, Names, h)]
      OBVIOUS
    <3>2. PICK h : /\ IsHighest(h, n, Names)
                   /\ new_name' = [new_name EXCEPT ![j] = AlteredName(n, Names, h)]
      BY <3>1
    <3>3. n \in Seq(Nat) /\ Names \in SUBSET Seq(Nat)
      BY <1>0 DEF TypeOK, Names, LayerNames
    <3>4. original'[j] = n /\ new_name'[j] = AlteredName(n, Names, h)
      BY <1>0, <3>1, <3>2 DEF TypeOK
    <3>5. ASSUME NEW k \in Updates, Alive(k), pc[k] \in Deleting => k \in layers,
                 original[k] = n, {j, k, target[k]} \cap renamed = {}
          PROVE  AlteredName(n, Names, h) # n
      <4>1. n \in Names \/ \E m \in Nat \ {0} : Append(n, m) \in Names
        <5>1. CASE pc[k] \notin Deleting
          <6>1. target[k] \in layers /\ name[target[k]] = n
            BY <1>0, <3>5, <5>1 DEF NamesInv, TargetNamed, Alive, Deleting
          <6> QED BY <6>1 DEF Names
        <5>2. CASE pc[k] \in Deleting
          <6>1. k \in layers /\ name[k] = new_name[k]
            BY <1>0, <3>5, <5>2 DEF NamesInv, OwnName
          <6>2. PICK m \in Nat \ {0} : new_name[k] = Append(n, m)
            BY <1>0, <3>5, <5>2 DEF NamesInv, Numbered
          <6> QED BY <6>1, <6>2 DEF Names
        <5> QED BY <5>1, <5>2
      <4>2. PICK m \in Nat \ {0} : AlteredName(n, Names, h) = Append(n, m)
        BY <3>2, <3>3, <4>1, GetsNumber
      <4> QED BY <3>3, <4>2, NotItself
    <3>6. \A k \in Updates : NotTaken(k, j)'
      <4> SUFFICES ASSUME NEW k \in Updates, Alive(k)', (pc[k] \in Deleting => k \in layers)',
                          Takes(j, k)', ~({j, k, target[k]} \cap renamed # {})'
                   PROVE  FALSE
        BY DEF NotTaken
      <4>1. pc'[k] = pc[k] /\ target' = target /\ layers' = layers /\ renamed' = renamed
            /\ original'[k] = original[k]
        BY <1>0, <3>1 DEF TypeOK
      <4>2. Alive(k) /\ (pc[k] \in Deleting => k \in layers) /\ original[k] = n
            /\ {j, k, target[k]} \cap renamed = {} /\ AlteredName(n, Names, h) = n
        BY <3>4, <4>1 DEF Alive, Takes
      <4> QED BY <3>5, <4>2
    <3>7. ASSUME NEW k \in Updates, NEW i \in Imports, i # j PROVE NotTaken(k, i)'
      <4>1. /\ pc'[k] = pc[k] /\ pc'[i] = pc[i] /\ original'[k] = original[k]
            /\ original'[i] = original[i] /\ new_name'[i] = new_name[i]
        BY <1>0, <3>1, <3>2, <3>7 DEF TypeOK
      <4>2. NotTaken(k, i)
        BY <1>0 DEF NamesInv
      <4> QED BY <4>1, <4>2 DEF NotTaken, Takes, Alive
    <3> QED BY <3>6, <3>7
  <2> QED BY <2>1, <2>2, <2>3, <2>4, <2>5, <2>6 DEF NamesInv
<1>10. ASSUME NEW j \in Jobs, CreateLayer(j) PROVE NamesInv'
  <2> USE <1>10 DEF CreateLayer
  <2>1. Unique'
    BY <1>0, Reach, SMTT(40) DEF TypeOK, NamesInv, Unique, NameFree
  <2>2. \A i \in Imports : ImportName(i)' /\ pc'[i] \in {"idle", "create", "done"}
    BY <1>0, Reach, SMTT(40) DEF TypeOK, NamesInv, ImportName
  <2>3. \A k \in Updates : TargetNamed(k)'
    BY <1>0, Reach, SMTT(40) DEF TypeOK, NamesInv, TargetNamed, Alive, Swapping, Deleting
  <2>4. \A k \in Updates : Numbered(k)'
    BY <1>0, Reach, SMTT(40) DEF TypeOK, NamesInv, Numbered, Alive, Swapping, Deleting
  <2>5. \A k \in Updates : OwnName(k)'
    BY <1>0, Reach, SMTT(40) DEF TypeOK, NamesInv, OwnName, Alive, Swapping, Deleting
  <2>6. \A k \in Updates, i \in Imports : NotTaken(k, i)'
    BY <1>0, Reach, SMTT(40) DEF TypeOK, NamesInv, NotTaken, Takes, ImportName, Alive, Swapping, Deleting
  <2> QED BY <2>1, <2>2, <2>3, <2>4, <2>5, <2>6 DEF NamesInv
<1>11. ASSUME NEW d \in Deletes, StartDelete(d) PROVE NamesInv'
  <2> USE <1>11 DEF StartDelete
  <2>1. Unique'
    BY <1>0, Reach, SMTT(40) DEF TypeOK, NamesInv, Unique, NameFree
  <2>2. \A i \in Imports : ImportName(i)' /\ pc'[i] \in {"idle", "create", "done"}
    BY <1>0, Reach, SMTT(40) DEF TypeOK, NamesInv, ImportName
  <2>3. \A k \in Updates : TargetNamed(k)'
    BY <1>0, Reach, SMTT(40) DEF TypeOK, NamesInv, TargetNamed, Alive, Swapping, Deleting
  <2>4. \A k \in Updates : Numbered(k)'
    BY <1>0, Reach, SMTT(40) DEF TypeOK, NamesInv, Numbered, Alive, Swapping, Deleting
  <2>5. \A k \in Updates : OwnName(k)'
    BY <1>0, Reach, SMTT(40) DEF TypeOK, NamesInv, OwnName, Alive, Swapping, Deleting
  <2>6. \A k \in Updates, i \in Imports : NotTaken(k, i)'
    BY <1>0, Reach, SMTT(40) DEF TypeOK, NamesInv, NotTaken, Takes, ImportName, Alive, Swapping, Deleting
  <2> QED BY <2>1, <2>2, <2>3, <2>4, <2>5, <2>6 DEF NamesInv
<1>12. ASSUME NEW v \in Deleters, DeleteData(v) PROVE NamesInv'
  <2> USE <1>12 DEF DeleteData
  <2>1. Unique'
    BY <1>0, Reach, SMTT(40) DEF TypeOK, NamesInv, Unique, NameFree
  <2>2. \A i \in Imports : ImportName(i)' /\ pc'[i] \in {"idle", "create", "done"}
    BY <1>0, Reach, SMTT(40) DEF TypeOK, NamesInv, ImportName
  <2>3. \A k \in Updates : TargetNamed(k)'
    BY <1>0, Reach, SMTT(40) DEF TypeOK, NamesInv, TargetNamed, Alive, Swapping, Deleting
  <2>4. \A k \in Updates : Numbered(k)'
    BY <1>0, Reach, SMTT(40) DEF TypeOK, NamesInv, Numbered, Alive, Swapping, Deleting
  <2>5. \A k \in Updates : OwnName(k)'
    BY <1>0, Reach, SMTT(40) DEF TypeOK, NamesInv, OwnName, Alive, Swapping, Deleting
  <2>6. \A k \in Updates, i \in Imports : NotTaken(k, i)'
    BY <1>0, Reach, SMTT(40) DEF TypeOK, NamesInv, NotTaken, Takes, ImportName, Alive, Swapping, Deleting
  <2> QED BY <2>1, <2>2, <2>3, <2>4, <2>5, <2>6 DEF NamesInv
<1>13. ASSUME NEW v \in Deleters, DeleteRow(v) PROVE NamesInv'
  <2> USE <1>13 DEF DeleteRow
  <2>1. Unique'
    BY <1>0, Reach, SMTT(40) DEF TypeOK, NamesInv, Unique, NameFree
  <2>2. \A i \in Imports : ImportName(i)' /\ pc'[i] \in {"idle", "create", "done"}
    BY <1>0, Reach, SMTT(40) DEF TypeOK, NamesInv, ImportName
  <2>3. \A k \in Updates : TargetNamed(k)'
    BY <1>0, Reach, SMTT(40) DEF TypeOK, NamesInv, TargetNamed, Alive, Swapping, Deleting
  <2>4. \A k \in Updates : Numbered(k)'
    BY <1>0, Reach, SMTT(40) DEF TypeOK, NamesInv, Numbered, Alive, Swapping, Deleting
  <2>5. \A k \in Updates : OwnName(k)'
    BY <1>0, Reach, SMTT(40) DEF TypeOK, NamesInv, OwnName, Alive, Swapping, Deleting
  <2>6. \A k \in Updates, i \in Imports : NotTaken(k, i)'
    BY <1>0, Reach, SMTT(40) DEF TypeOK, NamesInv, NotTaken, Takes, ImportName, Alive, Swapping, Deleting
  <2> QED BY <2>1, <2>2, <2>3, <2>4, <2>5, <2>6 DEF NamesInv
<1>14. ASSUME NEW m \in Layers, NEW x \in Links, AddLink(x, m) PROVE NamesInv'
  <2> USE <1>14 DEF AddLink
  <2>1. Unique'
    BY <1>0, Reach, SMTT(40) DEF TypeOK, NamesInv, Unique, NameFree
  <2>2. \A i \in Imports : ImportName(i)' /\ pc'[i] \in {"idle", "create", "done"}
    BY <1>0, Reach, SMTT(40) DEF TypeOK, NamesInv, ImportName
  <2>3. \A k \in Updates : TargetNamed(k)'
    BY <1>0, Reach, SMTT(40) DEF TypeOK, NamesInv, TargetNamed, Alive, Swapping, Deleting
  <2>4. \A k \in Updates : Numbered(k)'
    BY <1>0, Reach, SMTT(40) DEF TypeOK, NamesInv, Numbered, Alive, Swapping, Deleting
  <2>5. \A k \in Updates : OwnName(k)'
    BY <1>0, Reach, SMTT(40) DEF TypeOK, NamesInv, OwnName, Alive, Swapping, Deleting
  <2>6. \A k \in Updates, i \in Imports : NotTaken(k, i)'
    BY <1>0, Reach, SMTT(40) DEF TypeOK, NamesInv, NotTaken, Takes, ImportName, Alive, Swapping, Deleting
  <2> QED BY <2>1, <2>2, <2>3, <2>4, <2>5, <2>6 DEF NamesInv
<1>15. ASSUME NEW m \in Layers, NEW n \in UserNames, RenameLayer(m, n) PROVE NamesInv'
  <2> USE <1>15 DEF RenameLayer
  <2>1. Unique'
    BY <1>0, Reach, SMTT(40) DEF TypeOK, NamesInv, Unique, NameFree
  <2>2. \A i \in Imports : ImportName(i)' /\ pc'[i] \in {"idle", "create", "done"}
    BY <1>0, Reach, SMTT(40) DEF TypeOK, NamesInv, ImportName
  <2>3. \A k \in Updates : TargetNamed(k)'
    BY <1>0, Reach, SMTT(40) DEF TypeOK, NamesInv, TargetNamed, Alive, Swapping, Deleting
  <2>4. \A k \in Updates : Numbered(k)'
    BY <1>0, Reach, SMTT(40) DEF TypeOK, NamesInv, Numbered, Alive, Swapping, Deleting
  <2>5. \A k \in Updates : OwnName(k)'
    BY <1>0, Reach, SMTT(40) DEF TypeOK, NamesInv, OwnName, Alive, Swapping, Deleting
  <2>6. \A k \in Updates, i \in Imports : NotTaken(k, i)'
    BY <1>0, Reach, SMTT(40) DEF TypeOK, NamesInv, NotTaken, Takes, ImportName, Alive, Swapping, Deleting
  <2> QED BY <2>1, <2>2, <2>3, <2>4, <2>5, <2>6 DEF NamesInv
<1>16. CASE UNCHANGED vars
  BY <1>0, <1>16 DEF vars, NamesInv, Unique, ImportName, TargetNamed, Numbered, OwnName, NotTaken, Takes, Alive
<1> QED
  BY <1>1, <1>2, <1>3, <1>4, <1>5, <1>6, <1>7, <1>8, <1>9, <1>10, <1>11, <1>12, <1>13, <1>14, <1>15, <1>16 DEF Next, Update, Delete

-----------------------------------------------------------------------------
(* No import takes the name an update has to give back, except for the     *)
(* known reasons: the target and the layer made for it guard the name      *)
(* until there is no target any more.                                      *)
THEOREM NameKept == Spec => []NameIsKept
<1>1. ASSUME IInv, NamesInv PROVE NameIsKept
  <2> SUFFICES ASSUME NEW j \in Updates, NEW i \in Imports, pc[j] = "rename", {j, i} \subseteq layers,
                      name[i] = original[j], original[i] = original[j],
                      i \notin early[j], {i, j, target[j]} \cap renamed = {}
               PROVE  FALSE
    BY DEF NameIsKept
  <2>1. pc[i] = "done"
    BY <1>1, Reach DEF NamesInv, Jobs, Unborn
  <2>2. new_name[i] = original[j]
    BY <1>1, <2>1 DEF NamesInv, ImportName
  <2>3. i = target[j]
    BY <1>1, <2>2 DEF NamesInv, NotTaken, Takes, Alive, Deleting
  <2>4. target[j] \notin layers
    BY <1>1 DEF NamesInv, TargetNamed
  <2> QED BY <2>3, <2>4
<1>2. Init => NamesInv
  BY NamesInit
<1>3. IInv /\ NamesInv /\ [Next]_vars => NamesInv'
  BY NamesNext
<1> QED BY <1>1, <1>2, <1>3, Invariance, PTL DEF Spec
=============================================================================
