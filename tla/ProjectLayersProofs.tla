------------------------- MODULE ProjectLayersProofs -------------------------
(***************************************************************************)
(* The order of a project's layers names every link once, for any number   *)
(* of requests, layers and links, as long as no request writes over a      *)
(* change it had not read.                                                 *)
(***************************************************************************)
EXTENDS ProjectLayers, FiniteSetTheorems, SequenceTheorems, WellFoundedInduction, TLAPS

(* Among the members of L, s names none twice. *)
Once(L, s) == \A i, j \in DOMAIN s : s[i] = s[j] /\ s[i] \in L => i = j

(* The ids given out so far. *)
Known == {i \in Links : i < next_id}

KnownIds ==
  /\ Linked \subseteq Known /\ ToSet(layer_order) \subseteq Known
  /\ \A r \in Requests :
       /\ ToSet(made[r]) \subseteq Known /\ ToSet(new_order[r]) \subseteq Known
       /\ seen[r] \subseteq Known /\ target[r] \in Known \cup {0}

(* A link is made by one request, once. *)
MadeOnce ==
  /\ \A r \in Requests : Once(Links, made[r])
  /\ \A r, q \in Requests : r # q => ToSet(made[r]) \cap ToSet(made[q]) = {}

(* What a request that is about to write will write. *)
Intent(r) ==
  \/ made[r] # <<>> /\ new_order[r] = made[r] \o loaded[r]
  \/ target[r] # 0 /\ Contains(loaded[r], target[r])
       /\ new_order[r] = RemoveFirst(loaded[r], target[r])
  \/ seen[r] # {} /\ Once(Links, new_order[r])

(* A request adds, removes or reorders; a removed link is gone for good. *)
Stage(r) ==
  /\ made[r] # <<>> => pc[r] \in {"link", "read", "write"} /\ target[r] = 0 /\ seen[r] = {}
  /\ target[r] # 0 => pc[r] \in {"unlink", "read", "write"} /\ seen[r] = {}
  /\ target[r] # 0 /\ pc[r] # "unlink" => target[r] \notin Linked
  /\ seen[r] # {} => pc[r] \in {"read", "write"}
  /\ pc[r] = "unlink" => target[r] # 0
  /\ pc[r] = "write" => Intent(r)

(* The array names every link but those a request still has to put there. *)
InOrder ==
  /\ \A i \in Linked : \/ i \in ToSet(layer_order) \/ i \in broken
                       \/ \E r \in Requests : i \in ToSet(made[r])
  /\ Once(Linked, layer_order)
  /\ \A r \in Requests : ToSet(made[r]) \cap Named(layer_order) = {}

Staged == \A r \in Requests : Stage(r)

Kept == overtaken \/ InOrder

-----------------------------------------------------------------------------
(* Sequences: what they hold, and what they hold once. *)
LEMMA HoldsNothing == ToSet(<<>>) = {}
BY DEF ToSet

LEMMA HoldsItsKind == ASSUME NEW S, NEW s \in Seq(S) PROVE ToSet(s) \subseteq S
BY DEF ToSet

LEMMA Appended ==
  ASSUME NEW S, NEW s \in Seq(S), NEW e \in S
  PROVE  /\ Append(s, e) \in Seq(S) /\ Append(s, e) # <<>>
         /\ ToSet(Append(s, e)) = ToSet(s) \cup {e}
         /\ \A L : Once(L, s) /\ e \notin ToSet(s) => Once(L, Append(s, e))
<1>1. /\ Append(s, e) \in Seq(S) /\ Len(Append(s, e)) = Len(s) + 1 /\ Len(s) \in Nat
      /\ DOMAIN s = 1..Len(s) /\ DOMAIN Append(s, e) = 1..(Len(s) + 1)
      /\ \A i \in 1..Len(s) : Append(s, e)[i] = s[i]
      /\ Append(s, e)[Len(s) + 1] = e
  BY AppendProperties, LenProperties
<1>2. ToSet(Append(s, e)) = ToSet(s) \cup {e}
  BY <1>1 DEF ToSet
<1>3. ASSUME NEW L, Once(L, s), e \notin ToSet(s) PROVE Once(L, Append(s, e))
  BY <1>1, <1>3 DEF ToSet, Once
<1> QED BY <1>1, <1>2, <1>3, EmptySeq

LEMMA Joined ==
  ASSUME NEW S, NEW s \in Seq(S), NEW u \in Seq(S)
  PROVE  /\ s \o u \in Seq(S)
         /\ ToSet(s \o u) = ToSet(s) \cup ToSet(u)
         /\ s # <<>> => s \o u # u
         /\ \A L : Once(L, s) /\ Once(L, u) /\ ToSet(s) \cap ToSet(u) \cap L = {} => Once(L, s \o u)
<1>1. /\ s \o u \in Seq(S) /\ Len(s) \in Nat /\ Len(u) \in Nat
      /\ Len(s \o u) = Len(s) + Len(u)
      /\ DOMAIN s = 1..Len(s) /\ DOMAIN u = 1..Len(u) /\ DOMAIN (s \o u) = 1..(Len(s) + Len(u))
      /\ \A i \in 1..(Len(s) + Len(u)) : (s \o u)[i] = IF i <= Len(s) THEN s[i] ELSE u[i - Len(s)]
  BY ConcatProperties, LenProperties
<1> DEFINE w == s \o u
<1>2. /\ w \in Seq(S) /\ Len(w) = Len(s) + Len(u) /\ DOMAIN w = 1..(Len(s) + Len(u))
      /\ \A i \in 1..Len(s) : w[i] = s[i]
      /\ \A i \in 1..Len(u) : w[Len(s) + i] = u[i]
      /\ \A i \in 1..(Len(s) + Len(u)) : i <= Len(s) \/ i - Len(s) \in 1..Len(u)
      /\ \A i \in 1..(Len(s) + Len(u)) : w[i] = IF i <= Len(s) THEN s[i] ELSE u[i - Len(s)]
  BY <1>1
<1> HIDE DEF w
<1>3. ToSet(w) = ToSet(s) \cup ToSet(u)
  <2>1. ASSUME NEW x \in ToSet(w) PROVE x \in ToSet(s) \cup ToSet(u)
    <3>1. PICK i \in 1..(Len(s) + Len(u)) : x = w[i]
      BY <1>2, <2>1 DEF ToSet
    <3>2. CASE i <= Len(s)
      <4>1. i \in DOMAIN s /\ s[i] = x
        BY <1>1, <1>2, <3>1, <3>2
      <4> QED BY <4>1 DEF ToSet
    <3>3. CASE ~(i <= Len(s))
      <4>1. i - Len(s) \in DOMAIN u /\ u[i - Len(s)] = x
        BY <1>1, <1>2, <3>1, <3>3
      <4> QED BY <4>1 DEF ToSet
    <3> QED BY <3>2, <3>3
  <2>2. ASSUME NEW x \in ToSet(s) PROVE x \in ToSet(w)
    BY <1>1, <1>2, <2>2 DEF ToSet
  <2>3. ASSUME NEW x \in ToSet(u) PROVE x \in ToSet(w)
    <3>1. PICK i \in 1..Len(u) : x = u[i]
      BY <1>1, <2>3 DEF ToSet
    <3>2. Len(s) + i \in DOMAIN w /\ w[Len(s) + i] = x
      BY <1>1, <1>2, <3>1
    <3> QED BY <3>2 DEF ToSet
  <2> QED BY <2>1, <2>2, <2>3
<1>4. ASSUME s # <<>> PROVE w # u
  <2>1. Len(s) # 0
    BY <1>4, EmptySeq, <1>1
  <2> QED BY <2>1, <1>1, <1>2
<1>5. ASSUME NEW L, Once(L, s), Once(L, u), ToSet(s) \cap ToSet(u) \cap L = {}
      PROVE  Once(L, w)
  <2> SUFFICES ASSUME NEW i \in DOMAIN w, NEW j \in DOMAIN w, w[i] = w[j], w[i] \in L
               PROVE  i = j
    BY DEF Once
  <2>1. CASE i <= Len(s) /\ j <= Len(s)
    BY <1>1, <1>2, <1>5, <2>1 DEF Once
  <2>2. CASE ~(i <= Len(s)) /\ ~(j <= Len(s))
    <3>1. /\ i - Len(s) \in DOMAIN u /\ j - Len(s) \in DOMAIN u /\ i \in Nat /\ j \in Nat
          /\ w[i] = u[i - Len(s)] /\ w[j] = u[j - Len(s)]
      BY <1>1, <1>2, <2>2
    <3>2. i - Len(s) = j - Len(s)
      BY <3>1, <1>5 DEF Once
    <3> QED BY <3>1, <3>2, <1>1
  <2>3. CASE i <= Len(s) /\ ~(j <= Len(s))
    <3>1. w[i] \in ToSet(s) /\ w[j] \in ToSet(u)
      BY <1>1, <1>2, <2>3 DEF ToSet
    <3> QED BY <3>1, <1>5
  <2>4. CASE ~(i <= Len(s)) /\ j <= Len(s)
    <3>1. w[j] \in ToSet(s)
      BY <1>1, <1>2, <2>4 DEF ToSet
    <3>2. i - Len(s) \in DOMAIN u /\ w[i] = u[i - Len(s)]
      BY <1>1, <1>2, <2>4
    <3>3. w[i] \in ToSet(u)
      BY <3>2 DEF ToSet
    <3> QED BY <3>1, <3>3, <1>5
  <2> QED BY <2>1, <2>2, <2>3, <2>4
<1> QED BY <1>2, <1>3, <1>4, <1>5 DEF w

LEMMA Least ==
  ASSUME NEW S \in SUBSET Nat, S # {}
  PROVE  Min(S) \in S
<1> DEFINE R == {ss \in Nat \X Nat : ss[1] < ss[2]}
<1>1. IsWellFoundedOn(R, Nat)
  BY NatLessThanWellFounded DEF OpToRel
<1>2. PICK x \in S : \A y \in S : ~(<<y, x>> \in R)
  <2> HIDE DEF R
  <2> QED BY <1>1, WFMin
<1>3. \A y \in S : x <= y
  <2> TAKE y \in S
  <2>1. ~(<<y, x>> \in R)
    BY <1>2
  <2> QED BY <2>1
<1> QED BY <1>3 DEF Min

LEMMA FirstIsRemoved ==
  ASSUME NEW S, NEW s \in Seq(S), NEW e, Contains(s, e)
  PROVE  \E k \in 1..Len(s) :
           s[k] = e /\ RemoveFirst(s, e) = SubSeq(s, 1, k - 1) \o SubSeq(s, k + 1, Len(s))
<1> DEFINE I == {i \in 1..Len(s) : s[i] = e}
           k == Min(I)
<1>1. I # {} /\ I \in SUBSET Nat
  BY DEF Contains
<1>2. Min(I) \in I
  <2> HIDE DEF I
  <2> QED BY <1>1, Least
<1>3. RemoveFirst(s, e) = SubSeq(s, 1, k - 1) \o SubSeq(s, k + 1, Len(s))
  BY <1>1 DEF RemoveFirst, RemoveAt, SelectInSeq
<1>4. k \in 1..Len(s) /\ s[k] = e
  BY <1>2
<1> HIDE DEF k
<1> QED BY <1>3, <1>4

(* Where the elements of the shortened sequence come from. *)
LEMMA RemovedAt ==
  ASSUME NEW S, NEW s \in Seq(S), NEW e, Contains(s, e)
  PROVE  \E k \in 1..Len(s) :
           /\ s[k] = e /\ Len(s) \in Nat /\ DOMAIN s = 1..Len(s)
           /\ RemoveFirst(s, e) \in Seq(S) /\ DOMAIN RemoveFirst(s, e) = 1..(Len(s) - 1)
           /\ \A i \in 1..(Len(s) - 1) : RemoveFirst(s, e)[i] = s[IF i < k THEN i ELSE i + 1]
<1> DEFINE w == RemoveFirst(s, e)
<1>1. PICK k \in 1..Len(s) : s[k] = e /\ w = SubSeq(s, 1, k - 1) \o SubSeq(s, k + 1, Len(s))
  BY FirstIsRemoved
<1> DEFINE a == SubSeq(s, 1, k - 1)
           b == SubSeq(s, k + 1, Len(s))
<1>2. /\ Len(s) \in Nat /\ DOMAIN s = 1..Len(s)
      /\ a \in Seq(S) /\ Len(a) = k - 1 /\ \A i \in 1..(k - 1) : a[i] = s[i]
      /\ b \in Seq(S) /\ Len(b) = Len(s) - k /\ \A i \in 1..(Len(s) - k) : b[i] = s[k + i]
  OBVIOUS
<1>0. w = a \o b
  BY <1>1
<1> HIDE DEF w, a, b
<1>3. /\ w \in Seq(S) /\ Len(w) = Len(s) - 1 /\ DOMAIN w = 1..(Len(s) - 1)
      /\ \A i \in 1..(Len(s) - 1) : w[i] = IF i <= k - 1 THEN a[i] ELSE b[i - (k - 1)]
  <2>1. Len(a) + Len(b) = Len(s) - 1
    BY <1>2
  <2>2. /\ a \o b \in Seq(S) /\ Len(a \o b) = Len(a) + Len(b) /\ DOMAIN (a \o b) = 1..Len(a \o b)
        /\ \A i \in 1..(Len(a) + Len(b)) :
             (a \o b)[i] = IF i <= Len(a) THEN a[i] ELSE b[i - Len(a)]
    BY <1>2, ConcatProperties, LenProperties
  <2> QED BY <1>0, <1>2, <2>1, <2>2
<1>4. \A i \in 1..(Len(s) - 1) : w[i] = IF i < k THEN s[i] ELSE s[i + 1]
  <2> TAKE i \in 1..(Len(s) - 1)
  <2>1. CASE i < k
    <3>1. i <= k - 1 /\ i \in 1..(k - 1)
      BY <2>1, <1>2
    <3> QED BY <1>2, <1>3, <2>1, <3>1
  <2>2. CASE ~(i < k)
    <3>1. i - (k - 1) \in 1..(Len(s) - k) /\ k + (i - (k - 1)) = i + 1
      BY <2>2, <1>2
    <3>2. w[i] = b[i - (k - 1)]
      BY <1>3, <2>2
    <3>3. b[i - (k - 1)] = s[i + 1]
      BY <1>2, <3>1
    <3> QED BY <2>2, <3>2, <3>3
  <2> QED BY <2>1, <2>2
<1> QED BY <1>1, <1>2, <1>3, <1>4 DEF w

LEMMA Removed ==
  ASSUME NEW S, NEW s \in Seq(S), NEW e, Contains(s, e)
  PROVE  /\ RemoveFirst(s, e) \in Seq(S)
         /\ ToSet(RemoveFirst(s, e)) \subseteq ToSet(s)
         /\ ToSet(s) \ {e} \subseteq ToSet(RemoveFirst(s, e))
         /\ \A L : Once(L, s) => Once(L, RemoveFirst(s, e))
<1> DEFINE w == RemoveFirst(s, e)
<1>1. PICK k \in 1..Len(s) :
        /\ s[k] = e /\ Len(s) \in Nat /\ DOMAIN s = 1..Len(s)
        /\ w \in Seq(S) /\ DOMAIN w = 1..(Len(s) - 1)
        /\ \A i \in 1..(Len(s) - 1) : w[i] = s[IF i < k THEN i ELSE i + 1]
  BY RemovedAt
<1> HIDE DEF w
<1>2. ToSet(w) \subseteq ToSet(s)
  <2> SUFFICES ASSUME NEW i \in 1..(Len(s) - 1) PROVE w[i] \in ToSet(s)
    BY <1>1 DEF ToSet
  <2>1. i \in DOMAIN s /\ i + 1 \in DOMAIN s
    BY <1>1
  <2>2. w[i] = s[i] \/ w[i] = s[i + 1]
    BY <1>1
  <2> QED BY <2>1, <2>2 DEF ToSet
<1>3. ASSUME NEW x \in ToSet(s) \ {e} PROVE x \in ToSet(w)
  <2>1. PICK i \in 1..Len(s) : x = s[i] /\ i # k
    BY <1>1, <1>3 DEF ToSet
  <2>2. CASE i < k
    <3>1. i \in DOMAIN w /\ w[i] = x
      BY <1>1, <2>1, <2>2
    <3> QED BY <3>1 DEF ToSet
  <2>3. CASE i > k
    <3>1. i - 1 \in DOMAIN w /\ w[i - 1] = x
      BY <1>1, <2>1, <2>3
    <3> QED BY <3>1 DEF ToSet
  <2> QED BY <2>1, <2>2, <2>3
<1>4. ASSUME NEW L, Once(L, s) PROVE Once(L, w)
  <2> SUFFICES ASSUME NEW i \in DOMAIN w, NEW j \in DOMAIN w, w[i] = w[j], w[i] \in L
               PROVE  i = j
    BY DEF Once
  <2> DEFINE f(n) == IF n < k THEN n ELSE n + 1
  <2>1. /\ f(i) \in DOMAIN s /\ f(j) \in DOMAIN s /\ w[i] = s[f(i)] /\ w[j] = s[f(j)]
    BY <1>1
  <2>2. f(i) = f(j)
    BY <2>1, <1>4 DEF Once
  <2> QED BY <2>2, <1>1
<1> QED BY <1>1, <1>2, <1>3, <1>4 DEF w

LEMMA Arranged ==
  ASSUME NEW S \in SUBSET Links, NEW order \in SetToSeqs(S)
  PROVE  order \in Seq(Links) /\ ToSet(order) \subseteq S /\ Once(Links, order)
<1>1. IsFiniteSet(S)
  <2>1. IsFiniteSet(1..MaxLinks)
    BY FS_Interval, ProjectLayersAssumption
  <2> QED BY <2>1, FS_Subset DEF Links
<1>2. Cardinality(S) \in Nat
  BY <1>1, FS_CardinalityType
<1>3. order \in [1..Cardinality(S) -> S] /\ \A i, j \in 1..Cardinality(S) : i # j => order[i] # order[j]
  BY DEF SetToSeqs
<1>4. order \in Seq(Links)
  BY <1>2, <1>3, IsASeq
<1> QED BY <1>3, <1>4 DEF ToSet, Once

-----------------------------------------------------------------------------
(* Types. *)
LEMMA TypeInit == ASSUME Init PROVE TypeOK
<1>1. next_id \in 1..(MaxLinks + 1)
  BY ProjectLayersAssumption DEF Init
<1>2. layer_order \in Seq(Links) /\ <<>> \in Seq(Links)
  BY EmptySeq DEF Init
<1>3. made \in [Requests -> Seq(Links)] /\ loaded \in [Requests -> Seq(Links)]
      /\ new_order \in [Requests -> Seq(Links)]
  BY <1>2 DEF Init
<1> QED BY <1>1, <1>2, <1>3 DEF Init, TypeOK

(* A request that has answered keeps nothing. *)
LEMMA Ended ==
  ASSUME TypeOK, NEW r \in Requests, End(r)
  PROVE  /\ pc' = [pc EXCEPT ![r] = "idle"]
         /\ made'[r] = <<>> /\ target'[r] = 0 /\ seen'[r] = {} /\ new_order'[r] = <<>> /\ pc'[r] = "idle"
         /\ \A q \in Requests : q # r =>
              /\ made'[q] = made[q] /\ target'[q] = target[q] /\ seen'[q] = seen[q] /\ pc'[q] = pc[q]
              /\ new_order'[q] = new_order[q] /\ loaded'[q] = loaded[q]
         /\ /\ pc' \in [Requests -> {"idle", "find", "link", "unlink", "read", "write"}]
            /\ layer_ids' \in [Requests -> SUBSET Layers]
            /\ made' \in [Requests -> Seq(Links)]
            /\ target' \in [Requests -> Links \cup {0}]
            /\ seen' \in [Requests -> SUBSET Links]
            /\ loaded' \in [Requests -> Seq(Links)]
            /\ new_order' \in [Requests -> Seq(Links)]
BY EmptySeq DEF TypeOK, End

LEMMA TypeNext ==
  ASSUME TypeOK, [Next]_vars
  PROVE  TypeOK'
<1> USE DEF TypeOK
<1>CountLayers. ASSUME NEW r \in Requests, CountLayers(r) PROVE TypeOK'
  BY <1>CountLayers DEF CountLayers, dbVars, Linked, Goto
<1>FindLayers. ASSUME NEW r \in Requests, FindLayers(r) PROVE TypeOK'
  <2>1. CASE layer_ids[r] \subseteq layers
    BY <2>1, <1>FindLayers DEF FindLayers, dbVars
  <2>2. CASE ~(layer_ids[r] \subseteq layers)
    BY <2>2, Ended, <1>FindLayers DEF FindLayers, dbVars
  <2> QED BY <2>1, <2>2
<1>CreateLink. ASSUME NEW r \in Requests, CreateLink(r) PROVE TypeOK'
  <2>1. PICK l \in layer_ids[r] \cap layers :
          /\ link' = [link EXCEPT ![next_id] = l]
          /\ layer_ids' = [layer_ids EXCEPT ![r] = @ \ {l}]
          /\ made' = [made EXCEPT ![r] = Append(@, next_id)]
    BY <1>CreateLink DEF CreateLink
  <2>2. next_id \in Links /\ next_id' = next_id + 1 /\ next_id' \in 1..(MaxLinks + 1)
    BY ProjectLayersAssumption, <1>CreateLink DEF CreateLink, Links
  <2>3. made' \in [Requests -> Seq(Links)]
    BY <2>1, <2>2, Appended
  <2>4. link' \in [Links -> Layers \cup {"none"}] /\ layer_ids' \in [Requests -> SUBSET Layers]
    BY <2>1
  <2> QED BY <2>2, <2>3, <2>4, <1>CreateLink DEF CreateLink, Goto
<1>ReadForAdd. ASSUME NEW r \in Requests, ReadForAdd(r) PROVE TypeOK'
  <2>1. made[r] \o layer_order \in Seq(Links)
    BY Joined
  <2> QED BY <2>1, <1>ReadForAdd DEF ReadForAdd, dbVars, Goto
<1>FindLink. ASSUME NEW r \in Requests, FindLink(r) PROVE TypeOK'
  BY <1>FindLink DEF FindLink, dbVars, Linked, Goto
<1>DeleteLink. ASSUME NEW r \in Requests, DeleteLink(r) PROVE TypeOK'
  BY <1>DeleteLink DEF DeleteLink, dbVars, Linked, Goto
<1>ReadForRemove. ASSUME NEW r \in Requests, ReadForRemove(r) PROVE TypeOK'
  <2>1. CASE Contains(layer_order, target[r])
    <3>1. RemoveFirst(layer_order, target[r]) \in Seq(Links)
      BY <2>1, Removed
    <3> QED BY <2>1, <3>1, <1>ReadForRemove DEF ReadForRemove, dbVars
  <2>2. CASE ~Contains(layer_order, target[r])
    BY <2>2, Ended, <1>ReadForRemove DEF ReadForRemove, dbVars
  <2> QED BY <2>1, <2>2
<1>SeeLinks. ASSUME NEW r \in Requests, SeeLinks(r) PROVE TypeOK'
  BY <1>SeeLinks DEF SeeLinks, dbVars, Linked, Goto
<1>ReadForReorder. ASSUME NEW r \in Requests, ReadForReorder(r) PROVE TypeOK'
  <2>1. PICK order \in SetToSeqs(seen[r]) : new_order' = [new_order EXCEPT ![r] = order]
    BY <1>ReadForReorder DEF ReadForReorder
  <2>2. order \in Seq(Links)
    BY Arranged
  <2> QED BY <2>1, <2>2, <1>ReadForReorder DEF ReadForReorder, dbVars, Goto
<1>WriteOrder. ASSUME NEW r \in Requests, WriteOrder(r) PROVE TypeOK'
  <2>1. overtaken' \in BOOLEAN /\ layer_order' \in Seq(Links)
    BY <1>WriteOrder DEF WriteOrder
  <2> QED BY <2>1, Ended, <1>WriteOrder DEF WriteOrder
<1>FailRequest. ASSUME NEW r \in Requests, FailRequest(r) PROVE TypeOK'
  <2>1. ToSet(made[r]) \subseteq Links
    BY HoldsItsKind
  <2> QED BY <2>1, Ended, <1>FailRequest DEF FailRequest, dbVars
<1>DeleteLayer. ASSUME NEW l \in Layers, DeleteLayer(l) PROVE TypeOK'
  BY <1>DeleteLayer DEF DeleteLayer, requestVars, dbVars, Linked, Goto
<1>stutter. CASE UNCHANGED vars
  BY <1>stutter DEF vars, dbVars, requestVars, dbVars, Linked, Goto
<1> QED
  BY <1>CountLayers, <1>FindLayers, <1>CreateLink, <1>ReadForAdd, <1>FindLink,
     <1>DeleteLink, <1>ReadForRemove, <1>SeeLinks, <1>ReadForReorder, <1>WriteOrder,
     <1>FailRequest, <1>DeleteLayer, <1>stutter DEF Next, Add, RemoveLink, Reorder

-----------------------------------------------------------------------------
(* Ids. *)
LEMMA KnownNext ==
  ASSUME TypeOK, KnownIds, [Next]_vars
  PROVE  KnownIds'
<1> USE DEF KnownIds, Known, Linked
<1>CountLayers. ASSUME NEW r \in Requests, CountLayers(r) PROVE KnownIds'
  BY <1>CountLayers DEF CountLayers, dbVars, TypeOK, Goto
<1>FindLayers. ASSUME NEW r \in Requests, FindLayers(r) PROVE KnownIds'
  <2>1. CASE layer_ids[r] \subseteq layers
    BY <2>1, <1>FindLayers DEF FindLayers, dbVars
  <2>2. CASE ~(layer_ids[r] \subseteq layers)
    <3>1. End(r) /\ UNCHANGED dbVars
      BY <2>2, <1>FindLayers DEF FindLayers
    <3>2. /\ ToSet(made'[r]) = {} /\ ToSet(new_order'[r]) = {} /\ seen'[r] = {} /\ target'[r] = 0
          /\ \A q \in Requests : q # r =>
               /\ made'[q] = made[q] /\ new_order'[q] = new_order[q]
               /\ seen'[q] = seen[q] /\ target'[q] = target[q]
      BY <3>1, Ended, HoldsNothing
    <3> QED BY <3>1, <3>2 DEF dbVars
  <2> QED BY <2>1, <2>2
<1>CreateLink. ASSUME NEW r \in Requests, CreateLink(r) PROVE KnownIds'
  <2>1. PICK l \in layer_ids[r] \cap layers :
          link' = [link EXCEPT ![next_id] = l] /\ made' = [made EXCEPT ![r] = Append(@, next_id)]
    BY <1>CreateLink DEF CreateLink
  <2>2. Known' = Known \cup {next_id} /\ UNCHANGED <<layer_order, new_order, seen, target>>
    BY <1>CreateLink DEF CreateLink, Known, Links, TypeOK
  <2>3. Linked' \subseteq Linked \cup {next_id}
    BY <2>1 DEF Linked, TypeOK
  <2>4. ToSet(made'[r]) \subseteq Known'
    BY <2>1, <2>2, Appended, <1>CreateLink DEF CreateLink, TypeOK
  <2>5. \A q \in Requests : q # r => made'[q] = made[q]
    BY <2>1 DEF TypeOK
  <2> HIDE DEF Known, Linked
  <2> QED BY <2>2, <2>3, <2>4, <2>5
<1>ReadForAdd. ASSUME NEW r \in Requests, ReadForAdd(r) PROVE KnownIds'
  <2>1. ToSet(made[r] \o layer_order) \subseteq Known
    BY Joined DEF TypeOK
  <2>2. \A q \in Requests : ToSet(new_order'[q]) \subseteq Known
    BY <2>1, <1>ReadForAdd DEF ReadForAdd, TypeOK
  <2> QED BY <2>2, <1>ReadForAdd DEF ReadForAdd, dbVars
<1>FindLink. ASSUME NEW r \in Requests, FindLink(r) PROVE KnownIds'
  <2>1. PICK i \in Linked : target' = [target EXCEPT ![r] = i]
    BY <1>FindLink DEF FindLink
  <2> QED BY <2>1, <1>FindLink DEF FindLink, dbVars, TypeOK
<1>DeleteLink. ASSUME NEW r \in Requests, DeleteLink(r) PROVE KnownIds'
  <2>1. Linked' \subseteq Linked /\ Known' = Known /\ UNCHANGED <<layer_order, made, new_order, seen, target>>
    BY <1>DeleteLink DEF DeleteLink, TypeOK
  <2> HIDE DEF Known, Linked
  <2> QED BY <2>1
<1>ReadForRemove. ASSUME NEW r \in Requests, ReadForRemove(r) PROVE KnownIds'
  <2>1. CASE Contains(layer_order, target[r])
    <3>1. ToSet(RemoveFirst(layer_order, target[r])) \subseteq Known
      BY <2>1, Removed DEF TypeOK
    <3>2. \A q \in Requests : ToSet(new_order'[q]) \subseteq Known
      BY <2>1, <3>1, <1>ReadForRemove DEF ReadForRemove, TypeOK
    <3> QED BY <2>1, <3>2, <1>ReadForRemove DEF ReadForRemove, dbVars
  <2>2. CASE ~Contains(layer_order, target[r])
    <3>1. End(r) /\ UNCHANGED dbVars
      BY <2>2, <1>ReadForRemove DEF ReadForRemove
    <3>2. /\ ToSet(made'[r]) = {} /\ ToSet(new_order'[r]) = {} /\ seen'[r] = {} /\ target'[r] = 0
          /\ \A q \in Requests : q # r =>
               /\ made'[q] = made[q] /\ new_order'[q] = new_order[q]
               /\ seen'[q] = seen[q] /\ target'[q] = target[q]
      BY <3>1, Ended, HoldsNothing
    <3> QED BY <3>1, <3>2 DEF dbVars
  <2> QED BY <2>1, <2>2
<1>SeeLinks. ASSUME NEW r \in Requests, SeeLinks(r) PROVE KnownIds'
  BY <1>SeeLinks DEF SeeLinks, dbVars, TypeOK, Goto
<1>ReadForReorder. ASSUME NEW r \in Requests, ReadForReorder(r) PROVE KnownIds'
  <2>1. PICK order \in SetToSeqs(seen[r]) : new_order' = [new_order EXCEPT ![r] = order]
    BY <1>ReadForReorder DEF ReadForReorder
  <2>2. ToSet(order) \subseteq Known
    BY Arranged DEF TypeOK
  <2>3. \A q \in Requests : ToSet(new_order'[q]) \subseteq Known
    BY <2>1, <2>2 DEF TypeOK
  <2> QED BY <2>3, <1>ReadForReorder DEF ReadForReorder, dbVars
<1>WriteOrder. ASSUME NEW r \in Requests, WriteOrder(r) PROVE KnownIds'
  <2>1. /\ ToSet(made'[r]) = {} /\ ToSet(new_order'[r]) = {} /\ seen'[r] = {} /\ target'[r] = 0
        /\ \A q \in Requests : q # r =>
             /\ made'[q] = made[q] /\ new_order'[q] = new_order[q]
             /\ seen'[q] = seen[q] /\ target'[q] = target[q]
    BY <1>WriteOrder, Ended, HoldsNothing DEF WriteOrder
  <2>2. ToSet(layer_order') \subseteq Known /\ UNCHANGED <<link, next_id>>
    BY <1>WriteOrder DEF WriteOrder
  <2> QED BY <2>1, <2>2
<1>FailRequest. ASSUME NEW r \in Requests, FailRequest(r) PROVE KnownIds'
  <2>1. /\ ToSet(made'[r]) = {} /\ ToSet(new_order'[r]) = {} /\ seen'[r] = {} /\ target'[r] = 0
        /\ \A q \in Requests : q # r =>
             /\ made'[q] = made[q] /\ new_order'[q] = new_order[q]
             /\ seen'[q] = seen[q] /\ target'[q] = target[q]
    BY <1>FailRequest, Ended, HoldsNothing DEF FailRequest
  <2> QED BY <2>1, <1>FailRequest DEF FailRequest, dbVars
<1>DeleteLayer. ASSUME NEW l \in Layers, DeleteLayer(l) PROVE KnownIds'
  <2>1. Linked' \subseteq Linked /\ Known' = Known /\ UNCHANGED <<layer_order, made, new_order, seen, target>>
    BY <1>DeleteLayer DEF DeleteLayer, requestVars, TypeOK
  <2> HIDE DEF Known, Linked
  <2> QED BY <2>1
<1>stutter. CASE UNCHANGED vars
  BY <1>stutter DEF vars, dbVars, requestVars, dbVars, TypeOK, Goto
<1> QED
  BY <1>CountLayers, <1>FindLayers, <1>CreateLink, <1>ReadForAdd, <1>FindLink,
     <1>DeleteLink, <1>ReadForRemove, <1>SeeLinks, <1>ReadForReorder, <1>WriteOrder,
     <1>FailRequest, <1>DeleteLayer, <1>stutter DEF Next, Add, RemoveLink, Reorder

LEMMA EmptyOnce == \A L : Once(L, <<>>)
BY DEF Once

LEMMA MadeOnceNext ==
  ASSUME TypeOK, KnownIds, MadeOnce, [Next]_vars
  PROVE  MadeOnce'
<1> USE DEF MadeOnce
<1>CountLayers. ASSUME NEW r \in Requests, CountLayers(r) PROVE MadeOnce'
  BY <1>CountLayers DEF CountLayers, dbVars, Goto
<1>FindLayers. ASSUME NEW r \in Requests, FindLayers(r) PROVE MadeOnce'
  <2>1. End(r) \/ made' = made
    BY <1>FindLayers DEF FindLayers
  <2>2. CASE made' = made
    BY <2>2
  <2>3. CASE End(r)
    <3>1. made'[r] = <<>> /\ \A q \in Requests : q # r => made'[q] = made[q]
      BY <2>3, Ended
    <3> QED BY <3>1, EmptyOnce, HoldsNothing
  <2> QED BY <2>1, <2>2, <2>3
<1>CreateLink. ASSUME NEW r \in Requests, CreateLink(r) PROVE MadeOnce'
  <2>1. made' = [made EXCEPT ![r] = Append(@, next_id)] /\ next_id \in Links
    BY <1>CreateLink DEF CreateLink
  <2>2. \A q \in Requests : next_id \notin ToSet(made[q])
    BY DEF KnownIds, Known, TypeOK
  <2>3. /\ ToSet(made'[r]) = ToSet(made[r]) \cup {next_id} /\ Once(Links, made'[r])
    BY <2>1, <2>2, Appended DEF TypeOK
  <2>4. \A q \in Requests : q # r => made'[q] = made[q]
    BY <2>1 DEF TypeOK
  <2> QED BY <2>2, <2>3, <2>4
<1>ReadForAdd. ASSUME NEW r \in Requests, ReadForAdd(r) PROVE MadeOnce'
  BY <1>ReadForAdd DEF ReadForAdd, dbVars, Goto
<1>FindLink. ASSUME NEW r \in Requests, FindLink(r) PROVE MadeOnce'
  BY <1>FindLink DEF FindLink, dbVars, Goto
<1>DeleteLink. ASSUME NEW r \in Requests, DeleteLink(r) PROVE MadeOnce'
  BY <1>DeleteLink DEF DeleteLink, dbVars, Goto
<1>ReadForRemove. ASSUME NEW r \in Requests, ReadForRemove(r) PROVE MadeOnce'
  <2>1. End(r) \/ made' = made
    BY <1>ReadForRemove DEF ReadForRemove
  <2>2. CASE made' = made
    BY <2>2
  <2>3. CASE End(r)
    <3>1. made'[r] = <<>> /\ \A q \in Requests : q # r => made'[q] = made[q]
      BY <2>3, Ended
    <3> QED BY <3>1, EmptyOnce, HoldsNothing
  <2> QED BY <2>1, <2>2, <2>3
<1>SeeLinks. ASSUME NEW r \in Requests, SeeLinks(r) PROVE MadeOnce'
  BY <1>SeeLinks DEF SeeLinks, dbVars, Goto
<1>ReadForReorder. ASSUME NEW r \in Requests, ReadForReorder(r) PROVE MadeOnce'
  BY <1>ReadForReorder DEF ReadForReorder, dbVars, Goto
<1>WriteOrder. ASSUME NEW r \in Requests, WriteOrder(r) PROVE MadeOnce'
  <2>1. End(r)
    BY <1>WriteOrder DEF WriteOrder
  <2>2. made'[r] = <<>> /\ \A q \in Requests : q # r => made'[q] = made[q]
    BY <2>1, Ended
  <2> QED BY <2>2, EmptyOnce, HoldsNothing
<1>FailRequest. ASSUME NEW r \in Requests, FailRequest(r) PROVE MadeOnce'
  <2>1. End(r)
    BY <1>FailRequest DEF FailRequest
  <2>2. made'[r] = <<>> /\ \A q \in Requests : q # r => made'[q] = made[q]
    BY <2>1, Ended
  <2> QED BY <2>2, EmptyOnce, HoldsNothing
<1>DeleteLayer. ASSUME NEW l \in Layers, DeleteLayer(l) PROVE MadeOnce'
  BY <1>DeleteLayer DEF DeleteLayer, requestVars, dbVars, Goto
<1>stutter. CASE UNCHANGED vars
  BY <1>stutter DEF vars, dbVars, requestVars, dbVars, Goto
<1> QED
  BY <1>CountLayers, <1>FindLayers, <1>CreateLink, <1>ReadForAdd, <1>FindLink,
     <1>DeleteLink, <1>ReadForRemove, <1>SeeLinks, <1>ReadForReorder, <1>WriteOrder,
     <1>FailRequest, <1>DeleteLayer, <1>stutter DEF Next, Add, RemoveLink, Reorder

-----------------------------------------------------------------------------
(* Requests. *)
LEMMA OthersStay ==
  ASSUME KnownIds, NEW q \in Requests, Stage(q), Linked' \subseteq Linked \cup {next_id},
         made'[q] = made[q], target'[q] = target[q], seen'[q] = seen[q], pc'[q] = pc[q],
         new_order'[q] = new_order[q], loaded'[q] = loaded[q]
  PROVE  Stage(q)'
<1>1. target[q] # 0 => target[q] # next_id
  BY ProjectLayersAssumption DEF KnownIds, Known, Links
<1>2. target'[q] # 0 /\ pc'[q] # "unlink" => target'[q] \notin Linked'
  BY <1>1 DEF Stage
<1>3. Intent(q) => Intent(q)'
  BY DEF Intent
<1> QED BY <1>2, <1>3 DEF Stage

LEMMA EndStays ==
  ASSUME TypeOK, KnownIds, Staged, NEW r \in Requests, End(r), Linked' = Linked
  PROVE  Staged'
<1>1. Stage(r)'
  BY Ended DEF Stage
<1>2. ASSUME NEW q \in Requests, q # r PROVE Stage(q)'
  BY <1>2, Ended, OthersStay DEF Staged
<1> QED BY <1>1, <1>2 DEF Staged

LEMMA StagedNext ==
  ASSUME TypeOK, KnownIds, Staged, [Next]_vars
  PROVE  Staged'
<1>CountLayers. ASSUME NEW r \in Requests, CountLayers(r) PROVE Staged'
  <2>1. Linked' = Linked
    BY <1>CountLayers DEF CountLayers, dbVars, Linked, TypeOK
  <2>2. Stage(r)'
    BY <1>CountLayers DEF CountLayers, Goto, TypeOK, Staged, Stage, Intent
  <2>3. ASSUME NEW q \in Requests, q # r PROVE Stage(q)'
    <3>1. /\ made'[q] = made[q] /\ target'[q] = target[q] /\ seen'[q] = seen[q] /\ pc'[q] = pc[q]
          /\ new_order'[q] = new_order[q] /\ loaded'[q] = loaded[q]
      BY <2>3, <1>CountLayers DEF CountLayers, Goto, TypeOK
    <3> QED BY <2>1, <3>1, OthersStay DEF Staged
  <2> QED BY <2>2, <2>3 DEF Staged
<1>FindLayers. ASSUME NEW r \in Requests, FindLayers(r) PROVE Staged'
  <2>1. CASE layer_ids[r] \subseteq layers
    <3>1. Linked' = Linked
      BY <2>1, <1>FindLayers DEF FindLayers, dbVars, Linked, TypeOK
    <3>2. Stage(r)'
      BY <2>1, <1>FindLayers DEF FindLayers, Goto, TypeOK, Staged, Stage, Intent
    <3>3. ASSUME NEW q \in Requests, q # r PROVE Stage(q)'
      <4>1. /\ made'[q] = made[q] /\ target'[q] = target[q] /\ seen'[q] = seen[q] /\ pc'[q] = pc[q]
            /\ new_order'[q] = new_order[q] /\ loaded'[q] = loaded[q]
        BY <2>1, <3>3, <1>FindLayers DEF FindLayers, Goto, TypeOK
      <4> QED BY <2>1, <3>1, <4>1, OthersStay DEF Staged
    <3> QED BY <2>1, <3>2, <3>3 DEF Staged
  <2>2. CASE ~(layer_ids[r] \subseteq layers)
    <3>1. End(r) /\ Linked' = Linked
      BY <2>2, <1>FindLayers DEF FindLayers, dbVars, Linked
    <3> QED BY <3>1, EndStays
  <2> QED BY <2>1, <2>2
<1>CreateLink. ASSUME NEW r \in Requests, CreateLink(r) PROVE Staged'
  <2>0. PICK l \in layer_ids[r] \cap layers :
          link' = [link EXCEPT ![next_id] = l] /\ made' = [made EXCEPT ![r] = Append(@, next_id)]
    BY <1>CreateLink DEF CreateLink
  <2>1. Linked' \subseteq Linked \cup {next_id}
    BY <2>0 DEF Linked, TypeOK
  <2>2. Stage(r)'
    <3>1. pc[r] = "link" /\ pc'[r] \in {"link", "read"} /\ UNCHANGED <<target, seen>>
      BY <1>CreateLink DEF CreateLink, Goto, TypeOK
    <3>2. target[r] = 0 /\ seen[r] = {}
      BY <3>1 DEF Staged, Stage
    <3> QED BY <3>1, <3>2 DEF Stage
  <2>3. ASSUME NEW q \in Requests, q # r PROVE Stage(q)'
    <3>1. /\ made'[q] = made[q] /\ target'[q] = target[q] /\ seen'[q] = seen[q] /\ pc'[q] = pc[q]
          /\ new_order'[q] = new_order[q] /\ loaded'[q] = loaded[q]
      BY <2>3, <1>CreateLink DEF CreateLink, Goto, TypeOK
    <3> QED BY <2>1, <3>1, OthersStay DEF Staged
  <2> QED BY <2>2, <2>3 DEF Staged
<1>ReadForAdd. ASSUME NEW r \in Requests, ReadForAdd(r) PROVE Staged'
  <2>1. Linked' = Linked
    BY <1>ReadForAdd DEF ReadForAdd, dbVars, Linked, TypeOK
  <2>2. Stage(r)'
    BY <1>ReadForAdd DEF ReadForAdd, Goto, TypeOK, Staged, Stage, Intent
  <2>3. ASSUME NEW q \in Requests, q # r PROVE Stage(q)'
    <3>1. /\ made'[q] = made[q] /\ target'[q] = target[q] /\ seen'[q] = seen[q] /\ pc'[q] = pc[q]
          /\ new_order'[q] = new_order[q] /\ loaded'[q] = loaded[q]
      BY <2>3, <1>ReadForAdd DEF ReadForAdd, Goto, TypeOK
    <3> QED BY <2>1, <3>1, OthersStay DEF Staged
  <2> QED BY <2>2, <2>3 DEF Staged
<1>FindLink. ASSUME NEW r \in Requests, FindLink(r) PROVE Staged'
  <2>1. Linked' = Linked
    BY <1>FindLink DEF FindLink, dbVars, Linked, TypeOK
  <2>2. Stage(r)'
    BY <1>FindLink DEF FindLink, Goto, TypeOK, Staged, Stage, Intent, Linked, Links
  <2>3. ASSUME NEW q \in Requests, q # r PROVE Stage(q)'
    <3>1. /\ made'[q] = made[q] /\ target'[q] = target[q] /\ seen'[q] = seen[q] /\ pc'[q] = pc[q]
          /\ new_order'[q] = new_order[q] /\ loaded'[q] = loaded[q]
      BY <2>3, <1>FindLink DEF FindLink, Goto, TypeOK
    <3> QED BY <2>1, <3>1, OthersStay DEF Staged
  <2> QED BY <2>2, <2>3 DEF Staged
<1>DeleteLink. ASSUME NEW r \in Requests, DeleteLink(r) PROVE Staged'
  <2>1. Linked' \subseteq Linked \cup {next_id}
    BY <1>DeleteLink DEF DeleteLink, dbVars, Linked, TypeOK
  <2>2. Stage(r)'
    BY <1>DeleteLink DEF DeleteLink, Goto, TypeOK, Staged, Stage, Intent, Linked, Links
  <2>3. ASSUME NEW q \in Requests, q # r PROVE Stage(q)'
    <3>1. /\ made'[q] = made[q] /\ target'[q] = target[q] /\ seen'[q] = seen[q] /\ pc'[q] = pc[q]
          /\ new_order'[q] = new_order[q] /\ loaded'[q] = loaded[q]
      BY <2>3, <1>DeleteLink DEF DeleteLink, Goto, TypeOK
    <3> QED BY <2>1, <3>1, OthersStay DEF Staged
  <2> QED BY <2>2, <2>3 DEF Staged
<1>ReadForRemove. ASSUME NEW r \in Requests, ReadForRemove(r) PROVE Staged'
  <2>1. CASE Contains(layer_order, target[r])
    <3>1. Linked' = Linked
      BY <2>1, <1>ReadForRemove DEF ReadForRemove, dbVars, Linked, TypeOK
    <3>2. Stage(r)'
      <4>1. /\ pc[r] = "read" /\ target[r] # 0 /\ pc'[r] = "write" /\ UNCHANGED <<made, target, seen>>
            /\ loaded'[r] = layer_order /\ new_order'[r] = RemoveFirst(layer_order, target[r])
        BY <2>1, <1>ReadForRemove DEF ReadForRemove, TypeOK
      <4>2. made[r] = <<>> /\ seen[r] = {} /\ target[r] \notin Linked
        BY <4>1 DEF Staged, Stage
      <4> QED BY <2>1, <3>1, <4>1, <4>2 DEF Stage, Intent
    <3>3. ASSUME NEW q \in Requests, q # r PROVE Stage(q)'
      <4>1. /\ made'[q] = made[q] /\ target'[q] = target[q] /\ seen'[q] = seen[q] /\ pc'[q] = pc[q]
            /\ new_order'[q] = new_order[q] /\ loaded'[q] = loaded[q]
        BY <2>1, <3>3, <1>ReadForRemove DEF ReadForRemove, Goto, TypeOK
      <4> QED BY <2>1, <3>1, <4>1, OthersStay DEF Staged
    <3> QED BY <2>1, <3>2, <3>3 DEF Staged
  <2>2. CASE ~Contains(layer_order, target[r])
    <3>1. End(r) /\ Linked' = Linked
      BY <2>2, <1>ReadForRemove DEF ReadForRemove, dbVars, Linked
    <3> QED BY <3>1, EndStays
  <2> QED BY <2>1, <2>2
<1>SeeLinks. ASSUME NEW r \in Requests, SeeLinks(r) PROVE Staged'
  <2>1. Linked' = Linked
    BY <1>SeeLinks DEF SeeLinks, dbVars, Linked, TypeOK
  <2>2. Stage(r)'
    BY <1>SeeLinks DEF SeeLinks, Goto, TypeOK, Staged, Stage, Intent
  <2>3. ASSUME NEW q \in Requests, q # r PROVE Stage(q)'
    <3>1. /\ made'[q] = made[q] /\ target'[q] = target[q] /\ seen'[q] = seen[q] /\ pc'[q] = pc[q]
          /\ new_order'[q] = new_order[q] /\ loaded'[q] = loaded[q]
      BY <2>3, <1>SeeLinks DEF SeeLinks, Goto, TypeOK
    <3> QED BY <2>1, <3>1, OthersStay DEF Staged
  <2> QED BY <2>2, <2>3 DEF Staged
<1>ReadForReorder. ASSUME NEW r \in Requests, ReadForReorder(r) PROVE Staged'
  <2>0. PICK order \in SetToSeqs(seen[r]) : new_order' = [new_order EXCEPT ![r] = order]
    BY <1>ReadForReorder DEF ReadForReorder
  <2>1. Linked' = Linked
    BY <1>ReadForReorder DEF ReadForReorder, dbVars, Linked
  <2>2. Stage(r)'
    <3>1. Once(Links, order)
      BY Arranged DEF TypeOK
    <3>2. Once(Links, new_order'[r])
      BY <3>1, <2>0 DEF TypeOK
    <3>3. /\ pc[r] = "read" /\ pc'[r] = "write" /\ seen[r] # {} /\ UNCHANGED <<made, target, seen>>
      BY <1>ReadForReorder DEF ReadForReorder, Goto, TypeOK
    <3>4. made[r] = <<>> /\ target[r] = 0
      BY <3>3 DEF Staged, Stage
    <3> QED BY <3>2, <3>3, <3>4 DEF Stage, Intent
  <2>3. ASSUME NEW q \in Requests, q # r PROVE Stage(q)'
    <3>1. /\ made'[q] = made[q] /\ target'[q] = target[q] /\ seen'[q] = seen[q] /\ pc'[q] = pc[q]
          /\ new_order'[q] = new_order[q] /\ loaded'[q] = loaded[q]
      BY <2>3, <1>ReadForReorder DEF ReadForReorder, Goto, TypeOK
    <3> QED BY <2>1, <3>1, OthersStay DEF Staged
  <2> QED BY <2>2, <2>3 DEF Staged
<1>WriteOrder. ASSUME NEW r \in Requests, WriteOrder(r) PROVE Staged'
  <2>1. End(r) /\ Linked' = Linked
    BY <1>WriteOrder DEF WriteOrder, dbVars, Linked
  <2> QED BY <2>1, EndStays
<1>FailRequest. ASSUME NEW r \in Requests, FailRequest(r) PROVE Staged'
  <2>1. End(r) /\ Linked' = Linked
    BY <1>FailRequest DEF FailRequest, dbVars, Linked
  <2> QED BY <2>1, EndStays
<1>DeleteLayer. ASSUME NEW l \in Layers, DeleteLayer(l) PROVE Staged'
  <2>1. Linked' \subseteq Linked \cup {next_id} /\ UNCHANGED requestVars
    BY <1>DeleteLayer DEF DeleteLayer, Linked, TypeOK
  <2> QED BY <2>1, OthersStay DEF requestVars, Staged
<1>stutter. CASE UNCHANGED vars
  <2>1. Linked' \subseteq Linked \cup {next_id} /\ UNCHANGED requestVars
    BY <1>stutter DEF vars, dbVars, Linked
  <2> QED BY <2>1, OthersStay DEF requestVars, Staged
<1> QED
  BY <1>CountLayers, <1>FindLayers, <1>CreateLink, <1>ReadForAdd, <1>FindLink,
     <1>DeleteLink, <1>ReadForRemove, <1>SeeLinks, <1>ReadForReorder, <1>WriteOrder,
     <1>FailRequest, <1>DeleteLayer, <1>stutter DEF Next, Add, RemoveLink, Reorder

-----------------------------------------------------------------------------
(* The order. *)
LEMMA StillInOrder ==
  ASSUME InOrder, Linked' \subseteq Linked, UNCHANGED <<layer_order, broken>>,
         \A r \in Requests : made'[r] = made[r]
  PROVE  InOrder'
<1>1. Once(Linked', layer_order')
  BY DEF InOrder, Once
<1>2. \A i \in Linked' : \/ i \in ToSet(layer_order') \/ i \in broken'
                         \/ \E r \in Requests : i \in ToSet(made'[r])
  BY DEF InOrder
<1>3. \A r \in Requests : ToSet(made'[r]) \cap Named(layer_order)' = {}
  BY DEF InOrder, Named
<1> QED BY <1>1, <1>2, <1>3 DEF InOrder

(* A request that had made nothing leaves nothing behind. *)
LEMMA EndsWithNothing ==
  ASSUME TypeOK, NEW r \in Requests, End(r), made[r] = <<>>
  PROVE  \A q \in Requests : made'[q] = made[q]
BY Ended

(* A request about to write, whose copy of the array is not stale, writes  *)
(* one that names what the array named and what the request has made, less *)
(* the link it took away, nothing twice.                                   *)
LEMMA WritesWhatIsThere ==
  ASSUME TypeOK, Staged, MadeOnce, InOrder, NEW r \in Requests, pc[r] = "write",
         ~Overtakes(r)
  PROVE  /\ \A i \in Linked : i \in ToSet(layer_order) \/ i \in ToSet(made[r])
              => i \in ToSet(new_order[r])
         /\ Once(Linked, new_order[r])
         /\ Named(new_order[r]) \subseteq ToSet(layer_order) \cup ToSet(made[r])
<1>0. /\ made[r] \in Seq(Links) /\ layer_order \in Seq(Links) /\ loaded[r] \in Seq(Links)
      /\ Linked \subseteq Links /\ Stage(r) /\ Intent(r)
  BY DEF TypeOK, Linked, Staged, Stage
<1>1. CASE made[r] # <<>> /\ new_order[r] = made[r] \o loaded[r]
  <2>1. loaded[r] = layer_order
    BY <1>0, <1>1 DEF Stage, Overtakes
  <2>2. Once(Linked, made[r]) /\ Once(Linked, layer_order) /\ ToSet(made[r]) \cap ToSet(layer_order) \cap Linked = {}
    BY <1>0 DEF MadeOnce, Once, InOrder, Named
  <2>3. /\ ToSet(new_order[r]) = ToSet(made[r]) \cup ToSet(layer_order)
        /\ Once(Linked, new_order[r]) /\ new_order[r] # loaded[r]
    BY <1>0, <1>1, <2>1, <2>2, Joined
  <2> QED BY <2>3 DEF Named
<1>2. CASE /\ target[r] # 0 /\ Contains(loaded[r], target[r])
           /\ new_order[r] = RemoveFirst(loaded[r], target[r])
  <2>1. seen[r] = {} /\ made[r] = <<>> /\ target[r] \notin Linked
    BY <1>0, <1>2 DEF Stage
  <2>2. loaded[r] = layer_order
    BY <2>1 DEF Overtakes
  <2>3. /\ ToSet(new_order[r]) \subseteq ToSet(layer_order)
        /\ ToSet(layer_order) \ {target[r]} \subseteq ToSet(new_order[r])
        /\ Once(Linked, new_order[r])
    BY <1>0, <1>2, <2>2, Removed DEF InOrder
  <2> QED BY <2>1, <2>3, HoldsNothing DEF Named
<1>3. CASE seen[r] # {} /\ Once(Links, new_order[r])
  <2>1. made[r] = <<>>
    BY <1>0, <1>3 DEF Stage
  <2>2. Named(new_order[r]) = Named(layer_order)
    BY <1>3 DEF Overtakes
  <2>3. Once(Linked, new_order[r])
    BY <1>0, <1>3 DEF Once
  <2> QED BY <2>1, <2>2, <2>3, HoldsNothing DEF Named
<1> QED BY <1>0, <1>1, <1>2, <1>3 DEF Intent

LEMMA InOrderNext ==
  ASSUME TypeOK, KnownIds, MadeOnce, Staged, InOrder, ~overtaken', [Next]_vars
  PROVE  InOrder'
<1>CountLayers. ASSUME NEW r \in Requests, CountLayers(r) PROVE InOrder'
  BY StillInOrder, <1>CountLayers DEF CountLayers, dbVars, Linked
<1>FindLayers. ASSUME NEW r \in Requests, FindLayers(r) PROVE InOrder'
  <2>1. made[r] = <<>>
    BY <1>FindLayers DEF FindLayers, Staged, Stage
  <2>2. made' = made \/ End(r)
    BY <1>FindLayers DEF FindLayers
  <2>3. \A q \in Requests : made'[q] = made[q]
    BY <2>1, <2>2, EndsWithNothing
  <2>4. Linked' = Linked /\ UNCHANGED <<layer_order, broken>>
    BY <1>FindLayers DEF FindLayers, dbVars, Linked
  <2> QED BY <2>3, <2>4, StillInOrder
<1>CreateLink. ASSUME NEW r \in Requests, CreateLink(r) PROVE InOrder'
  <2>1. PICK l \in layer_ids[r] \cap layers :
          link' = [link EXCEPT ![next_id] = l] /\ made' = [made EXCEPT ![r] = Append(@, next_id)]
    BY <1>CreateLink DEF CreateLink
  <2>2. Linked' \subseteq Linked \cup {next_id} /\ UNCHANGED <<layer_order, broken>> /\ next_id \in Links
    BY <2>1, <1>CreateLink DEF CreateLink, Linked, TypeOK
  <2>3. /\ next_id \notin ToSet(layer_order) /\ next_id \notin Linked
    BY <2>2 DEF KnownIds, Known, Links
  <2>4. /\ ToSet(made'[r]) = ToSet(made[r]) \cup {next_id}
        /\ \A q \in Requests : q # r => made'[q] = made[q]
    BY <2>1, <2>2, Appended DEF TypeOK
  <2>5. Once(Linked', layer_order')
    <3>1. \A i \in DOMAIN layer_order : layer_order[i] # next_id
      BY <2>3 DEF ToSet
    <3> QED BY <2>2, <3>1 DEF InOrder, Once
  <2>6. \A i \in Linked' : \/ i \in ToSet(layer_order') \/ i \in broken'
                           \/ \E q \in Requests : i \in ToSet(made'[q])
    <3> TAKE i \in Linked'
    <3>1. CASE i = next_id
      BY <3>1, <2>4
    <3>2. CASE i \in Linked
      BY <3>2, <2>2, <2>4 DEF InOrder
    <3> QED BY <3>1, <3>2, <2>2
  <2>7. \A q \in Requests : ToSet(made'[q]) \cap Named(layer_order)' = {}
    BY <2>2, <2>3, <2>4 DEF InOrder, Named
  <2> QED BY <2>5, <2>6, <2>7 DEF InOrder
<1>ReadForAdd. ASSUME NEW r \in Requests, ReadForAdd(r) PROVE InOrder'
  BY StillInOrder, <1>ReadForAdd DEF ReadForAdd, dbVars, Linked
<1>FindLink. ASSUME NEW r \in Requests, FindLink(r) PROVE InOrder'
  BY StillInOrder, <1>FindLink DEF FindLink, dbVars, Linked
<1>DeleteLink. ASSUME NEW r \in Requests, DeleteLink(r) PROVE InOrder'
  <2>1. Linked' \subseteq Linked
    BY <1>DeleteLink DEF DeleteLink, Linked, TypeOK
  <2> QED BY <2>1, StillInOrder, <1>DeleteLink DEF DeleteLink
<1>ReadForRemove. ASSUME NEW r \in Requests, ReadForRemove(r) PROVE InOrder'
  <2>1. made[r] = <<>>
    BY <1>ReadForRemove DEF ReadForRemove, Staged, Stage
  <2>2. made' = made \/ End(r)
    BY <1>ReadForRemove DEF ReadForRemove
  <2>3. \A q \in Requests : made'[q] = made[q]
    BY <2>1, <2>2, EndsWithNothing
  <2>4. Linked' = Linked /\ UNCHANGED <<layer_order, broken>>
    BY <1>ReadForRemove DEF ReadForRemove, dbVars, Linked
  <2> QED BY <2>3, <2>4, StillInOrder
<1>SeeLinks. ASSUME NEW r \in Requests, SeeLinks(r) PROVE InOrder'
  BY StillInOrder, <1>SeeLinks DEF SeeLinks, dbVars, Linked
<1>ReadForReorder. ASSUME NEW r \in Requests, ReadForReorder(r) PROVE InOrder'
  BY StillInOrder, <1>ReadForReorder DEF ReadForReorder, dbVars, Linked
<1>WriteOrder. ASSUME NEW r \in Requests, WriteOrder(r) PROVE InOrder'
  <2>1. /\ pc[r] = "write" /\ End(r) /\ Linked' = Linked /\ broken' = broken
    BY <1>WriteOrder DEF WriteOrder, Linked
  <2>2. ToSet(made'[r]) = {} /\ \A q \in Requests : q # r => made'[q] = made[q]
    BY <2>1, Ended, HoldsNothing
  <2>3. CASE new_order[r] = loaded[r]
    <3>1. made[r] = <<>>
      <4>1. made[r] # <<>> => new_order[r] = made[r] \o loaded[r]
        BY <2>1 DEF Staged, Stage, Intent
      <4> QED BY <2>3, <4>1, Joined DEF TypeOK
    <3> QED BY <2>1, <2>3, <3>1, EndsWithNothing, StillInOrder, <1>WriteOrder DEF WriteOrder
  <2>4. CASE new_order[r] # loaded[r]
    <3>1. layer_order' = new_order[r] /\ ~Overtakes(r)
      BY <2>4, <1>WriteOrder DEF WriteOrder
    <3>2. /\ \A i \in Linked : i \in ToSet(layer_order) \/ i \in ToSet(made[r])
               => i \in ToSet(layer_order')
          /\ Once(Linked, layer_order')
          /\ Named(layer_order)' \subseteq ToSet(layer_order) \cup ToSet(made[r])
      BY <2>1, <3>1, WritesWhatIsThere DEF Named
    <3>3. \A i \in Linked' : \/ i \in ToSet(layer_order') \/ i \in broken'
                             \/ \E q \in Requests : i \in ToSet(made'[q])
      <4> TAKE i \in Linked'
      <4>1. CASE i \in ToSet(layer_order) \/ i \in broken \/ i \in ToSet(made[r])
        BY <4>1, <2>1, <3>2
      <4>2. ASSUME NEW q \in Requests, i \in ToSet(made[q]), q # r
            PROVE  \E p \in Requests : i \in ToSet(made'[p])
        BY <4>2, <2>2
      <4> QED BY <2>1, <4>1, <4>2 DEF InOrder
    <3>4. \A q \in Requests : ToSet(made'[q]) \cap Named(layer_order)' = {}
      <4>1. ASSUME NEW q \in Requests, q # r, NEW i \in ToSet(made[q]), i \in Named(layer_order)'
            PROVE  FALSE
        <5>1. i \in Linked /\ i \notin ToSet(made[r])
          BY <2>1, <4>1 DEF Named, MadeOnce
        <5> QED BY <5>1, <4>1, <3>2 DEF InOrder, Named
      <4> QED BY <2>2, <4>1
    <3> QED BY <2>1, <3>2, <3>3, <3>4 DEF InOrder
  <2> QED BY <2>3, <2>4
<1>FailRequest. ASSUME NEW r \in Requests, FailRequest(r) PROVE InOrder'
  <2>1. /\ UNCHANGED <<layer_order>> /\ Linked' = Linked /\ broken' = broken \cup ToSet(made[r])
    BY <1>FailRequest DEF FailRequest, dbVars, Linked
  <2>2. ToSet(made'[r]) = {} /\ \A q \in Requests : q # r => made'[q] = made[q]
    BY <1>FailRequest, Ended, HoldsNothing DEF FailRequest
  <2>3. \A i \in Linked' : \/ i \in ToSet(layer_order') \/ i \in broken'
                           \/ \E q \in Requests : i \in ToSet(made'[q])
    <3> TAKE i \in Linked'
    <3>1. CASE i \in ToSet(layer_order) \/ i \in broken \/ i \in ToSet(made[r])
      BY <3>1, <2>1
    <3>2. ASSUME NEW q \in Requests, i \in ToSet(made[q]), q # r
          PROVE  \E p \in Requests : i \in ToSet(made'[p])
      BY <3>2, <2>2
    <3> QED BY <2>1, <3>1, <3>2 DEF InOrder
  <2>4. \A q \in Requests : ToSet(made'[q]) \cap Named(layer_order)' = {}
    BY <2>1, <2>2 DEF InOrder, Named
  <2> QED BY <2>1, <2>3, <2>4 DEF InOrder
<1>DeleteLayer. ASSUME NEW l \in Layers, DeleteLayer(l) PROVE InOrder'
  <2>1. Linked' \subseteq Linked
    BY <1>DeleteLayer DEF DeleteLayer, Linked, TypeOK
  <2> QED BY <2>1, StillInOrder, <1>DeleteLayer DEF DeleteLayer, requestVars
<1>stutter. CASE UNCHANGED vars
  BY StillInOrder, <1>stutter DEF vars, dbVars, requestVars, Linked
<1> QED
  BY <1>CountLayers, <1>FindLayers, <1>CreateLink, <1>ReadForAdd, <1>FindLink,
     <1>DeleteLink, <1>ReadForRemove, <1>SeeLinks, <1>ReadForReorder, <1>WriteOrder,
     <1>FailRequest, <1>DeleteLayer, <1>stutter DEF Next, Add, RemoveLink, Reorder

-----------------------------------------------------------------------------
Ordered == TypeOK /\ KnownIds /\ MadeOnce /\ Staged /\ Kept

LEMMA OrderedInit == ASSUME Init PROVE Ordered
<1>1. Linked = {} /\ ToSet(layer_order) = {}
  BY HoldsNothing DEF Init, Linked
<1>2. KnownIds
  BY <1>1, HoldsNothing DEF Init, KnownIds
<1>3. MadeOnce
  BY EmptyOnce, HoldsNothing DEF Init, MadeOnce
<1>4. Staged
  BY DEF Init, Staged, Stage
<1>5. Kept
  BY <1>1, EmptyOnce DEF Init, Kept, InOrder, Named
<1> QED BY TypeInit, <1>2, <1>3, <1>4, <1>5 DEF Ordered

LEMMA OrderedHolds == Spec => []Ordered
<1>1. Ordered /\ [Next]_vars => Ordered'
  <2> SUFFICES ASSUME Ordered, [Next]_vars PROVE Ordered'
    OBVIOUS
  <2> USE DEF Ordered
  <2>1. TypeOK' /\ KnownIds' /\ MadeOnce' /\ Staged'
    BY TypeNext, KnownNext, MadeOnceNext, StagedNext
  <2>2. overtaken => overtaken'
    BY DEF Next, Add, RemoveLink, Reorder, CountLayers, FindLayers, CreateLink, ReadForAdd, FindLink,
           DeleteLink, ReadForRemove, SeeLinks, ReadForReorder, WriteOrder, FailRequest, DeleteLayer, vars
  <2>3. Kept'
    BY <2>2, InOrderNext DEF Kept
  <2> QED BY <2>1, <2>3
<1> QED BY OrderedInit, <1>1, PTL DEF Spec

(* Links, orders and the requests' copies of them are of their types.      *)
THEOREM LayersTypeCorrect == Spec => []TypeOK
<1>1. Ordered => TypeOK
  BY DEF Ordered
<1> QED BY <1>1, OrderedHolds, PTL

(* project.layer_order names every row of layer_project once, however      *)
(* adding, removing, reordering and deleting requests interleave and       *)
(* wherever they fail, until one writes over a change it had not read.     *)
THEOREM EveryLinkIsOrdered == Spec => []OrderNamesEveryLink
<1>1. Ordered => OrderNamesEveryLink
  BY DEF Ordered, Kept, InOrder, OrderNamesEveryLink, Pending, Once
<1> QED BY <1>1, OrderedHolds, PTL
-----------------------------------------------------------------------------
(* The order of what stays. *)

(* A step that leaves the array alone, and puts no link into it.           *)
LEMMA UntouchedOrder ==
  ASSUME layer_order' = layer_order, Linked' \cap ToSet(layer_order) \subseteq Linked
  PROVE  LeavesOrder
<1>1. Named(layer_order)' = ToSet(layer_order) \cap Linked'
  BY DEF Named
<1>2. Named(layer_order)' \subseteq Named(layer_order)
  BY <1>1 DEF Named
<1> QED BY <1>1, <1>2 DEF LeavesOrder, Named

(* What is put in front comes before, and what was there keeps its order.  *)
LEMMA JoinedOrder ==
  ASSUME NEW S, NEW s \in Seq(S), NEW u \in Seq(S)
  PROVE  /\ \A i \in ToSet(s), j \in ToSet(u) : Before(s \o u, i, j)
         /\ \A i, j : i \notin ToSet(s) /\ j \notin ToSet(s) =>
              (Before(s \o u, i, j) <=> Before(u, i, j))
<1> DEFINE w == s \o u
<1>1. /\ Len(s) \in Nat /\ Len(u) \in Nat
      /\ DOMAIN s = 1..Len(s) /\ DOMAIN u = 1..Len(u) /\ DOMAIN w = 1..(Len(s) + Len(u))
      /\ \A i \in 1..(Len(s) + Len(u)) : w[i] = IF i <= Len(s) THEN s[i] ELSE u[i - Len(s)]
  BY ConcatProperties, LenProperties
<1> HIDE DEF w
<1>2. ASSUME NEW i \in ToSet(s), NEW j \in ToSet(u) PROVE Before(w, i, j)
  <2>1. PICK m \in 1..Len(s), n \in 1..Len(u) : s[m] = i /\ u[n] = j
    BY <1>1, <1>2 DEF ToSet
  <2>2. /\ m \in DOMAIN w /\ w[m] = i /\ n + Len(s) \in DOMAIN w /\ m < n + Len(s)
        /\ w[n + Len(s)] = j
    BY <1>1, <2>1
  <2> QED BY <2>2 DEF Before
<1>3. ASSUME NEW i, NEW j, i \notin ToSet(s), j \notin ToSet(s), Before(w, i, j)
      PROVE  Before(u, i, j)
  <2>1. PICK m, n \in 1..(Len(s) + Len(u)) : m < n /\ w[m] = i /\ w[n] = j
    BY <1>1, <1>3 DEF Before
  <2>2. ~(m <= Len(s)) /\ ~(n <= Len(s))
    BY <1>1, <1>3, <2>1 DEF ToSet
  <2>3. /\ m - Len(s) \in DOMAIN u /\ n - Len(s) \in DOMAIN u /\ m - Len(s) < n - Len(s)
        /\ u[m - Len(s)] = i /\ u[n - Len(s)] = j
    BY <1>1, <2>1, <2>2
  <2> QED BY <2>3 DEF Before
<1>4. ASSUME NEW i, NEW j, Before(u, i, j) PROVE Before(w, i, j)
  <2>1. PICK m, n \in 1..Len(u) : m < n /\ u[m] = i /\ u[n] = j
    BY <1>1, <1>4 DEF Before
  <2>2. /\ m + Len(s) \in DOMAIN w /\ n + Len(s) \in DOMAIN w /\ m + Len(s) < n + Len(s)
        /\ w[m + Len(s)] = i /\ w[n + Len(s)] = j
    BY <1>1, <2>1
  <2> QED BY <2>2 DEF Before
<1> QED BY <1>2, <1>3, <1>4 DEF w

(* What is not taken out keeps its order.                                  *)
LEMMA RemovedOrder ==
  ASSUME NEW S, NEW s \in Seq(S), NEW e, Contains(s, e)
  PROVE  \A i, j : i # e /\ j # e => (Before(RemoveFirst(s, e), i, j) <=> Before(s, i, j))
<1> DEFINE w == RemoveFirst(s, e)
           at(k, n) == IF n < k THEN n ELSE n + 1
           from(k, n) == IF n < k THEN n ELSE n - 1
<1>1. PICK k \in 1..Len(s) :
        /\ s[k] = e /\ Len(s) \in Nat /\ DOMAIN s = 1..Len(s) /\ DOMAIN w = 1..(Len(s) - 1)
        /\ \A i \in 1..(Len(s) - 1) : w[i] = s[at(k, i)]
  BY RemovedAt
<1> HIDE DEF w
<1>2. ASSUME NEW i, NEW j, i # e, j # e, Before(w, i, j) PROVE Before(s, i, j)
  <2>1. PICK m, n \in 1..(Len(s) - 1) : m < n /\ w[m] = i /\ w[n] = j
    BY <1>1, <1>2 DEF Before
  <2>2. /\ at(k, m) \in DOMAIN s /\ at(k, n) \in DOMAIN s /\ at(k, m) < at(k, n)
        /\ s[at(k, m)] = i /\ s[at(k, n)] = j
    BY <1>1, <2>1
  <2> QED BY <2>2 DEF Before
<1>3. ASSUME NEW i, NEW j, i # e, j # e, Before(s, i, j) PROVE Before(w, i, j)
  <2>1. PICK m, n \in 1..Len(s) : m < n /\ s[m] = i /\ s[n] = j
    BY <1>1, <1>3 DEF Before
  <2>2. m # k /\ n # k
    BY <1>1, <1>3, <2>1
  <2>3. /\ from(k, m) \in DOMAIN w /\ from(k, n) \in DOMAIN w /\ from(k, m) < from(k, n)
        /\ at(k, from(k, m)) = m /\ at(k, from(k, n)) = n
    BY <1>1, <2>1, <2>2
  <2>4. w[from(k, m)] = i /\ w[from(k, n)] = j
    <3> HIDE DEF at, from
    <3> QED BY <1>1, <2>1, <2>3
  <2> QED BY <2>3, <2>4 DEF Before
<1> QED BY <1>2, <1>3 DEF w

(* The write of a request whose copy of the array is not stale.            *)
LEMMA WriteLeavesOrder ==
  ASSUME TypeOK, Staged, InOrder, NEW r \in Requests, pc[r] = "write",
         WriteOrder(r), ~overtaken'
  PROVE  EndsReorder \/ LeavesOrder
<1>1. /\ made[r] \in Seq(Links) /\ layer_order \in Seq(Links) /\ loaded[r] \in Seq(Links)
      /\ Stage(r) /\ Intent(r) /\ End(r) /\ Linked' = Linked
  BY DEF TypeOK, Staged, Stage, WriteOrder, Linked
<1>2. CASE new_order[r] = loaded[r]
  BY <1>1, <1>2, UntouchedOrder DEF WriteOrder
<1>3. ASSUME new_order[r] # loaded[r] PROVE layer_order' = new_order[r] /\ ~Overtakes(r)
  BY <1>3 DEF WriteOrder
<1>4. CASE /\ new_order[r] # loaded[r] /\ made[r] # <<>>
           /\ new_order[r] = made[r] \o loaded[r]
  <2>1. layer_order' = made[r] \o layer_order
    BY <1>1, <1>3, <1>4 DEF Stage, Overtakes
  <2>2. /\ ToSet(layer_order') = ToSet(made[r]) \cup ToSet(layer_order)
        /\ ToSet(made[r]) \cap Named(layer_order) = {}
    BY <1>1, <2>1, Joined DEF InOrder
  <2>3. /\ \A i \in ToSet(made[r]), j \in ToSet(layer_order) : Before(layer_order', i, j)
        /\ \A i, j : i \notin ToSet(made[r]) /\ j \notin ToSet(made[r]) =>
             (Before(layer_order', i, j) <=> Before(layer_order, i, j))
    BY <1>1, <2>1, JoinedOrder
  <2>4. Named(layer_order)' = ToSet(layer_order') \cap Linked
    BY <1>1 DEF Named
  <2>5. \A i, j \in Named(layer_order) : Before(layer_order, i, j) <=> Before(layer_order', i, j)
    BY <2>2, <2>3
  <2>6. \A i \in Named(layer_order)' \ Named(layer_order), j \in Named(layer_order) :
          Before(layer_order', i, j)
    BY <2>2, <2>3, <2>4 DEF Named
  <2> QED BY <1>1, <2>2, <2>4, <2>5, <2>6 DEF LeavesOrder, Named
<1>5. CASE /\ new_order[r] # loaded[r] /\ target[r] # 0 /\ Contains(loaded[r], target[r])
           /\ new_order[r] = RemoveFirst(loaded[r], target[r])
  <2>1. seen[r] = {} /\ target[r] \notin Linked
    BY <1>1, <1>5 DEF Stage
  <2>2. loaded[r] = layer_order /\ layer_order' = RemoveFirst(layer_order, target[r])
    BY <1>3, <1>5, <2>1 DEF Overtakes
  <2>3. /\ ToSet(layer_order') \subseteq ToSet(layer_order)
        /\ ToSet(layer_order) \ {target[r]} \subseteq ToSet(layer_order')
        /\ \A i, j : i # target[r] /\ j # target[r] =>
             (Before(layer_order', i, j) <=> Before(layer_order, i, j))
    BY <1>1, <1>5, <2>2, Removed, RemovedOrder
  <2>4. Named(layer_order)' = Named(layer_order)
    BY <1>1, <2>1, <2>3 DEF Named
  <2>5. \A i, j \in Named(layer_order) : Before(layer_order, i, j) <=> Before(layer_order', i, j)
    BY <2>1, <2>3 DEF Named
  <2> QED BY <1>1, <2>4, <2>5 DEF LeavesOrder, Named
<1>6. CASE new_order[r] # loaded[r] /\ seen[r] # {}
  <2>1. layer_order' = new_order[r] /\ Named(new_order[r]) = Named(layer_order)
    BY <1>3, <1>6 DEF Overtakes
  <2>2. Named(layer_order)' = Named(layer_order)
    BY <1>1, <2>1 DEF Named
  <2>3. pc'[r] = "idle"
    BY <1>1, Ended
  <2> QED BY <1>6, <2>2, <2>3 DEF EndsReorder
<1> QED BY <1>1, <1>2, <1>4, <1>5, <1>6 DEF Intent

LEMMA StepLeavesOrder ==
  ASSUME Ordered, [Next]_vars, ~overtaken'
  PROVE  EndsReorder \/ LeavesOrder
<1> USE DEF Ordered
<1>1. ~overtaken
  BY DEF Next, Add, RemoveLink, Reorder, CountLayers, FindLayers, CreateLink, ReadForAdd, FindLink,
         DeleteLink, ReadForRemove, SeeLinks, ReadForReorder, WriteOrder, FailRequest, DeleteLayer, vars
<1>2. InOrder
  BY <1>1 DEF Kept
<1>3. ASSUME layer_order' = layer_order, Linked' \subseteq Linked PROVE LeavesOrder
  BY <1>3, UntouchedOrder
<1>4. ASSUME UNCHANGED <<link, layer_order>> PROVE LeavesOrder
  BY <1>3, <1>4 DEF Linked
<1>CreateLink. ASSUME NEW r \in Requests, CreateLink(r) PROVE LeavesOrder
  <2>1. /\ Linked' \subseteq Linked \cup {next_id} /\ layer_order' = layer_order
    BY <1>CreateLink DEF CreateLink, Linked, TypeOK
  <2>2. next_id \notin ToSet(layer_order)
    BY ProjectLayersAssumption, <1>CreateLink DEF KnownIds, Known, CreateLink, Links
  <2> QED BY <2>1, <2>2, UntouchedOrder
<1>DeleteLink. ASSUME NEW r \in Requests, DeleteLink(r) PROVE LeavesOrder
  BY <1>3, <1>DeleteLink DEF DeleteLink, Linked, TypeOK
<1>DeleteLayer. ASSUME NEW l \in Layers, DeleteLayer(l) PROVE LeavesOrder
  BY <1>3, <1>DeleteLayer DEF DeleteLayer, Linked, TypeOK
<1>WriteOrder. ASSUME NEW r \in Requests, WriteOrder(r) PROVE EndsReorder \/ LeavesOrder
  BY <1>2, <1>WriteOrder, WriteLeavesOrder DEF WriteOrder
<1>others. ASSUME NEW r \in Requests,
                  \/ CountLayers(r) \/ FindLayers(r) \/ ReadForAdd(r) \/ FindLink(r)
                  \/ ReadForRemove(r) \/ SeeLinks(r) \/ ReadForReorder(r) \/ FailRequest(r)
           PROVE  LeavesOrder
  BY <1>4, <1>others
     DEF CountLayers, FindLayers, ReadForAdd, FindLink, ReadForRemove, SeeLinks, ReadForReorder,
         FailRequest, dbVars
<1>stutter. CASE UNCHANGED vars
  BY <1>4, <1>stutter DEF vars, dbVars
<1> QED
  BY <1>CreateLink, <1>DeleteLink, <1>DeleteLayer, <1>WriteOrder, <1>others, <1>stutter
     DEF Next, Add, RemoveLink, Reorder

(* Adding, removing and reordering layers at the same time, no request     *)
(* moves the layers of another, whichever fails half-way, until one writes *)
(* over a change it had not read.                                          *)
THEOREM StepsLeaveOrder == Spec => StepsKeepOrder
<1>1. Ordered /\ [Next]_vars => [overtaken' \/ EndsReorder \/ LeavesOrder]_vars
  BY StepLeavesOrder
<1> QED BY <1>1, OrderedHolds, PTL DEF Spec, StepsKeepOrder
=============================================================================
