-------------------------- MODULE TodoStoreProofs --------------------------
(***************************************************************************)
(* Theorems about TodoStore, for any tasks, notes, retention limit and     *)
(* depth, and with any of the faults: what the module serves is what the   *)
(* store holds, every store is a forest with an open focus, the input of a *)
(* restore survives retention, no edit loses a note, and there is a way    *)
(* back from every overwritten store.                                      *)
(***************************************************************************)
EXTENDS TodoStore, FiniteSetTheorems, TLAPS

-----------------------------------------------------------------------------
(***************************************************************************)
(* The tree                                                                *)
(***************************************************************************)

\* S holds t and the parents of what it holds.
Ancestral(tree, t, S) == t \in S /\ \A u \in S : tree[u].up \in S \cup {None}

Rooted(tree) == \A u \in DOMAIN tree : tree[u].up \in DOMAIN tree \cup {None}

\* f and g agree on the parents of the tasks they share.
SameParents(f, g) == \A u \in DOMAIN f \cap DOMAIN g : f[u].up = g[u].up

\* In a forest every parent is a task of it.
LEMMA ForestIsRooted ==
  ASSUME NEW f, Forest(f)
  PROVE  Rooted(f)
BY DEF Forest, Rooted

\* The lineage is the least such set.
LEMMA LineageLeast ==
  ASSUME NEW f, NEW t, NEW S \in SUBSET DOMAIN f, Ancestral(f, t, S)
  PROVE  Lineage(f, t) \subseteq S
BY DEF Lineage, Ancestral

\* The lineage of a task holds the task and the parents of what it holds.
LEMMA LineageClosed ==
  ASSUME NEW f, Rooted(f), NEW t \in DOMAIN f
  PROVE  Lineage(f, t) \subseteq DOMAIN f /\ Ancestral(f, t, Lineage(f, t))
<1>1. Lineage(f, t) = {a \in DOMAIN f : \A S \in SUBSET DOMAIN f :
                                          Ancestral(f, t, S) => a \in S}
  BY DEF Lineage, Ancestral
<1>2. t \in Lineage(f, t)
  BY <1>1 DEF Ancestral
<1>3. ASSUME NEW u \in Lineage(f, t), f[u].up # None
      PROVE  f[u].up \in Lineage(f, t)
  <2>1. u \in DOMAIN f /\ f[u].up \in DOMAIN f
    BY <1>1, <1>3 DEF Rooted
  <2>2. ASSUME NEW S \in SUBSET DOMAIN f, Ancestral(f, t, S)
        PROVE  f[u].up \in S
    <3>1. u \in S
      BY <1>1, <2>2
    <3> QED  BY <1>3, <2>2, <3>1 DEF Ancestral
  <2> QED  BY <1>1, <2>1, <2>2
<1> QED  BY <1>1, <1>2, <1>3 DEF Ancestral

\* The ancestors of an ancestor are ancestors.
LEMMA LineageTransitive ==
  ASSUME NEW f, Rooted(f), NEW t \in DOMAIN f, NEW a \in Lineage(f, t)
  PROVE  a \in DOMAIN f /\ Lineage(f, a) \subseteq Lineage(f, t)
<1>1. Lineage(f, t) \subseteq DOMAIN f /\ Ancestral(f, t, Lineage(f, t))
  BY LineageClosed
<1>2. Ancestral(f, a, Lineage(f, t))
  BY <1>1 DEF Ancestral
<1> QED  BY <1>1, <1>2, LineageLeast

\* A task keeps its lineage in any tree that has all of it.
LEMMA LineageKept ==
  ASSUME NEW f, NEW g, Rooted(f), Rooted(g), SameParents(f, g),
         NEW t \in DOMAIN f \cap DOMAIN g, Lineage(f, t) \subseteq DOMAIN g
  PROVE  Lineage(g, t) = Lineage(f, t)
<1>1. /\ Lineage(f, t) \subseteq DOMAIN f /\ Ancestral(f, t, Lineage(f, t))
      /\ Lineage(g, t) \subseteq DOMAIN g /\ Ancestral(g, t, Lineage(g, t))
  BY LineageClosed
<1>2. Ancestral(g, t, Lineage(f, t))
  BY <1>1 DEF Ancestral, SameParents
<1>3. Lineage(g, t) \subseteq Lineage(f, t)
  BY <1>2, LineageLeast
<1>4. Ancestral(f, t, Lineage(g, t))
  BY <1>1, <1>3 DEF Ancestral, SameParents
<1>5. Lineage(f, t) \subseteq Lineage(g, t)
  BY <1>1, <1>3, <1>4, LineageLeast
<1> QED  BY <1>3, <1>5

\* The tasks that keep their lineage keep their place in the forest.
LEMMA PlaceKept ==
  ASSUME NEW f, NEW g, Forest(f), Rooted(g), SameParents(f, g),
         NEW t \in DOMAIN f \cap DOMAIN g, Lineage(f, t) \subseteq DOMAIN g
  PROVE  /\ Cardinality(Lineage(g, t)) <= MaxDepth
         /\ g[t].up # None => g[t].up \in DOMAIN g /\ t \notin Lineage(g, g[t].up)
<1>1. Rooted(f)
  BY ForestIsRooted
<1>2. Lineage(g, t) = Lineage(f, t)
  BY <1>1, LineageKept
<1>3. Cardinality(Lineage(g, t)) <= MaxDepth
  BY <1>2 DEF Forest
<1>4. ASSUME g[t].up # None
      PROVE  g[t].up \in DOMAIN g /\ t \notin Lineage(g, g[t].up)
  <2>1. /\ g[t].up = f[t].up /\ f[t].up \in DOMAIN f
        /\ t \notin Lineage(f, f[t].up)
    BY <1>4 DEF SameParents, Forest
  <2>2. f[t].up \in Lineage(f, t)
    BY <1>1, <1>4, <2>1, LineageClosed DEF Ancestral
  <2>3. Lineage(f, f[t].up) \subseteq DOMAIN g /\ f[t].up \in DOMAIN g
    BY <1>1, <2>2, LineageTransitive
  <2>4. Lineage(g, f[t].up) = Lineage(f, f[t].up)
    BY <1>1, <2>1, <2>3, LineageKept
  <2> QED  BY <2>1, <2>3, <2>4
<1> QED  BY <1>3, <1>4

\* A tree with the same tasks and the same parents is as much a forest.
LEMMA ForestSame ==
  ASSUME NEW f, NEW g, Forest(f), SameParents(f, g), DOMAIN f = DOMAIN g
  PROVE  Forest(g)
<1>1. Rooted(f)
  BY ForestIsRooted
<1>2. Rooted(g)
  BY <1>1 DEF Rooted, SameParents
<1>3. ASSUME NEW t \in DOMAIN g
      PROVE  /\ Cardinality(Lineage(g, t)) <= MaxDepth
             /\ g[t].up # None => g[t].up \in DOMAIN g /\ t \notin Lineage(g, g[t].up)
  <2>1. Lineage(f, t) \subseteq DOMAIN g
    BY <1>1, LineageClosed
  <2> QED  BY <1>2, <2>1, PlaceKept
<1> QED  BY <1>3 DEF Forest

\* A forest without one of its subtrees is a forest.
LEMMA ForestCut ==
  ASSUME NEW f, NEW g, Forest(f), SameParents(f, g), NEW r,
         DOMAIN g = DOMAIN f \ Subtree(f, r)
  PROVE  Forest(g)
<1>1. Rooted(f)
  BY ForestIsRooted
<1>2. ASSUME NEW t \in DOMAIN g
      PROVE  t \in DOMAIN f /\ Lineage(f, t) \subseteq DOMAIN g
  <2>1. t \in DOMAIN f /\ r \notin Lineage(f, t)
    BY DEF Subtree
  <2>2. ASSUME NEW a \in Lineage(f, t)
        PROVE  a \in DOMAIN g
    <3>1. a \in DOMAIN f /\ Lineage(f, a) \subseteq Lineage(f, t)
      BY <1>1, <2>1, LineageTransitive
    <3> QED  BY <2>1, <3>1 DEF Subtree
  <2> QED  BY <2>1, <2>2
<1>3. Rooted(g)
  <2> SUFFICES ASSUME NEW t \in DOMAIN g, g[t].up # None
               PROVE  g[t].up \in DOMAIN g
    BY DEF Rooted
  <2>1. t \in DOMAIN f /\ g[t].up = f[t].up
    BY <1>2 DEF SameParents
  <2>2. f[t].up \in Lineage(f, t)
    BY <1>1, <2>1, LineageClosed DEF Ancestral
  <2> QED  BY <1>2, <2>1, <2>2
<1>4. \A t \in DOMAIN g :
        /\ Cardinality(Lineage(g, t)) <= MaxDepth
        /\ g[t].up # None => g[t].up \in DOMAIN g /\ t \notin Lineage(g, g[t].up)
  BY <1>2, <1>3, PlaceKept
<1> QED  BY <1>4 DEF Forest

\* A forest with one more task, below a task that is not too deep, is a forest.
LEMMA ForestGrown ==
  ASSUME NEW f, NEW g, Forest(f), SameParents(f, g), NEW n, n \notin DOMAIN f,
         DOMAIN g = DOMAIN f \cup {n}, DOMAIN f \subseteq Tasks, None \notin DOMAIN f,
         MayParent(f, g[n].up)
  PROVE  Forest(g)
<1> DEFINE p == g[n].up
<1>1. Rooted(f) /\ Rooted(g)
  BY ForestIsRooted DEF Rooted, SameParents, MayParent
<1>2. \A t \in DOMAIN f : t \in DOMAIN g /\ Lineage(f, t) \subseteq DOMAIN g
  BY <1>1, LineageClosed
<1>3. \A t \in DOMAIN f :
        /\ Cardinality(Lineage(g, t)) <= MaxDepth
        /\ g[t].up # None => g[t].up \in DOMAIN g /\ t \notin Lineage(g, g[t].up)
  BY <1>1, <1>2, PlaceKept
<1>4. CASE p = None
  <2>1. {n} \in SUBSET DOMAIN g /\ Ancestral(g, n, {n})
    BY <1>4 DEF Ancestral
  <2>2. Lineage(g, n) \subseteq {n}
    BY <2>1, LineageLeast
  <2>3. IsFiniteSet({n}) /\ Cardinality({n}) = 1
    BY FS_Singleton
  <2>4. Cardinality(Lineage(g, n)) <= 1
    BY <2>2, <2>3, FS_Subset
  <2>5. Cardinality(Lineage(g, n)) \in Nat
    BY <2>2, <2>3, FS_Subset, FS_CardinalityType
  <2>6. Cardinality(Lineage(g, n)) <= MaxDepth
    BY <2>4, <2>5, TodoAssumption
  <2> QED  BY <1>3, <1>4, <2>6 DEF Forest
<1>5. CASE p # None
  <2>1. p \in DOMAIN f /\ Cardinality(Lineage(f, p)) < MaxDepth
    BY <1>5 DEF MayParent
  <2>2. Lineage(g, p) = Lineage(f, p) /\ Lineage(f, p) \subseteq DOMAIN f
    BY <1>1, <1>2, <2>1, LineageKept, LineageClosed
  <2>3. Ancestral(g, p, Lineage(g, p))
    BY <1>1, <1>2, <2>1, LineageClosed
  <2>4. Lineage(g, p) \cup {n} \in SUBSET DOMAIN g
        /\ Ancestral(g, n, Lineage(g, p) \cup {n})
    BY <2>2, <2>3 DEF Ancestral
  <2>5. Lineage(g, n) \subseteq Lineage(g, p) \cup {n}
    BY <2>4, LineageLeast
  <2>6. IsFiniteSet(Lineage(g, p)) /\ n \notin Lineage(g, p)
    BY <2>2, FS_Subset, TodoAssumption
  <2>7. /\ IsFiniteSet(Lineage(g, p) \cup {n})
        /\ Cardinality(Lineage(g, p) \cup {n}) = Cardinality(Lineage(g, p)) + 1
    BY <2>6, FS_AddElement
  <2>8. /\ Cardinality(Lineage(g, n)) <= Cardinality(Lineage(g, p)) + 1
        /\ Cardinality(Lineage(g, n)) \in Nat /\ Cardinality(Lineage(g, p)) \in Nat
    BY <2>5, <2>6, <2>7, FS_Subset, FS_CardinalityType
  <2>9. Cardinality(Lineage(g, n)) <= MaxDepth
    BY <2>1, <2>2, <2>8, TodoAssumption
  <2> QED  BY <1>2, <1>3, <2>1, <2>6, <2>9 DEF Forest
<1> QED  BY <1>4, <1>5

-----------------------------------------------------------------------------
(***************************************************************************)
(* Retention                                                               *)
(***************************************************************************)

\* What list_backups may be asked to order.
Listable(list) ==
  /\ IsFiniteSet(list)
  /\ \A b \in list : b.id \in Nat /\ b.ok \in BOOLEAN
  /\ \A b, c \in list : b.id = c.id => b = c

\* list_backups(limit) returns backups of the list.
LEMMA FirstSubset ==
  ASSUME NEW list, NEW n
  PROVE  First(list, n) \subseteq list
BY DEF First

\* Retention makes no backup.
LEMMA KeptSubset ==
  ASSUME NEW list
  PROVE  Kept(list) \subseteq list
BY DEF Kept, First

\* The first n come before the others.
LEMMA FirstAhead ==
  ASSUME NEW list, Listable(list), NEW n \in Nat,
         NEW b \in list, b \notin First(list, n), NEW c \in First(list, n)
  PROVE  Ahead(c, b)
<1> DEFINE Above(x) == {y \in list : Ahead(y, x)}
<1>1. c \in list /\ b # c /\ Cardinality(Above(c)) < n /\ ~ (Cardinality(Above(b)) < n)
  BY DEF First
<1>2. b.id \in Nat /\ c.id \in Nat /\ b.id # c.id /\ b.ok \in BOOLEAN /\ c.ok \in BOOLEAN
  BY <1>1 DEF Listable
<1>3. ASSUME ~ Ahead(c, b)
      PROVE  FALSE
  <2>1. Ahead(b, c)
    BY <1>2, <1>3 DEF Ahead
  <2>2. ASSUME NEW y \in Above(b)
        PROVE  y \in Above(c)
    <3>1. y \in list /\ Ahead(y, b) /\ y.id \in Nat /\ y.ok \in BOOLEAN
      BY DEF Listable
    <3>2. Ahead(y, c)
      BY <1>2, <2>1, <3>1 DEF Ahead
    <3> QED  BY <3>1, <3>2
  <2>3. Above(b) \subseteq Above(c)
    BY <2>2
  <2>4. IsFiniteSet(list) /\ Above(c) \subseteq list /\ Above(b) \subseteq list
    BY DEF Listable
  <2> HIDE DEF Above
  <2>5. IsFiniteSet(Above(c)) /\ IsFiniteSet(Above(b))
    BY <2>4, FS_Subset
  <2>6. /\ Cardinality(Above(b)) <= Cardinality(Above(c))
        /\ Cardinality(Above(b)) \in Nat /\ Cardinality(Above(c)) \in Nat
    BY <2>3, <2>5, FS_Subset, FS_CardinalityType
  <2> QED  BY <1>1, <2>6
<1> QED  BY <1>3

\* A usable backup newer than every other one is kept.
LEMMA NewestKept ==
  ASSUME NEW list, Listable(list), NEW b \in list, b.ok,
         \A c \in list : c # b => c.id < b.id
  PROVE  b \in Kept(list)
<1>1. {c \in list : Ahead(c, b)} = {}
  <2> SUFFICES ASSUME NEW c \in list, Ahead(c, b)
               PROVE  FALSE
    OBVIOUS
  <2>1. c.id \in Nat /\ b.id \in Nat /\ c.ok \in BOOLEAN /\ b.ok \in BOOLEAN
    BY DEF Listable
  <2> QED  BY <2>1 DEF Ahead
<1>2. Cardinality({c \in list : Ahead(c, b)}) = 0
  BY <1>1, FS_EmptySet
<1>3. 0 < Limit /\ 0 < Limit - 1
  BY TodoAssumption
<1>4. b \in First(list, Limit) /\ b \in First(list, Limit - 1)
  BY <1>2, <1>3 DEF First
<1> QED  BY <1>4 DEF Kept

\* Retention keeps a usable backup of a v1 store, one as new as any there was.
LEMMA V1Kept ==
  ASSUME NEW list, Listable(list), NEW b \in list, UsableV1(b),
         NEW top \in list, UsableV1(top), \A c \in list : UsableV1(c) => c.id <= top.id
  PROVE  \E c \in Kept(list) : UsableV1(c) /\ c.id >= b.id
<1>1. Limit \in Nat /\ b.id \in Nat /\ top.id \in Nat /\ b.id <= top.id
  BY TodoAssumption DEF Listable
<1> DEFINE first == First(list, Limit)
           later == {c \in list \ first : UsableV1(c)}
<1>2. CASE \E c \in first : UsableV1(c)
  <2>1. Kept(list) = first
    BY <1>2 DEF Kept
  <2>2. PICK c \in first : UsableV1(c)
    BY <1>2
  <2>3. CASE b \in first
    BY <1>1, <2>1, <2>3
  <2>4. CASE b \notin first
    <3>1. Ahead(c, b)
      BY <1>1, <2>4, FirstAhead
    <3>2. c \in list /\ c.id \in Nat
      BY FirstSubset DEF Listable
    <3>3. c.id >= b.id
      BY <1>1, <2>2, <3>1, <3>2 DEF Ahead, UsableV1
    <3> QED  BY <2>1, <2>2, <3>3
  <2> QED  BY <2>3, <2>4
<1>3. CASE ~ \E c \in first : UsableV1(c)
  <2>1. top \in later /\ \A c \in later : c.id <= top.id
    BY <1>3
  <2>2. top \in Kept(list)
    BY <1>3, <2>1 DEF Kept
  <2> QED  BY <1>1, <2>2
<1> QED  BY <1>2, <1>3

-----------------------------------------------------------------------------
(***************************************************************************)
(* The invariant                                                           *)
(***************************************************************************)

\* A store that may be served, backed up and restored.
Whole(s) == s \in Stores /\ FocusOpen(s) /\ Forest(s.rows)

\* The files: what TypeOK and StoresAreWhole say of them, and distinct names.
FilesInv ==
  /\ disk \in {NoStore, Broken} \/ Whole(disk)
  /\ made \in Nat /\ IsFiniteSet(backups)
  /\ \A b \in backups :
       /\ b \in [id : 1..made, kind : Kinds, data : Stores, ok : BOOLEAN]
       /\ Whole(b.data)
  /\ \A b, c \in backups : b.id = c.id => b = c

\* The steps of a start and of a restore.
ControlInv ==
  /\ state \in {"down", "busy", "open", "degraded", "facade"}
  /\ op \in [kind : {"none", "start", "restore"}, src : Nat \cup {None},
             at : {"idle", "verify", "preserve", "copy", "open", "backup", "migrate"}]
  /\ state # "busy" => op = Quiet
  /\ state = "busy" => op.kind # "none" /\ op.at # "idle"
  /\ op.at \in {"verify", "preserve", "copy"} => op.kind = "restore"
  /\ op.kind = "restore" => dataGen < MaxGen
  /\ dataGen \in 0..MaxGen /\ storeGen \in Nat /\ starts \in 0..MaxStarts

\* A module that is open, or about to be, has a store.
SoundInv ==
  /\ state = "open" \/ op.at \in {"backup", "migrate"} => Sound
  /\ op.at = "preserve" => disk # NoStore

\* What the module holds of the store, and the pet of the module.
MemoryInv ==
  /\ cache \in Caches \cup {Unloaded} /\ proj \in Horizons \cup {Idle, None}
  /\ working \in BOOLEAN
  /\ state = "down" \/ op.at \in {"open", "backup", "migrate"} => cache = Unloaded
  /\ state = "down" \/ op.kind = "start" => ~ working
  /\ CacheMatchesStore /\ ProjectionMatchesFocus

\* What a restore or an upgrade goes back to.
WayBackInv ==
  /\ RestoreInputKept
  /\ op.at \in {"copy", "migrate"} /\ disk # NoStore => \E b \in backups : b.data = disk

TodoInv == FilesInv /\ ControlInv /\ SoundInv /\ MemoryInv /\ WayBackInv

USE FirstStoresAssumption

-----------------------------------------------------------------------------
(***************************************************************************)
(* Backups                                                                 *)
(***************************************************************************)

\* The backup of an id is the one with that id.
LEMMA BackupFound ==
  ASSUME NEW id \in Ids
  PROVE  BackupOf(id) \in backups /\ BackupOf(id).id = id
BY DEF Ids, BackupOf

\* A snapshot of a sound store: it is kept, the protected backup is kept, the
\* newest usable v1 backup is kept or replaced, and the files stay in order.
LEMMA SnapshotKeeps ==
  ASSUME FilesInv, Sound, NEW kind \in Kinds, NEW protected,
         Snapshot(kind, protected), UNCHANGED disk
  PROVE  /\ FilesInv'
         /\ \E b \in backups' : b.data = disk
         /\ protected \in Ids => protected \in Ids'
         /\ \A b \in backups : UsableV1(b) /\ Newest(b) =>
              \E c \in backups' : UsableV1(c) /\ c.id >= b.id
<1> DEFINE new == [id |-> made + 1, kind |-> kind, data |-> disk, ok |-> TRUE]
           all == backups \cup {new}
           list == {b \in all : b.id # protected}
<1>1. /\ Whole(disk) /\ made \in Nat /\ IsFiniteSet(backups) /\ disk \in Stores
      /\ \A b \in backups : b \in [id : 1..made, kind : Kinds, data : Stores, ok : BOOLEAN]
                            /\ Whole(b.data)
      /\ \A b, c \in backups : b.id = c.id => b = c
  BY DEF FilesInv, Sound, Whole
<1>2. /\ new.id = made + 1 /\ new.kind = kind /\ new.data = disk /\ new.ok = TRUE
      /\ new \in [id : 1..made + 1, kind : Kinds, data : Stores, ok : BOOLEAN]
  BY <1>1
<1>3. /\ made' = made + 1 /\ disk' = disk
      /\ backups' = {b \in all : b.id = protected} \cup Kept(list)
  BY DEF Snapshot, Prune
<1> HIDE DEF new
<1>4. ASSUME NEW b \in all
      PROVE  /\ b \in [id : 1..made + 1, kind : Kinds, data : Stores, ok : BOOLEAN]
             /\ Whole(b.data) /\ b.id \in Nat /\ b.ok \in BOOLEAN
             /\ b # new => b.id < new.id
  <2>1. CASE b = new
    BY <1>1, <1>2, <2>1
  <2>2. CASE b \in backups
    <3>1. b \in [id : 1..made, kind : Kinds, data : Stores, ok : BOOLEAN] /\ Whole(b.data)
      BY <1>1, <2>2
    <3> QED  BY <1>1, <1>2, <3>1
  <2> QED  BY <2>1, <2>2
<1>5. \A b, c \in all : b.id = c.id => b = c
  <2> SUFFICES ASSUME NEW b \in all, NEW c \in all, b.id = c.id
               PROVE  b = c
    OBVIOUS
  <2>1. CASE b = new \/ c = new
    BY <1>1, <1>2, <1>4, <2>1
  <2>2. CASE b \in backups /\ c \in backups
    BY <1>1, <2>2
  <2> QED  BY <2>1, <2>2
<1>6. IsFiniteSet(all)
  BY <1>1, FS_AddElement
<1>7. Listable(list)
  <2>1. IsFiniteSet(list)
    BY <1>6, FS_Subset
  <2>2. \A b \in list : b.id \in Nat /\ b.ok \in BOOLEAN
    BY <1>4
  <2>3. \A b, c \in list : b.id = c.id => b = c
    BY <1>5
  <2> QED  BY <2>1, <2>2, <2>3 DEF Listable
<1>8. Kept(list) \subseteq list /\ list \subseteq all /\ backups' \subseteq all
  BY <1>3, KeptSubset
<1>9. new \in backups'
  <2>1. CASE new.id = protected
    BY <1>3, <2>1
  <2>2. CASE new.id # protected
    <3>1. new \in list
      BY <2>2
    <3>2. \A c \in list : c # new => c.id < new.id
      BY <1>4
    <3> HIDE DEF list
    <3>3. new \in Kept(list)
      BY <1>2, <1>7, <3>1, <3>2, NewestKept
    <3> QED  BY <1>3, <3>3
  <2> QED  BY <2>1, <2>2
<1>10. FilesInv'
  <2>1. IsFiniteSet(backups')
    BY <1>6, <1>8, FS_Subset
  <2>2. \A b \in backups' : b \in [id : 1..made', kind : Kinds, data : Stores, ok : BOOLEAN]
                            /\ Whole(b.data)
    BY <1>3, <1>4, <1>8
  <2>3. \A b, c \in backups' : b.id = c.id => b = c
    BY <1>5, <1>8
  <2>4. made' \in Nat /\ Whole(disk')
    BY <1>1, <1>3
  <2> HIDE DEF all, list
  <2> QED  BY <2>1, <2>2, <2>3, <2>4 DEF FilesInv
<1>11. protected \in Ids => protected \in Ids'
  BY <1>3 DEF Ids
<1>12. ASSUME NEW b \in backups, UsableV1(b), Newest(b)
       PROVE  \E c \in backups' : UsableV1(c) /\ c.id >= b.id
  <2>1. b \in all /\ b.id \in Nat /\ new.id \in Nat /\ new \in all /\ b.id <= new.id
    BY <1>1, <1>2, <1>4
  <2>2. CASE b.id = protected
    BY <1>3, <1>12, <2>1, <2>2
  <2>3. CASE b.id # protected
    <3>1. b \in list
      BY <2>1, <2>3
    <3>2. \A c \in backups : UsableV1(c) => c.id <= b.id
      BY <1>12 DEF Newest
    <3>3. CASE UsableV1(new)
      BY <1>9, <2>1, <3>3
    <3>4. CASE ~ UsableV1(new)
      <4>1. \A c \in list : UsableV1(c) => c.id <= b.id
        BY <3>2, <3>4
      <4> HIDE DEF list
      <4>2. \E c \in Kept(list) : UsableV1(c) /\ c.id >= b.id
        BY <1>7, <1>12, <3>1, <4>1, V1Kept
      <4> QED  BY <1>3, <4>2
    <3> QED  BY <3>3, <3>4
  <2> QED  BY <2>2, <2>3
<1> QED  BY <1>2, <1>9, <1>10, <1>11, <1>12

\* A backup that decays keeps its name and its bytes' place.
LEMMA RotKeeps ==
  ASSUME FilesInv, NEW id \in Ids, Rot(id)
  PROVE  /\ FilesInv' /\ Ids' = Ids
         /\ \A b \in backups : \E c \in backups' : c.data = b.data
<1> DEFINE R(b) == IF b.id = id THEN [b EXCEPT !.ok = FALSE] ELSE b
<1>1. backups' = {R(b) : b \in backups} /\ UNCHANGED <<disk, made>>
  BY DEF Rot
<1>2. ASSUME NEW b \in backups
      PROVE  /\ R(b) \in [id : 1..made, kind : Kinds, data : Stores, ok : BOOLEAN]
             /\ R(b).id = b.id /\ R(b).data = b.data /\ Whole(b.data)
  BY DEF FilesInv
<1>3. IsFiniteSet(backups')
  <2>1. BackupOf(id) \in backups /\ BackupOf(id).id = id /\ IsFiniteSet(backups)
    BY BackupFound DEF FilesInv
  <2>2. \A b \in backups : R(b) \in backups \cup {R(BackupOf(id))}
    BY <2>1 DEF FilesInv
  <2>3. IsFiniteSet(backups \cup {R(BackupOf(id))})
    BY <2>1, FS_AddElement
  <2> QED  BY <1>1, <2>2, <2>3, FS_Subset
<1> HIDE DEF R
<1>4. \A b, c \in backups' : b.id = c.id => b = c
  BY <1>1, <1>2 DEF FilesInv
<1>5. \A b \in backups' : b \in [id : 1..made, kind : Kinds, data : Stores, ok : BOOLEAN]
                          /\ Whole(b.data)
  BY <1>1, <1>2
<1>6. FilesInv'
  BY <1>1, <1>3, <1>4, <1>5 DEF FilesInv
<1>7. Ids' = Ids
  BY <1>1, <1>2 DEF Ids
<1> QED  BY <1>1, <1>2, <1>6, <1>7

-----------------------------------------------------------------------------
(***************************************************************************)
(* The use cases                                                           *)
(***************************************************************************)

\* The store after a transaction.
After(changed, gone, focus) == [disk EXCEPT !.rows = Written(changed, gone), !.focus = focus]

\* While the module is open, the tree of the service is that of the store.
LEMMA TreeIsLoaded ==
  ASSUME TodoInv, state = "open"
  PROVE  /\ Whole(disk) /\ disk \in Stores /\ FocusOpen(disk) /\ Forest(disk.rows)
         /\ Tree = Loaded
         /\ DOMAIN Tree = DOMAIN disk.rows
         /\ DOMAIN disk.rows \subseteq Tasks
         /\ \A t \in DOMAIN disk.rows :
              /\ disk.rows[t] \in StoredRows /\ Tree[t] \in Rows
              /\ Tree[t].up = disk.rows[t].up /\ Tree[t].hor = disk.rows[t].hor
              /\ Tree[t].done = disk.rows[t].done
<1>1. Whole(disk) /\ disk \in Stores /\ FocusOpen(disk) /\ Forest(disk.rows)
  BY DEF TodoInv, SoundInv, Sound, FilesInv, Whole
<1>2. PICK D \in SUBSET Tasks : disk.rows \in [D -> StoredRows]
  BY <1>1 DEF Stores
<1>3. Tree = Loaded
  BY DEF TodoInv, MemoryInv, CacheMatchesStore, Tree
<1>4. ASSUME NEW t \in DOMAIN disk.rows
      PROVE  /\ disk.rows[t] \in StoredRows /\ Loaded[t] \in Rows
             /\ Loaded[t].up = disk.rows[t].up /\ Loaded[t].hor = disk.rows[t].hor
             /\ Loaded[t].done = disk.rows[t].done
  <2>1. disk.rows[t] \in StoredRows
    BY <1>2
  <2>2. Loaded[t] = [up |-> disk.rows[t].up, hor |-> disk.rows[t].hor,
                     done |-> disk.rows[t].done, arch |-> disk.rows[t].arch]
    BY DEF Loaded
  <2> QED  BY <2>1, <2>2 DEF Rows, StoredRows
<1>5. DOMAIN Loaded = DOMAIN disk.rows
  BY DEF Loaded
<1> QED  BY <1>1, <1>2, <1>3, <1>4, <1>5

\* A tree of rows is a cache.
LEMMA CacheTyped ==
  ASSUME NEW D \in SUBSET Tasks, NEW f, f \in [D -> Rows]
  PROVE  f \in Caches
BY DEF Caches

\* What a cache is: rows, each for a task.
LEMMA CacheRows ==
  ASSUME NEW f \in Caches
  PROVE  /\ DOMAIN f \subseteq Tasks /\ f = [t \in DOMAIN f |-> f[t]]
         /\ \A t \in DOMAIN f : f[t] \in Rows
BY DEF Caches

\* What a transaction leaves of each row: w are the rows after it.
Rewritten(w, changed, gone) ==
  /\ DOMAIN w = (DOMAIN disk.rows \cup DOMAIN changed) \ gone
  /\ w \in UNION {[D -> StoredRows] : D \in SUBSET Tasks}
  /\ \A t \in DOMAIN w :
       /\ t \in DOMAIN changed =>
            /\ w[t].up = changed[t].up /\ w[t].hor = changed[t].hor
            /\ w[t].done = changed[t].done /\ w[t].arch = changed[t].arch
       /\ t \notin DOMAIN changed => t \in DOMAIN disk.rows /\ w[t] = disk.rows[t]
       /\ t \in DOMAIN disk.rows => w[t].note = disk.rows[t].note

\* What _write_task and the deletes of a transaction leave in the table.
LEMMA WrittenRows ==
  ASSUME disk \in Stores, NEW changed \in Caches, NEW gone
  PROVE  Rewritten(Written(changed, gone), changed, gone)
<1> DEFINE D == (DOMAIN disk.rows \cup DOMAIN changed) \ gone
           w == Written(changed, gone)
<1>1. PICK C \in SUBSET Tasks : disk.rows \in [C -> StoredRows]
  BY DEF Stores
<1>2. DOMAIN changed \subseteq Tasks /\ \A t \in DOMAIN changed : changed[t] \in Rows
  BY CacheRows
<1>3. w = [t \in D |-> IF t \in DOMAIN changed THEN Upserted(t, changed[t]) ELSE disk.rows[t]]
  BY DEF Written
<1>4. ASSUME NEW t \in D
      PROVE  /\ w[t] \in StoredRows
             /\ t \in DOMAIN changed => /\ w[t].up = changed[t].up /\ w[t].hor = changed[t].hor
                                        /\ w[t].done = changed[t].done
                                        /\ w[t].arch = changed[t].arch
             /\ t \notin DOMAIN changed => t \in DOMAIN disk.rows /\ w[t] = disk.rows[t]
             /\ t \in DOMAIN disk.rows => w[t].note = disk.rows[t].note
  <2>1. CASE t \notin DOMAIN changed
    BY <1>1, <1>3, <2>1
  <2>2. CASE t \in DOMAIN changed
    <3> DEFINE n == IF t \in DOMAIN disk.rows THEN disk.rows[t].note ELSE Blank
    <3>1. w[t] = [up |-> changed[t].up, hor |-> changed[t].hor, done |-> changed[t].done,
                  arch |-> changed[t].arch, note |-> n]
      BY <1>3, <2>2 DEF Upserted, WithNote
    <3>2. n \in Notes
      BY <1>1, TodoAssumption DEF StoredRows
    <3>3. changed[t] \in Rows
      BY <1>2, <2>2
    <3>4. t \in DOMAIN disk.rows => n = disk.rows[t].note
      OBVIOUS
    <3> HIDE DEF n, w
    <3> QED  BY <2>2, <3>1, <3>2, <3>3, <3>4 DEF Rows, StoredRows
  <2> QED  BY <2>1, <2>2
<1>5. DOMAIN w = D /\ D \in SUBSET Tasks /\ w = [t \in D |-> w[t]]
  BY <1>1, <1>2, <1>3
<1> HIDE DEF w, D
<1>6. w \in [D -> StoredRows]
  BY <1>4, <1>5
<1>7. Rewritten(w, changed, gone)
  BY <1>4, <1>5, <1>6 DEF D, Rewritten
<1> QED  BY <1>7 DEF w

\* A transaction that leaves the store whole and knows the projection it makes.
LEMMA CommitKeeps ==
  ASSUME TodoInv, NEW changed \in Caches, NEW gone, NEW focus \in Tasks \cup {None},
         NEW p \in Horizons \cup {Idle, None}, Commit(changed, gone, focus, p),
         FocusOpen(After(changed, gone, focus)), Forest(Written(changed, gone)),
         p # None => p = Projected(After(changed, gone, focus))
  PROVE  TodoInv'
<1>1. /\ state = "open" /\ dataGen < MaxGen
      /\ UNCHANGED <<backups, made, state, op, storeGen, starts>>
  BY DEF Commit
<1>2. /\ op = Quiet
      /\ op' = Quiet
      /\ Quiet.at = "idle"
      /\ Quiet.kind = "none"
      /\ Quiet.src = None
  BY <1>1 DEF TodoInv, ControlInv, Quiet
<1>3. disk \in Stores /\ Tree = Loaded /\ DOMAIN Tree = DOMAIN disk.rows
      /\ DOMAIN disk.rows \subseteq Tasks /\ Whole(disk)
      /\ \A t \in DOMAIN disk.rows : disk.rows[t] \in StoredRows /\ Tree[t] \in Rows
  BY <1>1, TreeIsLoaded
<1>4. dataGen \in 0..MaxGen /\ MaxGen \in Nat
  BY TodoAssumption DEF TodoInv, ControlInv
<1>5. CASE /\ disk' = After(changed, gone, focus)
           /\ cache' = CacheAfter(changed, gone)
           /\ Publish(p)
  <2> DEFINE w == Written(changed, gone)
  <2>2. disk' = [disk EXCEPT !.rows = w, !.focus = focus]
    BY <1>5 DEF After
  <2>1. Rewritten(w, changed, gone)
    BY <1>3, WrittenRows
  <2> HIDE DEF w
  <2> USE DEF Rewritten
  <2>3. disk' \in Stores /\ disk'.rows = w /\ disk'.focus = focus
    BY <1>3, <2>1, <2>2 DEF Stores
  <2>4. Whole(disk')
    BY <1>5, <2>3 DEF Whole, w
  <2>5. FilesInv' /\ SoundInv'
    <3>1. Sound'
      BY <2>3 DEF Sound
    <3> QED  BY <1>1, <1>2, <2>4, <3>1 DEF TodoInv, FilesInv, SoundInv
  <2>6. dataGen' = dataGen + 1
    BY <1>5 DEF Publish
  <2>7. ControlInv'
    BY <1>1, <1>2, <1>4, <2>6 DEF TodoInv, ControlInv
  <2>8. cache' = Loaded'
    <3>1. Loaded' = [t \in DOMAIN w |-> [up |-> w[t].up, hor |-> w[t].hor,
                                         done |-> w[t].done, arch |-> w[t].arch]]
      BY <2>3 DEF Loaded
    <3>2. cache' = [t \in DOMAIN w |-> IF t \in DOMAIN changed THEN changed[t] ELSE Tree[t]]
      BY <1>3, <1>5, <2>1 DEF CacheAfter
    <3>3. ASSUME NEW t \in DOMAIN w
          PROVE  (IF t \in DOMAIN changed THEN changed[t] ELSE Tree[t])
                   = [up |-> w[t].up, hor |-> w[t].hor, done |-> w[t].done, arch |-> w[t].arch]
      <4>1. CASE t \in DOMAIN changed
        <5>1. changed[t] \in Rows
          BY <4>1, CacheRows
        <5>2. changed[t] = [up |-> changed[t].up, hor |-> changed[t].hor,
                            done |-> changed[t].done, arch |-> changed[t].arch]
          BY <5>1 DEF Rows
        <5> QED  BY <2>1, <4>1, <5>2
      <4>2. CASE t \notin DOMAIN changed
        <5>1. t \in DOMAIN disk.rows /\ w[t] = disk.rows[t]
          BY <2>1, <4>2
        <5>2. Tree[t] = [up |-> disk.rows[t].up, hor |-> disk.rows[t].hor,
                         done |-> disk.rows[t].done, arch |-> disk.rows[t].arch]
          BY <1>3, <5>1 DEF Loaded
        <5> QED  BY <4>2, <5>1, <5>2
      <4> QED  BY <4>1, <4>2
    <3> QED  BY <3>1, <3>2, <3>3
  <2>9. cache' \in Caches
    <3>1. cache' = [t \in DOMAIN w |-> IF t \in DOMAIN changed THEN changed[t] ELSE Tree[t]]
      BY <1>3, <1>5, <2>1 DEF CacheAfter
    <3>2. DOMAIN w \in SUBSET Tasks
      BY <1>3, <2>1, CacheRows
    <3>3. \A t \in DOMAIN w : (IF t \in DOMAIN changed THEN changed[t] ELSE Tree[t]) \in Rows
      BY <1>3, <2>1, CacheRows
    <3>4. cache' \in [DOMAIN w -> Rows]
      BY <3>1, <3>3
    <3> QED  BY <3>2, <3>4, CacheTyped
  <2>10. /\ proj' \in Horizons \cup {Idle, None} /\ working' \in BOOLEAN
         /\ proj' # None => proj' = Projected(disk') /\ working' = (Projected(disk') # Idle)
    <3>1. p # None => p = Projected(disk')
      BY <1>5
    <3>2. Projected(disk') \in Horizons \cup {Idle}
      BY <2>1, <2>3, <2>4 DEF Projected, Whole, FocusOpen, StoredRows
    <3>3. working \in BOOLEAN
      BY DEF TodoInv, MemoryInv
    <3> QED  BY <1>5, <3>1, <3>2, <3>3 DEF Publish
  <2>11. MemoryInv'
    BY <1>1, <1>2, <2>8, <2>9, <2>10 DEF MemoryInv, CacheMatchesStore,
       ProjectionMatchesFocus
  <2>12. WayBackInv'
    BY <1>2 DEF WayBackInv, RestoreInputKept
  <2> QED  BY <2>5, <2>7, <2>11, <2>12 DEF TodoInv
<1>6. CASE cache' = Tree /\ UNCHANGED <<disk, proj, working, dataGen>>
  <2>1. FilesInv' /\ SoundInv' /\ ControlInv'
    BY <1>1, <1>2, <1>6 DEF TodoInv, FilesInv, SoundInv, ControlInv, Sound
  <2>2. cache' = Loaded' /\ cache' \in Caches
    <3>1. cache' \in [DOMAIN disk.rows -> Rows]
      BY <1>3, <1>6 DEF Loaded
    <3> QED  BY <1>3, <1>6, <3>1, CacheTyped DEF Loaded
  <2>3. MemoryInv'
    BY <1>1, <1>2, <1>6, <2>2
       DEF TodoInv, MemoryInv, CacheMatchesStore, ProjectionMatchesFocus, Projected
  <2>4. WayBackInv'
    BY <1>2 DEF WayBackInv, RestoreInputKept
  <2> QED  BY <2>1, <2>3, <2>4 DEF TodoInv
<1> QED  BY <1>5, <1>6 DEF Commit, After

\* A transaction that leaves the focused task as it was, and the focus on it.
LEMMA SameFocus ==
  ASSUME TodoInv, state = "open", NEW changed \in Caches, NEW gone,
         disk.focus \in DOMAIN changed =>
           /\ changed[disk.focus].hor = disk.rows[disk.focus].hor
           /\ changed[disk.focus].done = disk.rows[disk.focus].done,
         disk.focus \notin gone
  PROVE  /\ FocusOpen(After(changed, gone, disk.focus))
         /\ proj # None => proj = Projected(After(changed, gone, disk.focus))
         /\ disk.focus \in Tasks \cup {None} /\ proj \in Horizons \cup {Idle, None}
<1> DEFINE w == Written(changed, gone)
           s == After(changed, gone, disk.focus)
<1>1. disk \in Stores /\ FocusOpen(disk)
  BY TreeIsLoaded
<1>2. Rewritten(w, changed, gone)
  BY <1>1, WrittenRows
<1>3. s.rows = w /\ s.focus = disk.focus
  BY <1>1 DEF After, Stores
<1> HIDE DEF w, s
<1>4. disk.focus # None =>
        /\ disk.focus \in DOMAIN w /\ w[disk.focus].hor = disk.rows[disk.focus].hor
        /\ w[disk.focus].done = disk.rows[disk.focus].done
        /\ ~ disk.rows[disk.focus].done
  BY <1>1, <1>2 DEF Rewritten, FocusOpen
<1>5. FocusOpen(s) /\ Projected(s) = Projected(disk)
  BY <1>3, <1>4 DEF FocusOpen, Projected
<1>6. proj # None => proj = Projected(disk)
  BY DEF TodoInv, MemoryInv, ProjectionMatchesFocus
<1>7. disk.focus \in Tasks \cup {None} /\ proj \in Horizons \cup {Idle, None}
  BY <1>1 DEF Stores, TodoInv, MemoryInv
<1> QED  BY <1>5, <1>6, <1>7 DEF s

\* A transaction that ends the focus.
LEMMA NoFocus ==
  ASSUME disk \in Stores, NEW changed, NEW gone
  PROVE  /\ FocusOpen(After(changed, gone, None))
         /\ Idle = Projected(After(changed, gone, None))
BY DEF After, Stores, FocusOpen, Projected

\* A transaction that ends the focus when the focused task is among its tasks.
LEMMA CommitClearingKeeps ==
  ASSUME TodoInv, state = "open", NEW changed \in Caches, NEW gone, NEW ids,
         DOMAIN changed \subseteq ids, gone \subseteq ids,
         Forest(Written(changed, gone)), CommitClearing(changed, gone, ids)
  PROVE  TodoInv'
<1>1. disk \in Stores
  BY TreeIsLoaded
<1>2. CASE disk.focus \in ids
  <2>1. Commit(changed, gone, None, Idle)
    BY <1>2 DEF CommitClearing
  <2> QED  BY <1>1, <2>1, NoFocus, CommitKeeps
<1>3. CASE disk.focus \notin ids
  <2>1. Commit(changed, gone, disk.focus, proj)
    BY <1>3 DEF CommitClearing
  <2> QED  BY <1>3, <2>1, SameFocus, CommitKeeps
<1> QED  BY <1>2, <1>3

\* A transaction that rewrites rows under the same parents.
LEMMA ForestRewritten ==
  ASSUME TodoInv, state = "open", NEW changed \in Caches,
         DOMAIN changed \subseteq DOMAIN disk.rows,
         \A i \in DOMAIN changed : changed[i].up = disk.rows[i].up
  PROVE  Forest(Written(changed, {}))
<1> DEFINE w == Written(changed, {})
<1>1. disk \in Stores /\ Forest(disk.rows)
  BY TreeIsLoaded
<1>2. Rewritten(w, changed, {})
  BY <1>1, WrittenRows
<1> HIDE DEF w
<1>3. DOMAIN disk.rows = DOMAIN w /\ SameParents(disk.rows, w)
  BY <1>2 DEF Rewritten, SameParents
<1>4. Forest(w)
  BY <1>1, <1>3, ForestSame
<1> QED  BY <1>4 DEF w

\* The rows a use case changes, as a cache of their own.
LEMMA RowsChanged ==
  ASSUME NEW ids \in SUBSET Tasks, NEW f, f = [i \in ids |-> f[i]],
         \A i \in ids : f[i] \in Rows
  PROVE  f \in Caches /\ DOMAIN f = ids
<1>1. f \in [ids -> Rows]
  OBVIOUS
<1> QED  BY <1>1, CacheTyped

\* No row changed.
LEMMA NoRows == [x \in {} |-> None] \in Caches /\ DOMAIN [x \in {} |-> None] = {}
<1>1. [x \in {} |-> None] \in [{} -> Rows]
  OBVIOUS
<1> QED  BY <1>1, CacheTyped

\* complete and complete_subtree close tasks and end the focus on one of them.
LEMMA CompleteKeeps ==
  ASSUME TodoInv, state = "open", NEW t, NEW ids \in SUBSET DOMAIN Tree, CompleteAll(t, ids)
  PROVE  TodoInv'
<1> DEFINE todo == {i \in ids : ~ Tree[i].done}
           f == [i \in todo |-> [Tree[i] EXCEPT !.done = TRUE]]
<1>1. /\ DOMAIN Tree = DOMAIN disk.rows /\ DOMAIN disk.rows \subseteq Tasks
      /\ \A i \in DOMAIN disk.rows : Tree[i] \in Rows /\ Tree[i].up = disk.rows[i].up
  BY TreeIsLoaded
<1>2. todo \subseteq DOMAIN disk.rows /\ todo \in SUBSET Tasks /\ todo \subseteq ids
  BY <1>1
<1> HIDE DEF todo
<1>3. \A i \in todo : f[i] \in Rows /\ f[i].up = disk.rows[i].up
  BY <1>1, <1>2 DEF Rows
<1>4. f \in Caches /\ DOMAIN f = todo
  BY <1>2, <1>3, RowsChanged
<1>5. CommitClearing(f, {}, ids)
  BY DEF CompleteAll, todo
<1> HIDE DEF f
<1>6. Forest(Written(f, {}))
  BY <1>2, <1>3, <1>4, ForestRewritten
<1> QED  BY <1>2, <1>4, <1>5, <1>6, CommitClearingKeeps

\* archive_subtree closes no task and moves none; the focus on one of them ends.
LEMMA ArchiveKeeps ==
  ASSUME TodoInv, NEW t, ArchiveSubtree(t)
  PROVE  TodoInv'
<1> DEFINE ids == Subtree(Tree, t)
           todo == {i \in ids : ~ Tree[i].arch}
           f == [i \in todo |-> [Tree[i] EXCEPT !.arch = TRUE]]
<1>0. state = "open" /\ CommitClearing(f, {}, ids)
  BY DEF ArchiveSubtree
<1>1. /\ DOMAIN Tree = DOMAIN disk.rows /\ DOMAIN disk.rows \subseteq Tasks
      /\ \A i \in DOMAIN disk.rows : Tree[i] \in Rows /\ Tree[i].up = disk.rows[i].up
  BY <1>0, TreeIsLoaded
<1>2. todo \subseteq DOMAIN disk.rows /\ todo \in SUBSET Tasks /\ todo \subseteq ids
  BY <1>1 DEF Subtree
<1> HIDE DEF todo, ids
<1>3. \A i \in todo : f[i] \in Rows /\ f[i].up = disk.rows[i].up
  BY <1>1, <1>2 DEF Rows
<1>4. f \in Caches /\ DOMAIN f = todo
  BY <1>2, <1>3, RowsChanged
<1> HIDE DEF f
<1>6. Forest(Written(f, {}))
  BY <1>0, <1>2, <1>3, <1>4, ForestRewritten
<1> QED  BY <1>0, <1>2, <1>4, <1>6, CommitClearingKeeps

\* Rows rewritten with the focus where it is: the focused one keeps its horizon
\* and stays open.
LEMMA RewriteKeeps ==
  ASSUME TodoInv, state = "open", NEW ids \in SUBSET DOMAIN Tree, NEW f,
         f = [i \in ids |-> f[i]],
         \A i \in ids : /\ f[i] \in Rows /\ f[i].up = Tree[i].up
                        /\ i = disk.focus => f[i].hor = Tree[i].hor /\ f[i].done = Tree[i].done,
         Commit(f, {}, disk.focus, proj)
  PROVE  TodoInv'
<1>1. /\ DOMAIN Tree = DOMAIN disk.rows /\ DOMAIN disk.rows \subseteq Tasks
      /\ \A i \in DOMAIN disk.rows :
           /\ Tree[i] \in Rows /\ Tree[i].up = disk.rows[i].up
           /\ Tree[i].hor = disk.rows[i].hor /\ Tree[i].done = disk.rows[i].done
  BY TreeIsLoaded
<1>2. f \in Caches /\ DOMAIN f = ids /\ ids \subseteq DOMAIN disk.rows
  BY <1>1, RowsChanged
<1>3. Forest(Written(f, {}))
  BY <1>1, <1>2, ForestRewritten
<1>4. disk.focus \in DOMAIN f =>
        /\ f[disk.focus].hor = disk.rows[disk.focus].hor
        /\ f[disk.focus].done = disk.rows[disk.focus].done
  BY <1>1, <1>2
<1>5. disk.focus \notin {}
  OBVIOUS
<1>6. /\ FocusOpen(After(f, {}, disk.focus))
      /\ proj # None => proj = Projected(After(f, {}, disk.focus))
      /\ disk.focus \in Tasks \cup {None} /\ proj \in Horizons \cup {Idle, None}
  BY <1>2, <1>4, <1>5, SameFocus
<1> QED  BY <1>2, <1>3, <1>6, CommitKeeps

\* An edit of what the rows show besides their place: the rows are written as they were.
LEMMA EditKeeps ==
  ASSUME TodoInv, state = "open", NEW ids \in SUBSET DOMAIN Tree, Edit(ids)
  PROVE  TodoInv'
<1> DEFINE f == [i \in ids |-> Tree[i]]
<1>1. Commit(f, {}, disk.focus, proj)
  BY DEF Edit
<1>2. \A i \in ids : f[i] = Tree[i] /\ f[i] \in Rows
  BY TreeIsLoaded
<1>3. f = [i \in ids |-> f[i]]
  OBVIOUS
<1> HIDE DEF f
<1> QED  BY <1>1, <1>2, <1>3, RewriteKeeps

\* restore reopens closed tasks, and the focused one is not closed.
LEMMA RestoreAllKeeps ==
  ASSUME TodoInv, state = "open", NEW ids \in SUBSET DOMAIN Tree, RestoreAll(ids)
  PROVE  TodoInv'
<1> DEFINE todo == {i \in ids : Tree[i].done}
           f == [i \in todo |-> [Tree[i] EXCEPT !.done = FALSE]]
<1>1. Commit(f, {}, disk.focus, proj) /\ todo \in SUBSET DOMAIN Tree
  BY DEF RestoreAll
<1>2. /\ DOMAIN Tree = DOMAIN disk.rows /\ FocusOpen(disk)
      /\ \A i \in DOMAIN disk.rows : Tree[i] \in Rows /\ Tree[i].done = disk.rows[i].done
  BY TreeIsLoaded
<1>3. \A i \in todo : i # disk.focus
  <2>1. disk.focus # None => disk.focus \in DOMAIN disk.rows /\ ~ disk.rows[disk.focus].done
    BY <1>2 DEF FocusOpen
  <2>2. None \notin DOMAIN disk.rows
    BY TreeIsLoaded, TodoAssumption
  <2> QED  BY <1>2, <2>1, <2>2
<1>4. \A i \in todo : f[i] \in Rows /\ f[i].up = Tree[i].up
  BY <1>2 DEF Rows
<1>5. f = [i \in todo |-> f[i]]
  OBVIOUS
<1> HIDE DEF f, todo
<1> QED  BY <1>1, <1>3, <1>4, <1>5, RewriteKeeps

\* restore_archived brings tasks back from the archive where they were.
LEMMA RestoreArchivedKeeps ==
  ASSUME TodoInv, NEW t, RestoreArchived(t)
  PROVE  TodoInv'
<1> DEFINE ids == Subtree(Tree, t) \cup ArchivedAbove(Tree, t)
           todo == {j \in ids : Tree[j].arch}
           f == [i \in todo |-> [Tree[i] EXCEPT !.arch = FALSE]]
<1>1. state = "open" /\ Commit(f, {}, disk.focus, proj)
  BY DEF RestoreArchived
<1>2. todo \in SUBSET DOMAIN Tree
  BY DEF Subtree, ArchivedAbove, Lineage
<1>3. \A i \in DOMAIN Tree : Tree[i] \in Rows
  BY <1>1, TreeIsLoaded
<1>4. \A i \in todo : /\ f[i] \in Rows /\ f[i].up = Tree[i].up
                      /\ f[i].hor = Tree[i].hor /\ f[i].done = Tree[i].done
  BY <1>2, <1>3 DEF Rows
<1>5. f = [i \in todo |-> f[i]]
  OBVIOUS
<1> HIDE DEF f, todo
<1> QED  BY <1>1, <1>2, <1>4, <1>5, RewriteKeeps

\* set_horizon moves the projection along with the focused task.
LEMMA SetHorizonKeeps ==
  ASSUME TodoInv, NEW t, NEW h \in Horizons, SetHorizon(t, h)
  PROVE  TodoInv'
<1> DEFINE f == [i \in {t} |-> [Tree[i] EXCEPT !.hor = h]]
<1>1. /\ state = "open" /\ t \in DOMAIN Tree
      /\ Commit(f, {}, disk.focus, IF disk.focus = t THEN h ELSE proj)
  BY DEF SetHorizon
<1>2. /\ DOMAIN Tree = DOMAIN disk.rows /\ DOMAIN disk.rows \subseteq Tasks
      /\ disk \in Stores /\ FocusOpen(disk)
      /\ \A i \in DOMAIN disk.rows : Tree[i] \in Rows /\ Tree[i].up = disk.rows[i].up
                                     /\ Tree[i].done = disk.rows[i].done
  BY <1>1, TreeIsLoaded
<1>3. f = [i \in {t} |-> f[i]] /\ f[t] = [Tree[t] EXCEPT !.hor = h]
  OBVIOUS
<1>4. f[t] \in Rows /\ f[t].up = Tree[t].up /\ f[t].hor = h /\ f[t].done = Tree[t].done
  BY <1>1, <1>2, <1>3 DEF Rows
<1> HIDE DEF f
<1>5. f \in Caches /\ DOMAIN f = {t}
  BY <1>1, <1>2, <1>3, <1>4, RowsChanged
<1>6. Forest(Written(f, {}))
  BY <1>1, <1>2, <1>4, <1>5, ForestRewritten
<1>7. CASE disk.focus # t
  <2>1. Commit(f, {}, disk.focus, proj)
    BY <1>1, <1>7
  <2>2. disk.focus \notin DOMAIN f /\ disk.focus \notin {}
    BY <1>5, <1>7
  <2>3. /\ FocusOpen(After(f, {}, disk.focus))
        /\ proj # None => proj = Projected(After(f, {}, disk.focus))
        /\ disk.focus \in Tasks \cup {None} /\ proj \in Horizons \cup {Idle, None}
    BY <1>1, <1>5, <2>2, SameFocus
  <2> QED  BY <1>5, <1>6, <2>1, <2>3, CommitKeeps
<1>8. CASE disk.focus = t
  <2> DEFINE w == Written(f, {})
             s == After(f, {}, disk.focus)
  <2>1. Commit(f, {}, disk.focus, h)
    BY <1>1, <1>8
  <2>2. Rewritten(w, f, {})
    BY <1>2, <1>5, WrittenRows
  <2>3. s.rows = w /\ s.focus = t
    BY <1>2, <1>8 DEF After, Stores
  <2> HIDE DEF w, s
  <2>4. t \in DOMAIN w /\ w[t].hor = h /\ w[t].done = Tree[t].done
    BY <1>1, <1>2, <1>4, <1>5, <2>2 DEF Rewritten
  <2>5. ~ Tree[t].done /\ t # None
    BY <1>1, <1>2, <1>8, TodoAssumption DEF FocusOpen
  <2>6. FocusOpen(s) /\ Projected(s) = h
    BY <2>3, <2>4, <2>5 DEF FocusOpen, Projected
  <2>7. disk.focus \in Tasks \cup {None}
    BY <1>2 DEF Stores
  <2> QED  BY <1>5, <1>6, <2>1, <2>6, <2>7, CommitKeeps DEF s
<1> QED  BY <1>7, <1>8

\* add_task puts a new leaf below a task that check_parenting accepts.
LEMMA AddTaskKeeps ==
  ASSUME TodoInv, NEW t \in Tasks, NEW p \in Tasks \cup {None}, NEW h \in Horizons,
         AddTask(t, p, h)
  PROVE  TodoInv'
<1> DEFINE row == [up |-> p, hor |-> IF p = None THEN h ELSE Tree[p].hor,
                   done |-> FALSE, arch |-> FALSE]
           f == [x \in {t} |-> row]
           w == Written(f, {})
<1>1. /\ state = "open" /\ t \notin DOMAIN disk.rows /\ MayParent(Tree, p)
      /\ Commit(f, {}, disk.focus, proj)
  BY DEF AddTask
<1>2. /\ DOMAIN Tree = DOMAIN disk.rows /\ DOMAIN disk.rows \subseteq Tasks
      /\ disk \in Stores /\ FocusOpen(disk) /\ Forest(disk.rows)
      /\ \A i \in DOMAIN disk.rows : Tree[i] \in Rows /\ Tree[i].up = disk.rows[i].up
  BY <1>1, TreeIsLoaded
<1>3. row \in Rows /\ row.up = p
  BY <1>1, <1>2 DEF MayParent, Rows
<1> HIDE DEF row
<1>4. f = [x \in {t} |-> f[x]] /\ f[t] = row
  OBVIOUS
<1>5. f \in Caches /\ DOMAIN f = {t}
  BY <1>3, <1>4, RowsChanged
<1> HIDE DEF f
<1>6. Rewritten(w, f, {})
  BY <1>2, <1>5, WrittenRows
<1> HIDE DEF w
<1>7. /\ DOMAIN w = DOMAIN disk.rows \cup {t} /\ w[t].up = p
      /\ SameParents(disk.rows, w)
  BY <1>1, <1>3, <1>4, <1>5, <1>6 DEF Rewritten, SameParents
\* The rules are asked of the cached tree, which has the parents of the rows.
<1>8. MayParent(disk.rows, p)
  <2>1. Rooted(disk.rows) /\ Rooted(Tree) /\ SameParents(disk.rows, Tree)
    BY <1>2, ForestIsRooted DEF Rooted, SameParents
  <2>2. ASSUME p \in DOMAIN disk.rows
        PROVE  Lineage(Tree, p) = Lineage(disk.rows, p)
    <3>1. Lineage(disk.rows, p) \subseteq DOMAIN Tree
      BY <1>2, <2>1, <2>2, LineageClosed
    <3> QED  BY <1>2, <2>1, <2>2, <3>1, LineageKept
  <2> QED  BY <1>1, <1>2, <2>2 DEF MayParent
<1>9. Forest(w)
  BY <1>1, <1>2, <1>7, <1>8, TodoAssumption, ForestGrown
<1>10. disk.focus \notin DOMAIN f /\ disk.focus \notin {}
  BY <1>1, <1>2, <1>5, TodoAssumption DEF FocusOpen
<1>11. /\ FocusOpen(After(f, {}, disk.focus))
       /\ proj # None => proj = Projected(After(f, {}, disk.focus))
       /\ disk.focus \in Tasks \cup {None} /\ proj \in Horizons \cup {Idle, None}
  BY <1>1, <1>5, <1>10, SameFocus
<1> QED  BY <1>1, <1>5, <1>9, <1>11, CommitKeeps DEF w

\* delete_subtree takes away whole subtrees, and the focus with them.
LEMMA DeleteKeeps ==
  ASSUME TodoInv, NEW t, DeleteSubtree(t)
  PROVE  TodoInv'
<1> DEFINE ids == Subtree(Tree, t)
           f == [x \in {} |-> None]
           w == Written(f, ids)
<1>1. state = "open" /\ CommitClearing(f, ids, ids)
  BY DEF DeleteSubtree
<1>2. /\ DOMAIN Tree = DOMAIN disk.rows /\ disk \in Stores /\ Forest(disk.rows)
      /\ \A i \in DOMAIN disk.rows : Tree[i].up = disk.rows[i].up
  BY <1>1, TreeIsLoaded
<1>3. f \in Caches /\ DOMAIN f = {}
  BY NoRows
<1> HIDE DEF f
<1>4. Rewritten(w, f, ids)
  BY <1>2, <1>3, WrittenRows
<1>5. ids = Subtree(disk.rows, t)
  <2>1. Rooted(disk.rows) /\ Rooted(Tree) /\ SameParents(disk.rows, Tree)
    BY <1>2, ForestIsRooted DEF Rooted, SameParents
  <2>2. ASSUME NEW u \in DOMAIN Tree
        PROVE  Lineage(Tree, u) = Lineage(disk.rows, u)
    <3>1. Lineage(disk.rows, u) \subseteq DOMAIN Tree
      BY <1>2, <2>1, <2>2, LineageClosed
    <3> QED  BY <1>2, <2>1, <2>2, <3>1, LineageKept
  <2> QED  BY <1>2, <2>2 DEF Subtree
<1> HIDE DEF w, ids
<1>6. DOMAIN w = DOMAIN disk.rows \ Subtree(disk.rows, t) /\ SameParents(disk.rows, w)
  BY <1>3, <1>4, <1>5 DEF Rewritten, SameParents
<1>7. Forest(w)
  BY <1>2, <1>6, ForestCut
<1> QED  BY <1>1, <1>3, <1>7, CommitClearingKeeps DEF w

\* start_focus takes an open task of the store, stop_focus leaves none.
LEMMA FocusKeeps ==
  ASSUME TodoInv, (\E t \in Tasks : StartFocus(t)) \/ StopFocus
  PROVE  TodoInv'
<1> DEFINE f == [x \in {} |-> None]
           w == Written(f, {})
<1>1. state = "open"
  BY DEF StartFocus, StopFocus
<1>2. /\ DOMAIN Tree = DOMAIN disk.rows /\ disk \in Stores
      /\ \A i \in DOMAIN disk.rows : Tree[i] \in Rows /\ Tree[i].hor = disk.rows[i].hor
                                     /\ Tree[i].done = disk.rows[i].done
  BY <1>1, TreeIsLoaded
<1>3. f \in Caches /\ DOMAIN f = {}
  BY NoRows
<1>4. Rewritten(w, f, {})
  BY <1>2, <1>3, WrittenRows
<1>5. Forest(w)
  BY <1>1, <1>3, ForestRewritten
<1>6. CASE StopFocus
  <2>1. Commit(f, {}, None, Idle)
    BY <1>6 DEF StopFocus
  <2> HIDE DEF f
  <2> QED  BY <1>2, <1>3, <1>5, <2>1, NoFocus, CommitKeeps DEF w
<1>7. ASSUME NEW t \in Tasks, StartFocus(t)
      PROVE  TodoInv'
  <2> DEFINE s == After(f, {}, t)
  <2>1. t \in DOMAIN Tree /\ ~ Tree[t].done /\ Commit(f, {}, t, Tree[t].hor)
    BY <1>7 DEF StartFocus
  <2> HIDE DEF f
  <2>2. s.rows = w /\ s.focus = t
    BY <1>2 DEF After, Stores
  <2> HIDE DEF w, s
  <2>3. t \in DOMAIN w /\ w[t] = disk.rows[t]
    BY <1>2, <1>3, <1>4, <2>1 DEF Rewritten
  <2>4. FocusOpen(s) /\ Projected(s) = Tree[t].hor /\ Tree[t].hor \in Horizons
    BY <1>2, <2>1, <2>2, <2>3, TodoAssumption DEF FocusOpen, Projected, Rows
  <2> QED  BY <1>3, <1>5, <2>1, <2>4, CommitKeeps DEF s, w
<1> QED  BY <1>6, <1>7

\* A note has its own update, and shows in neither tree nor projection.
LEMMA SetNoteKeeps ==
  ASSUME TodoInv, NEW t, NEW text \in Notes, SetNote(t, text)
  PROVE  TodoInv'
<1>1. /\ state = "open" /\ t \in DOMAIN Tree /\ dataGen < MaxGen /\ cache' = Tree
      /\ UNCHANGED <<backups, made, state, op, storeGen, starts>>
  BY DEF SetNote
<1>2. /\ op = Quiet
      /\ op' = Quiet
      /\ Quiet.at = "idle"
      /\ Quiet.kind = "none"
      /\ Quiet.src = None
  BY <1>1 DEF TodoInv, ControlInv, Quiet
<1>3. /\ Whole(disk) /\ disk \in Stores /\ FocusOpen(disk) /\ Forest(disk.rows)
      /\ Tree = Loaded
      /\ DOMAIN Tree = DOMAIN disk.rows
      /\ DOMAIN disk.rows \subseteq Tasks
      /\ \A i \in DOMAIN disk.rows : disk.rows[i] \in StoredRows /\ Tree[i] \in Rows
  BY <1>1, TreeIsLoaded
<1>4. dataGen \in 0..MaxGen /\ MaxGen \in Nat
  BY TodoAssumption DEF TodoInv, ControlInv
<1>5. CASE disk' = [disk EXCEPT !.rows[t].note = text] /\ Publish(proj)
  <2> DEFINE w == [i \in DOMAIN disk.rows |->
                     IF i = t THEN [disk.rows[i] EXCEPT !.note = text] ELSE disk.rows[i]]
  <2>1. PICK D \in SUBSET Tasks : disk.rows \in [D -> StoredRows]
    BY <1>3 DEF Stores
  <2>2. /\ [disk.rows EXCEPT ![t].note = text] = w
        /\ \A i \in D : w[i] \in StoredRows
        /\ \A i \in D : /\ w[i].up = disk.rows[i].up /\ w[i].hor = disk.rows[i].hor
                        /\ w[i].done = disk.rows[i].done /\ w[i].arch = disk.rows[i].arch
    BY <1>1, <1>3, <2>1 DEF StoredRows
  <2>3. DOMAIN w = D /\ DOMAIN disk.rows = D /\ w \in [D -> StoredRows]
    BY <2>1, <2>2
  <2>4. disk' = [disk EXCEPT !.rows = w]
    BY <1>3, <1>5, <2>2 DEF Stores
  <2> HIDE DEF w
  <2>5. disk' \in Stores /\ disk'.rows = w /\ disk'.focus = disk.focus
    BY <1>3, <2>3, <2>4 DEF Stores
  <2>6. Forest(w)
    <3>1. SameParents(disk.rows, w)
      BY <2>2, <2>3 DEF SameParents
    <3> QED  BY <1>3, <2>3, <3>1, ForestSame
  <2>7. FocusOpen(disk') /\ Projected(disk') = Projected(disk)
    BY <1>3, <2>2, <2>3, <2>5 DEF FocusOpen, Projected
  <2>8. Whole(disk') /\ Sound'
    BY <2>5, <2>6, <2>7 DEF Whole, Sound
  <2>9. FilesInv' /\ SoundInv'
    BY <1>1, <1>2, <2>8 DEF TodoInv, FilesInv, SoundInv
  <2>10. ControlInv'
    BY <1>1, <1>2, <1>4, <1>5 DEF TodoInv, ControlInv, Publish
  <2>11. cache' = Loaded' /\ cache' \in Caches
    <3>1. Loaded' = Loaded
      BY <2>2, <2>3, <2>5 DEF Loaded
    <3>2. Loaded \in [DOMAIN disk.rows -> Rows]
      BY <1>3 DEF Loaded
    <3> QED  BY <1>1, <1>3, <3>1, <3>2, CacheTyped
  <2>12. /\ proj' \in Horizons \cup {Idle, None} /\ working' \in BOOLEAN
         /\ proj' # None => proj' = Projected(disk') /\ working' = (Projected(disk') # Idle)
    <3>1. proj # None => proj = Projected(disk')
      BY <1>1, <2>7 DEF TodoInv, MemoryInv, ProjectionMatchesFocus
    <3>2. Projected(disk') \in Horizons \cup {Idle}
      BY <1>3, <2>7 DEF Projected, FocusOpen, StoredRows
    <3>3. working \in BOOLEAN /\ proj \in Horizons \cup {Idle, None}
      BY DEF TodoInv, MemoryInv
    <3> QED  BY <1>5, <3>1, <3>2, <3>3 DEF Publish
  <2>13. MemoryInv'
    BY <1>1, <1>2, <2>11, <2>12 DEF MemoryInv, CacheMatchesStore, ProjectionMatchesFocus
  <2>14. WayBackInv'
    BY <1>2 DEF WayBackInv, RestoreInputKept
  <2> QED  BY <2>9, <2>10, <2>13, <2>14 DEF TodoInv
<1>6. CASE UNCHANGED <<disk, proj, working, dataGen>>
  <2>1. FilesInv' /\ SoundInv' /\ ControlInv'
    BY <1>1, <1>2, <1>6 DEF TodoInv, FilesInv, SoundInv, ControlInv, Sound
  <2>2. cache' = Loaded' /\ cache' \in Caches
    <3>1. Loaded \in [DOMAIN disk.rows -> Rows]
      BY <1>3 DEF Loaded
    <3> QED  BY <1>1, <1>3, <1>6, <3>1, CacheTyped DEF Loaded
  <2>3. MemoryInv'
    BY <1>1, <1>2, <1>6, <2>2
       DEF TodoInv, MemoryInv, CacheMatchesStore, ProjectionMatchesFocus, Projected
  <2>4. WayBackInv'
    BY <1>2 DEF WayBackInv, RestoreInputKept
  <2> QED  BY <2>1, <2>3, <2>4 DEF TodoInv
<1> QED  BY <1>5, <1>6 DEF SetNote

\* A manual backup changes nothing the service holds.
LEMMA ManualBackupKeeps ==
  ASSUME TodoInv, CreateManualBackup
  PROVE  TodoInv'
<1>1. /\ state = "open" /\ cache' = Tree /\ Snapshot("manual", None) /\ UNCHANGED disk
      /\ UNCHANGED <<state, op, proj, working, dataGen, storeGen, starts>>
  BY DEF CreateManualBackup
<1>2. /\ op = Quiet
      /\ op' = Quiet
      /\ Quiet.at = "idle"
      /\ Quiet.kind = "none"
      /\ Quiet.src = None
  BY <1>1 DEF TodoInv, ControlInv, Quiet
<1>3. FilesInv'
  BY <1>1, SnapshotKeeps DEF TodoInv, SoundInv, Kinds
<1>4. SoundInv' /\ ControlInv'
  BY <1>1, <1>2 DEF TodoInv, SoundInv, ControlInv, Sound
<1>5. cache' = Loaded' /\ cache' \in Caches
  <2>1. /\ DOMAIN disk.rows \subseteq Tasks /\ Tree = Loaded
        /\ \A i \in DOMAIN disk.rows : Tree[i] \in Rows
    BY <1>1, TreeIsLoaded
  <2>2. Loaded \in [DOMAIN disk.rows -> Rows]
    BY <2>1 DEF Loaded
  <2> QED  BY <1>1, <2>1, <2>2, CacheTyped DEF Loaded
<1>6. MemoryInv'
  BY <1>1, <1>2, <1>5
     DEF TodoInv, MemoryInv, CacheMatchesStore, ProjectionMatchesFocus, Projected
<1>7. WayBackInv'
  BY <1>2 DEF WayBackInv, RestoreInputKept
<1> QED  BY <1>3, <1>4, <1>6, <1>7 DEF TodoInv

\* Every use case keeps the invariant.
LEMMA UseCaseKeeps == TodoInv /\ UseCase => TodoInv'
<1> SUFFICES ASSUME TodoInv, UseCase
             PROVE  TodoInv'
  OBVIOUS
<1>1. CASE StopFocus \/ \E t \in Tasks : StartFocus(t)
  BY <1>1, FocusKeeps
<1>2. CASE CreateManualBackup
  BY <1>2, ManualBackupKeeps
<1>3. ASSUME NEW t \in Tasks, NEW p \in Tasks \cup {None}, NEW h \in Horizons, AddTask(t, p, h)
      PROVE  TodoInv'
  BY <1>3, AddTaskKeeps
<1>4. ASSUME NEW t \in Tasks, NEW h \in Horizons, SetHorizon(t, h)
      PROVE  TodoInv'
  BY <1>4, SetHorizonKeeps
<1>5. ASSUME NEW t \in Tasks, NEW text \in Notes, SetNote(t, text)
      PROVE  TodoInv'
  BY <1>5, SetNoteKeeps
<1>6. ASSUME NEW t \in Tasks, EditTask(t) \/ MoveWithinSiblings(t)
      PROVE  TodoInv'
  <2>1. CASE EditTask(t)
    <3>1. state = "open" /\ {t} \in SUBSET DOMAIN Tree /\ Edit({t})
      BY <2>1 DEF EditTask
    <3> QED  BY <3>1, EditKeeps
  <2>2. CASE MoveWithinSiblings(t)
    <3> DEFINE siblings == {s \in DOMAIN Tree : Tree[s].up = Tree[t].up}
    <3>1. state = "open" /\ siblings \in SUBSET DOMAIN Tree /\ Edit(siblings)
      BY <2>2 DEF MoveWithinSiblings
    <3> HIDE DEF siblings
    <3> QED  BY <3>1, EditKeeps
  <2> QED  BY <1>6, <2>1, <2>2
<1>7. ASSUME NEW t \in Tasks, Complete(t) \/ CompleteSubtree(t)
      PROVE  TodoInv'
  <2>1. PICK ids \in SUBSET DOMAIN Tree : state = "open" /\ CompleteAll(t, ids)
    BY <1>7 DEF Complete, CompleteSubtree, Subtree
  <2> QED  BY <2>1, CompleteKeeps
<1>8. ASSUME NEW t \in Tasks, RestoreTask(t) \/ RestoreSubtree(t)
      PROVE  TodoInv'
  <2>1. PICK ids \in SUBSET DOMAIN Tree : state = "open" /\ RestoreAll(ids)
    BY <1>8 DEF RestoreTask, RestoreSubtree, Subtree
  <2> QED  BY <2>1, RestoreAllKeeps
<1>9. ASSUME NEW t \in Tasks, ArchiveSubtree(t) \/ RestoreArchived(t) \/ DeleteSubtree(t)
      PROVE  TodoInv'
  BY <1>9, ArchiveKeeps, RestoreArchivedKeeps, DeleteKeeps
<1> QED  BY <1>1, <1>2, <1>3, <1>4, <1>5, <1>6, <1>7, <1>8, <1>9 DEF UseCase

-----------------------------------------------------------------------------
(***************************************************************************)
(* Opening, upgrading and restoring                                        *)
(***************************************************************************)

\* A step that may change the store, and leaves the backups alone.
LEMMA FilesSame ==
  ASSUME FilesInv, UNCHANGED <<backups, made>>, disk' \in {NoStore, Broken} \/ Whole(disk')
  PROVE  FilesInv'
BY DEF FilesInv

\* A start or a migration that ends with the service open on a whole store.
LEMMA ServeKeeps ==
  ASSUME TodoInv, state = "busy", op.at \in {"open", "migrate"}, Serve, Whole(disk'),
         UNCHANGED <<backups, made, starts>>
  PROVE  TodoInv'
<1>1. op' = Quiet /\ Quiet.at = "idle" /\ Quiet.kind = "none" /\ Quiet.src = None
  BY DEF Serve, Quiet
<1>2. /\ FilesInv' /\ Sound'
  BY FilesSame DEF TodoInv, Whole, Sound
<1>3. cache = Unloaded /\ op.kind \in {"start", "restore"} /\ dataGen \in 0..MaxGen
      /\ MaxGen \in Nat /\ working \in BOOLEAN /\ proj \in Horizons \cup {Idle, None}
      /\ storeGen \in Nat /\ starts \in 0..MaxStarts
      /\ (op.kind = "restore" => dataGen < MaxGen) /\ (op.kind = "start" => ~ working)
  BY TodoAssumption DEF TodoInv, ControlInv, MemoryInv
<1>4. Projected(disk') \in Horizons \cup {Idle}
  BY DEF Whole, Stores, StoredRows, FocusOpen, Projected
<1>5. SoundInv'
  BY <1>1, <1>2 DEF SoundInv
<1>6. WayBackInv'
  BY <1>1 DEF WayBackInv, RestoreInputKept
<1>7. Quiet \in [kind : {"none", "start", "restore"}, src : Nat \cup {None},
                 at : {"idle", "verify", "preserve", "copy", "open", "backup", "migrate"}]
  BY DEF Quiet
<1>8. CASE op.kind = "start" /\ state' = "open" /\ proj' = Projected(disk')
           /\ working' = (proj' # Idle) /\ UNCHANGED <<cache, dataGen, storeGen>>
  <2>1. ControlInv'
    BY <1>1, <1>3, <1>7, <1>8 DEF ControlInv
  <2>2. MemoryInv'
    BY <1>1, <1>3, <1>4, <1>8 DEF MemoryInv, CacheMatchesStore, ProjectionMatchesFocus
  <2> QED  BY <1>2, <1>5, <1>6, <2>1, <2>2 DEF TodoInv
<1>9. CASE op.kind = "start" /\ state' = "facade" /\ UNCHANGED memory
  <2>1. ControlInv'
    BY <1>1, <1>3, <1>7, <1>9 DEF ControlInv, memory
  <2>2. MemoryInv'
    BY <1>1, <1>3, <1>9 DEF MemoryInv, CacheMatchesStore, ProjectionMatchesFocus, memory
  <2> QED  BY <1>2, <1>5, <1>6, <2>1, <2>2 DEF TodoInv
<1>10. CASE op.kind = "restore" /\ state' = "open" /\ Publish(None)
            /\ UNCHANGED <<cache, storeGen>>
  <2>1. ControlInv'
    BY <1>1, <1>3, <1>7, <1>10 DEF ControlInv, Publish
  <2>2. MemoryInv'
    BY <1>1, <1>3, <1>4, <1>10
       DEF MemoryInv, CacheMatchesStore, ProjectionMatchesFocus, Publish
  <2> QED  BY <1>2, <1>5, <1>6, <2>1, <2>2 DEF TodoInv
<1> QED  BY <1>3, <1>8, <1>9, <1>10 DEF Serve

\* A start that ends with the module degraded.
LEMMA RefuseKeeps ==
  ASSUME TodoInv, state = "busy", op.at \in {"open", "backup", "migrate"}, Refuse,
         disk' \in {NoStore, Broken} \/ Whole(disk'), UNCHANGED <<backups, made, starts>>
  PROVE  TodoInv'
<1>1. op' = Quiet /\ Quiet.at = "idle" /\ Quiet.kind = "none" /\ Quiet.src = None
  BY DEF Refuse, Quiet
<1>2. FilesInv'
  BY FilesSame DEF TodoInv
<1>3. cache = Unloaded /\ op.kind \in {"start", "restore"} /\ dataGen \in 0..MaxGen
      /\ MaxGen \in Nat /\ working \in BOOLEAN /\ proj \in Horizons \cup {Idle, None}
      /\ storeGen \in Nat /\ starts \in 0..MaxStarts
      /\ (op.kind = "restore" => dataGen < MaxGen) /\ (op.kind = "start" => ~ working)
  BY TodoAssumption DEF TodoInv, ControlInv, MemoryInv
<1>4. WayBackInv'
  BY <1>1 DEF WayBackInv, RestoreInputKept
<1>5. Quiet \in [kind : {"none", "start", "restore"}, src : Nat \cup {None},
                 at : {"idle", "verify", "preserve", "copy", "open", "backup", "migrate"}]
  BY DEF Quiet
<1>6. state' \in {"facade", "degraded"} /\ UNCHANGED <<cache, proj, storeGen>>
      /\ working' = FALSE /\ dataGen' \in 0..MaxGen
  BY <1>3 DEF Refuse, memory
<1>7. SoundInv' /\ ControlInv' /\ MemoryInv'
  BY <1>1, <1>3, <1>5, <1>6
     DEF SoundInv, ControlInv, MemoryInv, CacheMatchesStore, ProjectionMatchesFocus
<1> QED  BY <1>2, <1>4, <1>7 DEF TodoInv

\* A store without tasks is whole.
LEMMA EmptyStoreWhole ==
  Whole([version |-> 2, rows |-> [x \in {} |-> None], focus |-> None])
<1> DEFINE r == [x \in {} |-> None]
<1>1. r \in [{} -> StoredRows] /\ DOMAIN r = {}
  OBVIOUS
<1>2. r \in UNION {[D -> StoredRows] : D \in SUBSET Tasks}
  BY <1>1
<1>3. Forest(r)
  BY <1>1 DEF Forest
<1> HIDE DEF r
<1>4. [version |-> 2, rows |-> r, focus |-> None] \in Stores
  BY <1>2 DEF Stores
<1>5. FocusOpen([version |-> 2, rows |-> r, focus |-> None])
  BY DEF FocusOpen
<1> QED  BY <1>3, <1>4, <1>5 DEF Whole, r

\* Opening makes an empty store, loads a v2 one, takes a v1 one to its backup, or degrades.
LEMMA OpenKeeps == TodoInv /\ Open => TodoInv'
<1> SUFFICES ASSUME TodoInv, Open
             PROVE  TodoInv'
  OBVIOUS
<1>1. /\ state = "busy" /\ op.at = "open" /\ UNCHANGED <<backups, made, starts>>
      /\ disk \in {NoStore, Broken} \/ Whole(disk)
  BY DEF Open, Step, TodoInv, FilesInv
<1>2. CASE CreateStore
  BY <1>1, <1>2, EmptyStoreWhole, ServeKeeps DEF CreateStore
<1>3. CASE OpenExisting
  BY <1>1, <1>3, ServeKeeps DEF OpenExisting, Sound
<1>4. CASE OpenV1
  <2>1. /\ op' = [op EXCEPT !.at = "backup"] /\ UNCHANGED <<disk, state, memory>> /\ Sound
    BY <1>4 DEF OpenV1, GoTo
  <2>2. op \in [kind : {"none", "start", "restore"}, src : Nat \cup {None},
                at : {"idle", "verify", "preserve", "copy", "open", "backup", "migrate"}]
    BY DEF TodoInv, ControlInv
  <2>3. /\ op'.kind = op.kind /\ op'.src = op.src /\ op'.at = "backup"
        /\ op' \in [kind : {"none", "start", "restore"}, src : Nat \cup {None},
                    at : {"idle", "verify", "preserve", "copy", "open", "backup", "migrate"}]
    BY <2>1, <2>2
  <2>4. FilesInv'
    BY <1>1, <2>1, FilesSame DEF TodoInv
  <2>5. ControlInv' /\ SoundInv'
    BY <1>1, <2>1, <2>3 DEF TodoInv, ControlInv, SoundInv, Sound, memory
  <2>6. MemoryInv' /\ WayBackInv'
    BY <1>1, <2>1, <2>3
       DEF TodoInv, MemoryInv, WayBackInv, RestoreInputKept, CacheMatchesStore,
           ProjectionMatchesFocus, memory, Ids
  <2> QED  BY <2>4, <2>5, <2>6 DEF TodoInv
<1>5. CASE UNCHANGED disk /\ Refuse
  BY <1>1, <1>5, RefuseKeeps
<1> QED  BY <1>2, <1>3, <1>4, <1>5 DEF Open

\* A step of a start or a restore to a place at, in a busy module.
LEMMA OpMoves ==
  ASSUME TodoInv, state = "busy",
         NEW at \in {"preserve", "copy", "open", "backup", "migrate"}, GoTo(at)
  PROVE  /\ op'.kind = op.kind /\ op'.src = op.src /\ op'.at = at
         /\ op' \in [kind : {"none", "start", "restore"}, src : Nat \cup {None},
                     at : {"idle", "verify", "preserve", "copy", "open", "backup", "migrate"}]
         /\ op.kind # "none"
BY DEF TodoInv, ControlInv, GoTo

\* The backup taken before the migration is of the store that will be migrated.
LEMMA BackupV1Keeps == TodoInv /\ BackupV1 => TodoInv'
<1> SUFFICES ASSUME TodoInv, BackupV1
             PROVE  TodoInv'
  OBVIOUS
<1>1. /\ state = "busy" /\ op.at = "backup" /\ UNCHANGED <<disk, starts>> /\ Sound
      /\ disk \in {NoStore, Broken} \/ Whole(disk)
  BY DEF BackupV1, Step, TodoInv, FilesInv, SoundInv
<1>2. CASE /\ Snapshot("pre-migration", op.src)
           /\ GoTo("migrate")
           /\ UNCHANGED <<state, memory>>
  <2>1. /\ FilesInv' /\ \E b \in backups' : b.data = disk
        /\ op.src \in Ids => op.src \in Ids'
    BY <1>1, <1>2, SnapshotKeeps DEF TodoInv, Kinds
  <2>2. /\ op'.kind = op.kind /\ op'.src = op.src /\ op'.at = "migrate"
        /\ op' \in [kind : {"none", "start", "restore"}, src : Nat \cup {None},
                    at : {"idle", "verify", "preserve", "copy", "open", "backup", "migrate"}]
    BY <1>1, <1>2, OpMoves
  <2>3. ControlInv' /\ SoundInv'
    BY <1>1, <1>2, <2>2 DEF TodoInv, ControlInv, SoundInv, Sound, memory
  <2>4. MemoryInv'
    BY <1>1, <1>2, <2>2
       DEF TodoInv, MemoryInv, CacheMatchesStore, ProjectionMatchesFocus, memory
  <2>5. WayBackInv'
    BY <1>1, <2>1, <2>2 DEF TodoInv, WayBackInv, RestoreInputKept
  <2> QED  BY <2>1, <2>3, <2>4, <2>5 DEF TodoInv
<1>3. CASE UNCHANGED <<backups, made>> /\ Refuse
  BY <1>1, <1>3, RefuseKeeps
<1> QED  BY <1>2, <1>3 DEF BackupV1

\* The migration changes the version of the store and nothing that makes it whole.
LEMMA MigrateKeeps == TodoInv /\ Migrate => TodoInv'
<1> SUFFICES ASSUME TodoInv, Migrate
             PROVE  TodoInv'
  OBVIOUS
<1>1. /\ state = "busy" /\ op.at = "migrate" /\ UNCHANGED <<backups, made, starts>>
      /\ Whole(disk)
  BY DEF Migrate, Step, TodoInv, FilesInv, SoundInv, Sound
<1>2. Whole([disk EXCEPT !.version = 2])
  <2> DEFINE s == [disk EXCEPT !.version = 2]
  <2>1. s \in Stores /\ s.rows = disk.rows /\ s.focus = disk.focus
    BY <1>1 DEF Whole, Stores
  <2> HIDE DEF s
  <2>2. Whole(s)
    BY <1>1, <2>1 DEF Whole, FocusOpen
  <2> QED  BY <2>2 DEF s
<1> QED  BY <1>1, <1>2, ServeKeeps, RefuseKeeps DEF Migrate

\* After a restore, done or not, what was cached is dropped and the store is
\* opened again.
LEMMA ReacquireKeeps ==
  ASSUME TodoInv, state = "busy", op.kind = "restore", Reacquire, FilesInv',
         UNCHANGED <<state, starts>>, op.src \in Ids => op.src \in Ids'
  PROVE  TodoInv'
<1>1. /\ op'.kind = op.kind /\ op'.src = op.src /\ op'.at = "open"
      /\ op' \in [kind : {"none", "start", "restore"}, src : Nat \cup {None},
                  at : {"idle", "verify", "preserve", "copy", "open", "backup", "migrate"}]
  BY OpMoves DEF Reacquire
<1>2. storeGen' = storeGen + 1 /\ cache' = Unloaded /\ proj' = None
      /\ UNCHANGED <<working, dataGen>>
  BY DEF Reacquire
<1>3. ControlInv' /\ SoundInv'
  BY <1>1, <1>2 DEF TodoInv, ControlInv, SoundInv
<1>4. MemoryInv'
  BY <1>1, <1>2 DEF TodoInv, MemoryInv, CacheMatchesStore, ProjectionMatchesFocus
<1>5. WayBackInv'
  BY <1>1 DEF TodoInv, WayBackInv, RestoreInputKept
<1> QED  BY <1>3, <1>4, <1>5 DEF TodoInv

\* The candidate's verification goes on with a backup that is there, or reopens the store.
LEMMA VerifyKeeps == TodoInv /\ VerifyCandidate => TodoInv'
<1> SUFFICES ASSUME TodoInv, VerifyCandidate
             PROVE  TodoInv'
  OBVIOUS
<1>1. /\ state = "busy" /\ op.at = "verify" /\ op.kind = "restore"
      /\ UNCHANGED <<disk, backups, made, state, starts>>
  BY DEF VerifyCandidate, Step, TodoInv, ControlInv, files
<1>2. FilesInv' /\ (op.src \in Ids => op.src \in Ids')
  BY <1>1 DEF TodoInv, FilesInv, Ids
<1>3. CASE Reacquire
  BY <1>1, <1>2, <1>3, ReacquireKeeps
<1>4. ASSUME NEW at \in {"preserve", "copy"}, GoTo(at), UNCHANGED memory,
             at = "copy" <=> disk = NoStore
      PROVE  TodoInv'
  <2>1. /\ op'.kind = op.kind /\ op'.src = op.src /\ op'.at = at
        /\ op' \in [kind : {"none", "start", "restore"}, src : Nat \cup {None},
                    at : {"idle", "verify", "preserve", "copy", "open", "backup", "migrate"}]
    BY <1>1, <1>4, OpMoves
  <2>2. ControlInv' /\ SoundInv'
    BY <1>1, <1>4, <2>1 DEF TodoInv, ControlInv, SoundInv, memory
  <2>3. MemoryInv'
    BY <1>1, <1>4, <2>1
       DEF TodoInv, MemoryInv, CacheMatchesStore, ProjectionMatchesFocus, memory
  <2>4. WayBackInv'
    BY <1>1, <1>2, <1>4, <2>1 DEF TodoInv, WayBackInv, RestoreInputKept
  <2> QED  BY <1>2, <2>2, <2>3, <2>4 DEF TodoInv
<1>5. CASE GoTo(IF disk = NoStore THEN "copy" ELSE "preserve") /\ UNCHANGED memory
  BY <1>4, <1>5
<1> QED  BY <1>3, <1>5 DEF VerifyCandidate

\* The pre-restore backup is of the store that will be overwritten.
LEMMA PreserveKeeps == TodoInv /\ PreserveStore => TodoInv'
<1> SUFFICES ASSUME TodoInv, PreserveStore
             PROVE  TodoInv'
  OBVIOUS
<1>1. /\ state = "busy" /\ op.at = "preserve" /\ op.kind = "restore" /\ disk # NoStore
      /\ UNCHANGED <<disk, state, starts>>
  BY DEF PreserveStore, Step, TodoInv, ControlInv, SoundInv
<1>2. CASE /\ disk # Broken
           /\ Snapshot("pre-restore", op.src)
           /\ GoTo("copy")
           /\ UNCHANGED memory
  <2>1. /\ FilesInv' /\ \E b \in backups' : b.data = disk
        /\ op.src \in Ids => op.src \in Ids'
    BY <1>1, <1>2, SnapshotKeeps DEF TodoInv, Kinds, Sound
  <2>2. /\ op'.kind = op.kind /\ op'.src = op.src /\ op'.at = "copy"
        /\ op' \in [kind : {"none", "start", "restore"}, src : Nat \cup {None},
                    at : {"idle", "verify", "preserve", "copy", "open", "backup", "migrate"}]
    BY <1>1, <1>2, OpMoves
  <2>3. ControlInv' /\ SoundInv'
    BY <1>1, <1>2, <2>2 DEF TodoInv, ControlInv, SoundInv, memory
  <2>4. MemoryInv'
    BY <1>1, <1>2, <2>2
       DEF TodoInv, MemoryInv, CacheMatchesStore, ProjectionMatchesFocus, memory
  <2>5. WayBackInv'
    BY <1>1, <2>1, <2>2 DEF TodoInv, WayBackInv, RestoreInputKept
  <2> QED  BY <2>1, <2>3, <2>4, <2>5 DEF TodoInv
<1>3. CASE UNCHANGED <<backups, made>> /\ Reacquire
  <2>1. FilesInv' /\ (op.src \in Ids => op.src \in Ids')
    BY <1>1, <1>3 DEF TodoInv, FilesInv, Ids
  <2> QED  BY <1>1, <1>3, <2>1, ReacquireKeeps
<1> QED  BY <1>2, <1>3 DEF PreserveStore

\* The store becomes that of the backup, and it is loaded again.
LEMMA ReplaceKeeps == TodoInv /\ ReplaceStore => TodoInv'
<1> SUFFICES ASSUME TodoInv, ReplaceStore
             PROVE  TodoInv'
  OBVIOUS
<1>1. /\ state = "busy" /\ op.at = "copy" /\ op.kind = "restore" /\ Reacquire
      /\ UNCHANGED <<backups, made, state, starts>>
  BY DEF ReplaceStore, Step, TodoInv, ControlInv
<1>2. disk' \in {NoStore, Broken} \/ Whole(disk')
  <2>1. CASE Readable(op.src) /\ disk' = BackupOf(op.src).data
    BY <2>1, BackupFound DEF Readable, TodoInv, FilesInv
  <2>2. CASE UNCHANGED disk
    BY <2>2 DEF TodoInv, FilesInv
  <2> QED  BY <2>1, <2>2 DEF ReplaceStore
<1>3. FilesInv' /\ (op.src \in Ids => op.src \in Ids')
  BY <1>1, <1>2, FilesSame DEF TodoInv, Ids
<1> QED  BY <1>1, <1>3, ReacquireKeeps

\* A start begins with nothing in memory.
LEMMA StartKeeps == TodoInv /\ Start => TodoInv'
<1> SUFFICES ASSUME TodoInv, Start
             PROVE  TodoInv'
  OBVIOUS
<1>1. /\ state = "down" /\ starts < MaxStarts /\ starts' = starts + 1 /\ state' = "busy"
      /\ op' = [kind |-> "start", at |-> "open", src |-> None]
      /\ UNCHANGED <<files, memory>>
  BY DEF Start
<1>2. /\ op'.kind = "start" /\ op'.at = "open" /\ op'.src = None
      /\ op' \in [kind : {"none", "start", "restore"}, src : Nat \cup {None},
                  at : {"idle", "verify", "preserve", "copy", "open", "backup", "migrate"}]
  BY <1>1
<1>3. FilesInv' /\ SoundInv'
  BY <1>1, <1>2 DEF TodoInv, FilesInv, SoundInv, files
<1>4. ControlInv'
  BY <1>1, <1>2, TodoAssumption DEF TodoInv, ControlInv, memory
<1>5. MemoryInv'
  BY <1>1, <1>2 DEF TodoInv, MemoryInv, CacheMatchesStore, ProjectionMatchesFocus, memory
<1>6. WayBackInv'
  BY <1>1, <1>2 DEF WayBackInv, RestoreInputKept
<1> QED  BY <1>3, <1>4, <1>5, <1>6 DEF TodoInv

\* A restore begins with a backup that is there.
LEMMA BeginRestoreKeeps ==
  ASSUME TodoInv, NEW id \in Ids, BeginRestore(id)
  PROVE  TodoInv'
<1>1. /\ state \in {"open", "degraded"} /\ dataGen < MaxGen /\ state' = "busy"
      /\ op' = [kind |-> "restore", at |-> "verify", src |-> id]
      /\ UNCHANGED <<files, memory, starts>>
  BY DEF BeginRestore
<1>2. id \in Nat
  BY DEF TodoInv, FilesInv, Ids
<1>3. /\ op'.kind = "restore" /\ op'.at = "verify" /\ op'.src = id
      /\ op' \in [kind : {"none", "start", "restore"}, src : Nat \cup {None},
                  at : {"idle", "verify", "preserve", "copy", "open", "backup", "migrate"}]
  BY <1>1, <1>2
<1>4. FilesInv' /\ SoundInv' /\ ControlInv'
  BY <1>1, <1>3 DEF TodoInv, FilesInv, SoundInv, ControlInv, files, memory
<1>5. MemoryInv'
  BY <1>1, <1>3 DEF TodoInv, MemoryInv, CacheMatchesStore, ProjectionMatchesFocus, memory
<1>6. WayBackInv'
  BY <1>1, <1>3 DEF WayBackInv, RestoreInputKept, Ids, files
<1> QED  BY <1>4, <1>5, <1>6 DEF TodoInv

\* Decay of a backup on disk takes no backup away.
LEMMA RottenKeeps ==
  ASSUME TodoInv, NEW id \in Ids, Rot(id)
  PROVE  TodoInv'
<1>1. UNCHANGED <<disk, made, state, op, memory, starts>>
  BY DEF Rot
<1>2. /\ FilesInv' /\ Ids' = Ids
      /\ \A b \in backups : \E c \in backups' : c.data = b.data
  BY RotKeeps DEF TodoInv
<1>3. SoundInv' /\ ControlInv'
  BY <1>1 DEF TodoInv, SoundInv, ControlInv, Sound, memory
<1>4. MemoryInv'
  BY <1>1
     DEF TodoInv, MemoryInv, CacheMatchesStore, ProjectionMatchesFocus, Projected,
         Loaded, memory
<1>5. WayBackInv'
  BY <1>1, <1>2 DEF TodoInv, WayBackInv, RestoreInputKept
<1> QED  BY <1>2, <1>3, <1>4, <1>5 DEF TodoInv

\* A kill takes memory, not files.
LEMMA KillKeeps == TodoInv /\ Kill => TodoInv'
<1> SUFFICES ASSUME TodoInv, Kill
             PROVE  TodoInv'
  OBVIOUS
<1>1. /\ state' = "down" /\ op' = Quiet /\ cache' = Unloaded /\ proj' = None
      /\ working' = FALSE /\ dataGen' = 0 /\ storeGen' = 0 /\ UNCHANGED <<files, starts>>
  BY DEF Kill
<1>2. /\ Quiet.kind = "none" /\ Quiet.at = "idle" /\ Quiet.src = None
      /\ Quiet \in [kind : {"none", "start", "restore"}, src : Nat \cup {None},
                    at : {"idle", "verify", "preserve", "copy", "open", "backup", "migrate"}]
  BY DEF Quiet
<1>3. FilesInv' /\ SoundInv' /\ WayBackInv'
  BY <1>1, <1>2 DEF TodoInv, FilesInv, SoundInv, WayBackInv, RestoreInputKept, files
<1>4. ControlInv'
  BY <1>1, <1>2, TodoAssumption DEF TodoInv, ControlInv
<1>5. MemoryInv'
  BY <1>1, <1>2 DEF MemoryInv, CacheMatchesStore, ProjectionMatchesFocus
<1> QED  BY <1>3, <1>4, <1>5 DEF TodoInv

\* Damage to the store meets no service that is open on it.
LEMMA DamageKeeps == TodoInv /\ Damage => TodoInv'
<1> SUFFICES ASSUME TodoInv, Damage
             PROVE  TodoInv'
  OBVIOUS
<1>1. /\ state \in {"down", "degraded"} /\ disk' = Broken
      /\ UNCHANGED <<backups, made, state, op, memory, starts>>
  BY DEF Damage
<1>2. /\ op = Quiet /\ Quiet.kind = "none" /\ Quiet.at = "idle" /\ Quiet.src = None
  BY <1>1 DEF TodoInv, ControlInv, Quiet
<1>3. FilesInv'
  BY <1>1, FilesSame DEF TodoInv
<1>4. SoundInv' /\ ControlInv' /\ WayBackInv'
  BY <1>1, <1>2
     DEF TodoInv, SoundInv, ControlInv, WayBackInv, RestoreInputKept, memory
<1>5. MemoryInv'
  BY <1>1, <1>2
     DEF TodoInv, MemoryInv, CacheMatchesStore, ProjectionMatchesFocus, memory
<1> QED  BY <1>3, <1>4, <1>5 DEF TodoInv

\* Every step keeps the invariant.
LEMMA TodoNext == TodoInv /\ [Next]_vars => TodoInv'
<1> SUFFICES ASSUME TodoInv, [Next]_vars
             PROVE  TodoInv'
  OBVIOUS
<1>1. CASE UNCHANGED vars
  BY <1>1
     DEF vars, files, memory, TodoInv, FilesInv, ControlInv, SoundInv, MemoryInv,
         WayBackInv,
         CacheMatchesStore, ProjectionMatchesFocus, RestoreInputKept, Sound, Projected, Loaded, Ids
<1>2. ASSUME NEW id \in Ids, BeginRestore(id) \/ Rot(id)
      PROVE  TodoInv'
  BY <1>2, BeginRestoreKeeps, RottenKeeps
<1> QED  BY <1>1, <1>2, UseCaseKeeps, StartKeeps, OpenKeeps, BackupV1Keeps, MigrateKeeps,
            VerifyKeeps, PreserveKeeps, ReplaceKeeps, KillKeeps, DamageKeeps DEF Next

\* The first stores are whole.
LEMMA TodoInit == Init => TodoInv
<1> SUFFICES ASSUME Init
             PROVE  TodoInv
  OBVIOUS
<1>1. disk \in {NoStore, Broken} \/ Whole(disk)
  BY DEF Init, Whole
<1>2. IsFiniteSet({})
  BY FS_EmptySet
<1>3. FilesInv
  BY <1>1, <1>2 DEF Init, FilesInv
<1>4. /\ Quiet.kind = "none" /\ Quiet.at = "idle" /\ Quiet.src = None
      /\ Quiet \in [kind : {"none", "start", "restore"}, src : Nat \cup {None},
                    at : {"idle", "verify", "preserve", "copy", "open", "backup", "migrate"}]
  BY DEF Quiet
<1>5. ControlInv /\ SoundInv /\ WayBackInv
  BY <1>4, TodoAssumption DEF Init, ControlInv, SoundInv, WayBackInv, RestoreInputKept
<1>6. MemoryInv
  BY <1>4 DEF Init, MemoryInv, CacheMatchesStore, ProjectionMatchesFocus
<1> QED  BY <1>3, <1>5, <1>6 DEF TodoInv

\* The invariant holds between any two durable effects.
THEOREM TodoInvariant == Spec => []TodoInv
BY TodoInit, TodoNext, PTL DEF Spec

-----------------------------------------------------------------------------
(***************************************************************************)
(* The properties                                                          *)
(***************************************************************************)

\* For any tasks, retention limit and depth, and with any of the faults: what
\* the pages and the pet are served is what is stored, and the store and every
\* backup hold a forest within the depth, with an open focus or none
\* (TodoService, TaskRepository and restore_backup).
THEOREM ServedAsStored == Spec => []ServedIsStored
<1>1. TodoInv => ServedIsStored
  <2> SUFFICES ASSUME TodoInv
               PROVE  ServedIsStored
    OBVIOUS
  <2>1. backups \subseteq [id : 1..made, kind : Kinds, data : Stores, ok : BOOLEAN]
    BY DEF TodoInv, FilesInv
  <2>2. TypeOK
    BY <2>1 DEF TodoInv, FilesInv, ControlInv, MemoryInv, Whole, TypeOK
  <2>3. CacheMatchesStore /\ ProjectionMatchesFocus
    BY DEF TodoInv, MemoryInv
  <2>4. StoresAreWhole
    BY DEF TodoInv, FilesInv, Whole, StoresAreWhole
  <2> QED  BY <2>2, <2>3, <2>4 DEF ServedIsStored
<1> QED  BY <1>1, TodoInvariant, PTL

\* The backup a restore reads from, and the upgrade behind it, outlives every
\* backup made on the way, whatever the retention limit (prune_backups with its
\* protected argument).
THEOREM RestoreInputSurvives == Spec => []RestoreInputKept
<1>1. TodoInv => RestoreInputKept
  BY DEF TodoInv, WayBackInv
<1> QED  BY <1>1, TodoInvariant, PTL

\* A transaction keeps the note of every task that stays.
LEMMA CommitKeepsNotes ==
  ASSUME TodoInv, NEW changed, NEW gone, NEW focus, NEW p, Commit(changed, gone, focus, p)
  PROVE  disk' = disk \/ \A t \in DOMAIN disk.rows \cap DOMAIN disk'.rows :
                           disk'.rows[t].note = disk.rows[t].note
<1>1. disk \in Stores
  BY TreeIsLoaded DEF Commit
<1>2. CASE disk' = [disk EXCEPT !.rows = Written(changed, gone), !.focus = focus]
  <2>1. disk'.rows = Written(changed, gone)
    BY <1>1, <1>2 DEF Stores
  <2>2. ASSUME NEW t \in DOMAIN disk.rows \cap DOMAIN disk'.rows
        PROVE  disk'.rows[t].note = disk.rows[t].note
    <3>1. disk'.rows[t] = IF t \in DOMAIN changed THEN Upserted(t, changed[t]) ELSE disk.rows[t]
      BY <2>1 DEF Written
    <3> QED  BY <3>1 DEF Upserted, WithNote
  <2> QED  BY <2>2
<1>3. CASE UNCHANGED disk
  BY <1>3
<1> QED  BY <1>2, <1>3 DEF Commit

\* No edit but set_note changes the note of a task that stays, whichever rows it
\* writes back: the tree never holds notes (load_all, _write_task).
THEOREM NotesKept == Spec => NoteKept
<1> DEFINE Same == \A t \in DOMAIN disk.rows \cap DOMAIN disk'.rows :
                     disk'.rows[t].note = disk.rows[t].note
<1>1. ASSUME TodoInv, [Next]_vars, state = "open",
             \A t \in Tasks, text \in Notes : ~ SetNote(t, text)
      PROVE  disk' = disk \/ Same
  <2>1. ASSUME NEW changed, NEW gone, NEW focus, NEW p, Commit(changed, gone, focus, p)
        PROVE  disk' = disk \/ Same
    BY <1>1, <2>1, CommitKeepsNotes
  <2>2. ASSUME NEW changed, NEW gone, NEW ids, CommitClearing(changed, gone, ids)
        PROVE  disk' = disk \/ Same
    BY <2>1, <2>2 DEF CommitClearing
  <2> HIDE DEF Same
  <2>3. CASE StopFocus \/ \E t \in Tasks : StartFocus(t)
    BY <2>1, <2>3 DEF StopFocus, StartFocus
  <2>4. ASSUME NEW t \in Tasks, NEW p \in Tasks \cup {None}, NEW h \in Horizons,
               AddTask(t, p, h) \/ SetHorizon(t, h)
        PROVE  disk' = disk \/ Same
    BY <2>1, <2>4 DEF AddTask, SetHorizon
  <2>5. ASSUME NEW t \in Tasks, EditTask(t) \/ MoveWithinSiblings(t)
        PROVE  disk' = disk \/ Same
    BY <2>1, <2>5 DEF EditTask, MoveWithinSiblings, Edit
  <2>6. ASSUME NEW t \in Tasks, Complete(t) \/ CompleteSubtree(t)
        PROVE  disk' = disk \/ Same
    BY <2>2, <2>6 DEF Complete, CompleteSubtree, CompleteAll
  <2>7. ASSUME NEW t \in Tasks, RestoreTask(t) \/ RestoreSubtree(t) \/ RestoreArchived(t)
        PROVE  disk' = disk \/ Same
    BY <2>1, <2>7 DEF RestoreTask, RestoreSubtree, RestoreAll, RestoreArchived
  <2>8. ASSUME NEW t \in Tasks, ArchiveSubtree(t) \/ DeleteSubtree(t)
        PROVE  disk' = disk \/ Same
    BY <2>2, <2>8 DEF ArchiveSubtree, DeleteSubtree
  <2>9. CASE UseCase
    BY <1>1, <2>3, <2>4, <2>5, <2>6, <2>7, <2>8, <2>9 DEF UseCase, CreateManualBackup
  <2>10. ASSUME ~ UseCase
         PROVE  disk' = disk
    <3>1. op = Quiet /\ Quiet.at = "idle"
      BY <1>1 DEF TodoInv, ControlInv, Quiet
    <3>2. CASE UNCHANGED vars
      BY <3>2 DEF vars, files
    <3>3. CASE Next
      BY <1>1, <2>10, <3>1, <3>3
         DEF Next, Start, Open, BackupV1, Migrate, VerifyCandidate, PreserveStore,
             ReplaceStore,
             BeginRestore, Rot, Kill, Damage, Step, files
    <3> QED  BY <1>1, <3>2, <3>3
  <2> QED  BY <2>9, <2>10
<1>2. TodoInv /\ [Next]_vars =>
        [state = "open" /\ (\A t \in Tasks, text \in Notes : ~ SetNote(t, text)) =>
           \A t \in DOMAIN disk.rows \cap DOMAIN disk'.rows :
             disk'.rows[t].note = disk.rows[t].note]_disk
  BY <1>1
<1> QED  BY <1>2, TodoInvariant, PTL DEF Spec, NoteKept

\* There is a way back from whatever is replaced, upgraded or pruned, at any
\* retention limit: a whole store is overwritten only when a backup holds what it
\* held, a damaged one never, and retention never takes the newest usable backup
\* of a v1 store (restore_backup, _backup_and_migrate_live_v1, prune_backups).
THEOREM WayBackIsKept == Spec => WayBackKept
<1>1. ASSUME TodoInv, op.at \in {"copy", "migrate"}, disk # NoStore
      PROVE  \E b \in backups : b.data = disk
  BY <1>1 DEF TodoInv, WayBackInv
<1>2. ASSUME TodoInv, [Next]_vars, made' > made
      PROVE  \A b \in backups : UsableV1(b) /\ Newest(b) =>
               \E c \in backups' : UsableV1(c) /\ c.id >= b.id
  <2>1. made \in Nat
    BY <1>2 DEF TodoInv, FilesInv
  <2>2. made' # made
    BY <1>2, <2>1
  <2>3. ASSUME NEW kind \in Kinds, NEW protected, Sound, Snapshot(kind, protected),
               UNCHANGED disk
        PROVE  \A b \in backups : UsableV1(b) /\ Newest(b) =>
                 \E c \in backups' : UsableV1(c) /\ c.id >= b.id
    BY <1>2, <2>3, SnapshotKeeps DEF TodoInv
  <2>4. CASE CreateManualBackup
    <3>1. Sound /\ Snapshot("manual", None) /\ UNCHANGED disk /\ "manual" \in Kinds
      BY <1>2, <2>4 DEF CreateManualBackup, TodoInv, SoundInv, Kinds
    <3> QED  BY <2>3, <3>1
  <2>5. CASE BackupV1
    <3>1. Sound /\ Snapshot("pre-migration", op.src) /\ UNCHANGED disk
          /\ "pre-migration" \in Kinds
      BY <1>2, <2>2, <2>5 DEF BackupV1, Step, TodoInv, SoundInv, Kinds
    <3> QED  BY <2>3, <3>1
  <2>6. CASE PreserveStore
    <3>1. Sound /\ Snapshot("pre-restore", op.src) /\ UNCHANGED disk
          /\ "pre-restore" \in Kinds
      BY <1>2, <2>2, <2>6 DEF PreserveStore, Step, TodoInv, SoundInv, Kinds, Sound
    <3> QED  BY <2>3, <3>1
  <2>7. ASSUME NEW changed, NEW gone, NEW focus, NEW p, Commit(changed, gone, focus, p)
        PROVE  made' = made
    BY <2>7 DEF Commit
  <2>8. ASSUME NEW changed, NEW gone, NEW ids, CommitClearing(changed, gone, ids)
        PROVE  made' = made
    BY <2>7, <2>8 DEF CommitClearing
  <2>9. CASE UseCase /\ ~ CreateManualBackup
    <3>0. ASSUME StopFocus
          PROVE  made' = made
      BY <2>7, <3>0 DEF StopFocus
    <3>1. ASSUME NEW t \in Tasks, StartFocus(t)
          PROVE  made' = made
      BY <2>7, <3>1 DEF StartFocus
    <3>2. ASSUME NEW t \in Tasks, NEW p \in Tasks \cup {None}, NEW h \in Horizons,
                 AddTask(t, p, h) \/ SetHorizon(t, h)
          PROVE  made' = made
      BY <2>7, <3>2 DEF AddTask, SetHorizon
    <3>3. ASSUME NEW t \in Tasks, EditTask(t) \/ MoveWithinSiblings(t)
          PROVE  made' = made
      BY <2>7, <3>3 DEF EditTask, MoveWithinSiblings, Edit
    <3>4. ASSUME NEW t \in Tasks, Complete(t) \/ CompleteSubtree(t)
          PROVE  made' = made
      BY <2>8, <3>4 DEF Complete, CompleteSubtree, CompleteAll
    <3>5. ASSUME NEW t \in Tasks, RestoreTask(t) \/ RestoreSubtree(t) \/ RestoreArchived(t)
          PROVE  made' = made
      BY <2>7, <3>5 DEF RestoreTask, RestoreSubtree, RestoreAll, RestoreArchived
    <3>6. ASSUME NEW t \in Tasks, ArchiveSubtree(t) \/ DeleteSubtree(t)
          PROVE  made' = made
      BY <2>8, <3>6 DEF ArchiveSubtree, DeleteSubtree
    <3>7. ASSUME NEW t \in Tasks, NEW text \in Notes, SetNote(t, text)
          PROVE  made' = made
      BY <3>7 DEF SetNote
    <3> QED  BY <2>2, <2>9, <3>0, <3>1, <3>2, <3>3, <3>4, <3>5, <3>6, <3>7 DEF UseCase
  <2>10. CASE Start \/ Open \/ Migrate \/ VerifyCandidate \/ ReplaceStore \/ Kill \/ Damage
              \/ (\E id \in Ids : BeginRestore(id) \/ Rot(id)) \/ UNCHANGED vars
    BY <2>2, <2>10
       DEF Start, Open, Migrate, VerifyCandidate, ReplaceStore, Kill, Damage,
           BeginRestore, Rot,
           vars, files
  <2> QED  BY <1>2, <2>4, <2>5, <2>6, <2>9, <2>10 DEF Next
<1>3. TodoInv /\ [Next]_vars =>
        [/\ op.at \in {"copy", "migrate"} /\ disk' # disk /\ disk # NoStore =>
              \E b \in backups : b.data = disk
         /\ \A b \in backups :
              UsableV1(b) /\ made' > made /\ Newest(b)
                => \E c \in backups' : UsableV1(c) /\ c.id >= b.id]_vars
  BY <1>1, <1>2
<1> QED  BY <1>3, TodoInvariant, PTL DEF Spec, WayBackKept
=============================================================================
