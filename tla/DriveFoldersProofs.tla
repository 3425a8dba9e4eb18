------------------------- MODULE DriveFoldersProofs -------------------------
(***************************************************************************)
(* Why a bag is filed in the folder its path names, for any number of      *)
(* workers, any paths, any number of faults and removals, and any          *)
(* interleaving of the threads on the shared _folder_cache.                *)
(***************************************************************************)
EXTENDS DriveFolders, FiniteSetTheorems, TLAPS

Entry  == [name : Names, parent : Nat]
Caches == UNION {[keys -> Nat] : keys \in SUBSET (Nat \X Names)}

Walks == [pc : Stages, parent : Nat, depth : Nat, found : Nat, ignored : SUBSET Nat,
          attempt : Nat, kept : Caches]

Resolving == {"check", "read", "pop", "list", "create", "store", "missing", "forget"}

\* What is in a cache was so when it was put there and still is, since the name and
\* the parent of a folder never change.
Truth(tree, c) ==
  \A k \in DOMAIN c :
    c[k] \in 1 .. Len(tree) /\ tree[c[k]] = [name |-> k[2], parent |-> k[1]]

\* The local variables of a call: parent is where the names so far lead to.
Sound(tree, path, r) ==
  /\ r \in Walks
  /\ r.parent \in 0 .. Len(tree) /\ r.found \in 0 .. Len(tree)
  /\ r.ignored \subseteq 1 .. Len(tree)
  /\ Truth(tree, r.kept)
  /\ r.depth \in 0 .. Len(path)
  /\ Leads(tree, path, r.depth, r.parent)
  /\ r.pc \in Resolving \ {"missing", "forget"} => r.depth < Len(path)
  /\ r.pc = "use" => r.depth = Len(path)
  /\ r.pc = "missing" => r.parent > 0
  /\ r.pc = "store" => /\ r.found > 0
                       /\ tree[r.found] = [name |-> path[r.depth + 1], parent |-> r.parent]

FolderInv ==
  /\ folder \in Seq(Entry)
  /\ \A i \in 1 .. Len(folder) : folder[i].parent < i
  /\ alive \subseteq 1 .. Len(folder)
  /\ cache \in Caches /\ Truth(folder, cache)
  /\ walk \in [Workers -> Walks]
  /\ \A w \in Workers : Sound(folder, PathOf[w], walk[w])
  /\ place \in [Workers -> Nat]
  /\ \A w \in Workers : place[w] \in 0 .. Len(folder)
  /\ FiledInPath
  /\ spent \in [Kinds -> Nat]

-----------------------------------------------------------------------------
(* Chains of folders.                                                      *)

LEMMA NoNames ==
  ASSUME NEW tree, NEW path PROVE Leads(tree, path, 0, Root)
<1> DEFINE none == [d \in 1 .. 0 |-> 1]
<1>1. 1 .. 0 = {}
  OBVIOUS
<1>2. none \in [1 .. 0 -> 1 .. Len(tree)]
  BY <1>1
<1> QED
  BY <1>1, <1>2 DEF Leads, Link

LEMMA OneMore ==
  ASSUME NEW tree \in Seq(Entry), NEW path, NEW depth \in Nat, NEW parent \in Nat,
         NEW id \in 1 .. Len(tree),
         Leads(tree, path, depth, parent),
         tree[id] = [name |-> path[depth + 1], parent |-> parent]
  PROVE  Leads(tree, path, depth + 1, id)
<1>1. PICK chain \in [1 .. depth -> 1 .. Len(tree)] :
        /\ Link(chain, depth) = parent
        /\ \A d \in 1 .. depth :
             tree[chain[d]] = [name |-> path[d], parent |-> Link(chain, d - 1)]
  BY DEF Leads
<1> DEFINE longer == [d \in 1 .. depth + 1 |-> IF d = depth + 1 THEN id ELSE chain[d]]
<1>2. longer \in [1 .. depth + 1 -> 1 .. Len(tree)]
  OBVIOUS
<1>3. \A d \in 0 .. depth : Link(longer, d) = Link(chain, d)
  BY DEF Link
<1>4. Link(longer, depth + 1) = id
  BY DEF Link
<1>5. ASSUME NEW d \in 1 .. depth + 1
      PROVE  tree[longer[d]] = [name |-> path[d], parent |-> Link(longer, d - 1)]
  <2>1. CASE d = depth + 1
    <3>1. d - 1 = depth /\ longer[d] = id
      BY <2>1
    <3> QED
      BY <1>1, <1>3, <2>1, <3>1
  <2>2. CASE d # depth + 1
    <3>1. d \in 1 .. depth /\ d - 1 \in 0 .. depth /\ longer[d] = chain[d]
      BY <2>2
    <3> QED
      BY <1>1, <1>3, <3>1
  <2> QED
    BY <2>1, <2>2
<1> HIDE DEF longer
<1> QED
  BY <1>2, <1>4, <1>5 DEF Leads

\* A folder more on Drive leaves the others where they are.
Grown(tree, more) ==
  /\ Len(tree) \in Nat /\ Len(more) \in Nat /\ Len(tree) <= Len(more)
  /\ \A i \in 1 .. Len(tree) : more[i] = tree[i]

LEMMA AppendGrows ==
  ASSUME NEW tree \in Seq(Entry), NEW e \in Entry PROVE Grown(tree, Append(tree, e))
BY DEF Grown

LEMMA AppendFacts ==
  ASSUME NEW tree \in Seq(Entry), NEW e \in Entry
  PROVE  /\ Append(tree, e) \in Seq(Entry)
         /\ Len(tree) \in Nat /\ Len(Append(tree, e)) = Len(tree) + 1
         /\ Append(tree, e)[Len(tree) + 1] = e
         /\ \A i \in 1 .. Len(tree) : Append(tree, e)[i] = tree[i]
OBVIOUS

LEMMA StillLeads ==
  ASSUME NEW tree, NEW more, Grown(tree, more), NEW path, NEW depth \in Nat, NEW id,
         Leads(tree, path, depth, id)
  PROVE  Leads(more, path, depth, id)
<1>1. PICK chain \in [1 .. depth -> 1 .. Len(tree)] :
        /\ Link(chain, depth) = id
        /\ \A d \in 1 .. depth :
             tree[chain[d]] = [name |-> path[d], parent |-> Link(chain, d - 1)]
  BY DEF Leads
<1>2. chain \in [1 .. depth -> 1 .. Len(more)]
  BY DEF Grown
<1>3. \A d \in 1 .. depth : more[chain[d]] = tree[chain[d]]
  BY DEF Grown
<1> QED
  BY <1>1, <1>2, <1>3 DEF Leads

LEMMA StillTrue ==
  ASSUME NEW tree, NEW more, Grown(tree, more), NEW c, Truth(tree, c)
  PROVE  Truth(more, c)
<1> SUFFICES ASSUME NEW k \in DOMAIN c
             PROVE  /\ c[k] \in 1 .. Len(more)
                    /\ more[c[k]] = [name |-> k[2], parent |-> k[1]]
  BY DEF Truth
<1>1. c[k] \in 1 .. Len(tree) /\ tree[c[k]] = [name |-> k[2], parent |-> k[1]]
  BY DEF Truth
<1> QED
  BY <1>1 DEF Grown

LEMMA StillSound ==
  ASSUME NEW tree, NEW more, Grown(tree, more), NEW path, NEW r, Sound(tree, path, r)
  PROVE  Sound(more, path, r)
<1>1. r.depth \in Nat /\ r.parent \in Nat /\ r.found \in Nat /\ Len(tree) \in Nat
  BY DEF Sound, Walks, Grown
<1>2. Truth(more, r.kept)
  BY StillTrue DEF Sound
<1>3. Leads(more, path, r.depth, r.parent)
  BY <1>1, StillLeads DEF Sound
<1>4. r.found > 0 => more[r.found] = tree[r.found]
  BY <1>1 DEF Sound, Grown
<1> QED
  BY <1>1, <1>2, <1>3, <1>4 DEF Sound, Grown

LEMMA EmptyCache == Empty \in Caches /\ DOMAIN Empty = {}
<1>1. Empty \in [{} -> Nat] /\ DOMAIN Empty = {}
  BY DEF Empty
<1>2. {} \in SUBSET (Nat \X Names)
  OBVIOUS
<1> QED
  BY <1>1, <1>2 DEF Caches

LEMMA PathLength == \A w \in Workers : Len(PathOf[w]) \in Nat \ {0}
BY FolderAssumption

\* A call that has not gone down yet.
LEMMA AtTheTop ==
  ASSUME NEW tree, NEW path, Len(path) \in Nat, Len(tree) \in Nat, NEW r \in Walks,
         r.parent = Root, r.found = Root, r.depth = 0, r.kept = Empty,
         r.ignored \subseteq 1 .. Len(tree),
         r.pc \in {"idle", "filed", "check"}, r.pc = "check" => Len(path) > 0
  PROVE  Sound(tree, path, r)
<1>1. Truth(tree, Empty)
  BY EmptyCache DEF Truth
<1>2. Leads(tree, path, 0, Root) /\ Root = 0
  BY NoNames DEF Root
<1> QED
  BY <1>1, <1>2 DEF Sound, Resolving

LEMMA RestingWalk ==
  /\ Resting \in Walks /\ Resting.pc = "idle" /\ Resting.parent = Root
  /\ Resting.found = Root /\ Resting.depth = 0 /\ Resting.kept = Empty
  /\ Resting.ignored = {}
BY EmptyCache DEF Resting, Walks, Stages, Root

LEMMA RestingSound ==
  ASSUME NEW tree, NEW path, Len(path) \in Nat, Len(tree) \in Nat
  PROVE  Sound(tree, path, Resting)
BY AtTheTop, RestingWalk

LEMMA FiledSound ==
  ASSUME NEW tree, NEW path, Len(path) \in Nat, Len(tree) \in Nat
  PROVE  Sound(tree, path, [Resting EXCEPT !.pc = "filed"])
<1> DEFINE r == [Resting EXCEPT !.pc = "filed"]
<1>1. r \in Walks
  BY RestingWalk DEF Walks, Stages
<1>2. /\ r.pc = "filed" /\ r.parent = Root /\ r.found = Root /\ r.depth = 0
      /\ r.kept = Empty /\ r.ignored = {}
  BY RestingWalk DEF Walks
<1> HIDE DEF r
<1>3. /\ r.ignored \subseteq 1 .. Len(tree)
      /\ r.pc \in {"idle", "filed", "check"}
      /\ r.pc = "check" => Len(path) > 0
  BY <1>2
<1>4. Sound(tree, path, r)
  BY <1>1, <1>2, <1>3, AtTheTop, Zenon
<1> QED
  BY <1>4 DEF r

LEMMA CheckSound ==
  ASSUME NEW tree, NEW path, Len(path) \in Nat \ {0}, Len(tree) \in Nat,
         NEW n \in Nat, NEW gone \in SUBSET (1 .. Len(tree))
  PROVE  Sound(tree, path, [Resting EXCEPT !.pc = "check", !.attempt = n, !.ignored = gone])
<1> DEFINE r == [Resting EXCEPT !.pc = "check", !.attempt = n, !.ignored = gone]
<1>1. gone \in SUBSET Nat
  OBVIOUS
<1>2. r \in Walks
  BY <1>1, RestingWalk DEF Walks, Stages
<1>3. /\ r.pc = "check" /\ r.parent = Root /\ r.found = Root /\ r.depth = 0
      /\ r.kept = Empty /\ r.ignored = gone
  BY RestingWalk DEF Walks
<1> HIDE DEF r
<1>4. /\ Len(path) \in Nat
      /\ r.ignored \subseteq 1 .. Len(tree)
      /\ r.pc \in {"idle", "filed", "check"}
      /\ r.pc = "check" => Len(path) > 0
  BY <1>3
<1>5. Sound(tree, path, r)
  BY <1>2, <1>3, <1>4, AtTheTop, Zenon
<1> QED
  BY <1>5 DEF r

-----------------------------------------------------------------------------
(* One step.                                                               *)

LEMMA InitFolders == Init => FolderInv
<1> SUFFICES ASSUME Init PROVE FolderInv
  OBVIOUS
<1>1. folder = <<>> /\ folder \in Seq(Entry) /\ Len(folder) = 0
  BY DEF Init
<1>2. Empty \in Caches /\ Truth(folder, Empty)
  BY EmptyCache DEF Truth
<1>3. \A w \in Workers : Sound(folder, PathOf[w], Resting)
  BY <1>1, RestingSound, PathLength
<1>4. walk = [w \in Workers |-> Resting] /\ (\A w \in Workers : Resting \in Walks)
  BY <1>3 DEF Init, Sound
<1>5. \A w \in Workers : ~At(w, "filed")
  BY DEF Init, At, Resting
<1> QED
  BY <1>1, <1>2, <1>3, <1>4, <1>5
  DEF Init, FolderInv, FiledInPath, Root

LEMMA FolderFacts ==
  ASSUME FolderInv
  PROVE  /\ folder \in Seq(Entry) /\ Len(folder) \in Nat /\ alive \subseteq 1 .. Len(folder)
         /\ \A i \in 1 .. Len(folder) : folder[i].parent < i
         /\ cache \in Caches /\ Truth(folder, cache) /\ spent \in [Kinds -> Nat]
         /\ place \in [Workers -> Nat]
BY DEF FolderInv

LEMMA WalkFacts ==
  ASSUME FolderInv, NEW w \in Workers
  PROVE  /\ Sound(folder, PathOf[w], walk[w]) /\ walk[w] \in Walks
         /\ folder \in Seq(Entry) /\ Len(folder) \in Nat
         /\ Len(PathOf[w]) \in Nat /\ Len(PathOf[w]) > 0
BY PathLength DEF FolderInv

\* A step that gives one worker new local variables and leaves Drive alone.
LEMMA OneWorker ==
  ASSUME FolderInv, NEW w \in Workers, NEW r, Become(w, r), Sound(folder, PathOf[w], r),
         UNCHANGED folder, alive' \subseteq alive,
         cache' \in Caches, Truth(folder, cache'), spent' \in [Kinds -> Nat],
         \/ UNCHANGED place /\ r.pc # "filed"
         \/ \E id \in 0 .. Len(folder) :
              /\ place' = [place EXCEPT ![w] = id]
              /\ Leads(folder, PathOf[w], Len(PathOf[w]), id)
  PROVE  FolderInv'
<1>1. /\ walk' \in [Workers -> Walks] /\ walk'[w] = r
      /\ \A u \in Workers : u # w => walk'[u] = walk[u]
  BY DEF FolderInv, Become, Sound
<1>2. \A u \in Workers : Sound(folder, PathOf[u], walk'[u])
  BY <1>1 DEF FolderInv
<1>3. /\ folder \in Seq(Entry) /\ Len(folder) \in Nat /\ place \in [Workers -> Nat]
      /\ \A u \in Workers : place[u] \in 0 .. Len(folder)
      /\ \A u \in Workers :
           walk[u].pc = "filed" => Leads(folder, PathOf[u], Len(PathOf[u]), place[u])
  BY DEF FolderInv, FiledInPath, At
<1>4. /\ place' \in [Workers -> Nat]
      /\ \A u \in Workers : place'[u] \in 0 .. Len(folder)
      /\ \A u \in Workers :
           walk'[u].pc = "filed" => Leads(folder, PathOf[u], Len(PathOf[u]), place'[u])
  <2>1. CASE UNCHANGED place /\ r.pc # "filed"
    BY <1>1, <1>3, <2>1
  <2>2. CASE \E id \in 0 .. Len(folder) :
               /\ place' = [place EXCEPT ![w] = id]
               /\ Leads(folder, PathOf[w], Len(PathOf[w]), id)
    <3>1. PICK id \in 0 .. Len(folder) :
            /\ place' = [place EXCEPT ![w] = id]
            /\ Leads(folder, PathOf[w], Len(PathOf[w]), id)
      BY <2>2
    <3>2. id \in Nat /\ place'[w] = id /\ (\A u \in Workers : u # w => place'[u] = place[u])
          /\ place' \in [Workers -> Nat]
      BY <1>3, <3>1
    <3> QED
      BY <1>1, <1>3, <3>1, <3>2
  <2> QED
    BY <2>1, <2>2
<1>5. /\ folder' = folder /\ folder' \in Seq(Entry)
      /\ \A i \in 1 .. Len(folder') : folder'[i].parent < i
      /\ alive' \subseteq 1 .. Len(folder')
  BY DEF FolderInv
<1>6. FiledInPath'
  BY <1>4, <1>5 DEF FiledInPath, At
<1> QED
  BY <1>1, <1>2, <1>4, <1>5, <1>6 DEF FolderInv

LEMMA DescendSound ==
  ASSUME FolderInv, NEW w \in Workers, walk[w].pc \in {"read", "store"},
         NEW id \in 1 .. Len(folder),
         folder[id] = [name |-> NextName(w), parent |-> walk[w].parent]
  PROVE  LET depth == walk[w].depth + 1
         IN  Sound(folder, PathOf[w],
                   [walk[w] EXCEPT !.parent = id, !.depth = depth, !.found = Root,
                                   !.pc = IF depth = Len(PathOf[w]) THEN "use" ELSE "check"])
<1> DEFINE depth == walk[w].depth + 1
           stage == IF depth = Len(PathOf[w]) THEN "use" ELSE "check"
           r == [walk[w] EXCEPT !.parent = id, !.depth = depth, !.found = Root, !.pc = stage]
<1>1. /\ Sound(folder, PathOf[w], walk[w]) /\ walk[w] \in Walks /\ folder \in Seq(Entry)
      /\ walk[w].depth \in Nat /\ walk[w].depth < Len(PathOf[w]) /\ walk[w].parent \in Nat
  BY DEF FolderInv, Sound, Resolving, Walks
<1>2. Len(PathOf[w]) \in Nat /\ Len(folder) \in Nat
  BY <1>1, FolderAssumption
<1>3. Leads(folder, PathOf[w], depth, id)
  BY <1>1, OneMore DEF NextName, Sound
<1>4. stage \in Stages /\ depth \in Nat /\ id \in Nat /\ Root \in Nat /\ Root = 0
  BY <1>1, <1>2 DEF Stages, Root
<1>5. \/ depth = Len(PathOf[w]) /\ stage = "use"
      \/ depth < Len(PathOf[w]) /\ stage = "check"
  BY <1>1, <1>2
<1> HIDE DEF depth, stage
<1>6. r \in Walks
  BY <1>1, <1>4 DEF Walks
<1>7. /\ r.parent = id /\ r.depth = depth /\ r.found = 0 /\ r.ignored = walk[w].ignored
      /\ r.kept = walk[w].kept /\ r.pc = stage
  BY <1>1, <1>4 DEF Walks
<1> HIDE DEF r
<1>8. Sound(folder, PathOf[w], r)
  BY <1>1, <1>2, <1>3, <1>4, <1>5, <1>6, <1>7 DEF Sound, Resolving
<1> QED
  BY <1>8 DEF r, stage, depth

LEMMA DescendKeeps ==
  ASSUME FolderInv, NEW w \in Workers, walk[w].pc \in {"read", "store"},
         NEW id \in 1 .. Len(folder),
         folder[id] = [name |-> NextName(w), parent |-> walk[w].parent],
         Descend(w, id), UNCHANGED <<folder, alive, place, spent>>,
         cache' \in Caches, Truth(folder, cache')
  PROVE  FolderInv'
<1> DEFINE depth == walk[w].depth + 1
           r == [walk[w] EXCEPT !.parent = id, !.depth = depth, !.found = Root,
                                !.pc = IF depth = Len(PathOf[w]) THEN "use" ELSE "check"]
<1>1. Sound(folder, PathOf[w], r)
  BY DescendSound
<1>2. Become(w, r)
  BY DEF Descend
<1>3. walk[w] \in Walks
  BY WalkFacts
<1>4. r.pc # "filed"
  BY <1>3 DEF Walks
<1>5. spent' \in [Kinds -> Nat]
  BY DEF FolderInv
<1> HIDE DEF r
<1> QED
  BY <1>1, <1>2, <1>4, <1>5, OneWorker

\* files().list or files().create has answered with a folder.
LEMMA FoundSound ==
  ASSUME NEW tree, NEW path, NEW r, Sound(tree, path, r), r.pc \in {"list", "create"},
         NEW id \in 1 .. Len(tree), Len(tree) \in Nat,
         tree[id] = [name |-> path[r.depth + 1], parent |-> r.parent]
  PROVE  Sound(tree, path, [r EXCEPT !.pc = "store", !.found = id])
<1> DEFINE next == [r EXCEPT !.pc = "store", !.found = id]
<1>1. r \in Walks
  BY DEF Sound
<1>2. id \in Nat /\ "store" \in Stages
  BY DEF Stages
<1>3. next \in Walks
  BY <1>1, <1>2 DEF Walks
<1>4. /\ next.pc = "store" /\ next.found = id
      /\ next.parent = r.parent /\ next.depth = r.depth /\ next.ignored = r.ignored
      /\ next.kept = r.kept
  BY <1>1 DEF Walks
<1> HIDE DEF next
<1>5. Sound(tree, path, next)
  BY <1>2, <1>3, <1>4 DEF Sound, Resolving
<1> QED
  BY <1>5 DEF next

LEMMA FoundStage ==
  ASSUME FolderInv, NEW w \in Workers, NEW id
  PROVE  [walk[w] EXCEPT !.pc = "store", !.found = id].pc # "filed"
BY WalkFacts DEF Walks

\* The exception, and a step to the next line.
LEMMA FailKeeps ==
  ASSUME FolderInv, NEW w \in Workers, Fail(w), UNCHANGED <<folder, place>>,
         alive' \subseteq alive, cache' \in Caches, Truth(folder, cache'),
         spent' \in [Kinds -> Nat]
  PROVE  FolderInv'
<1>1. Sound(folder, PathOf[w], Resting) /\ Resting.pc # "filed"
  BY RestingSound, WalkFacts DEF Resting
<1> QED
  BY <1>1, OneWorker DEF Fail

LEMMA GotoKeeps ==
  ASSUME FolderInv, NEW w \in Workers, NEW stage \in {"read", "pop", "list", "create", "missing"},
         Goto(w, stage), walk[w].pc \in Resolving \ {"missing", "forget"},
         stage = "missing" => walk[w].parent > 0,
         UNCHANGED <<folder, alive, place>>,
         cache' \in Caches, Truth(folder, cache'), spent' \in [Kinds -> Nat]
  PROVE  FolderInv'
<1> DEFINE r == [walk[w] EXCEPT !.pc = stage]
<1>1. Sound(folder, PathOf[w], walk[w]) /\ walk[w] \in Walks
  BY DEF FolderInv, Sound
<1>2. r \in Walks /\ r.pc = stage /\ r.parent = walk[w].parent /\ r.depth = walk[w].depth
      /\ r.found = walk[w].found /\ r.ignored = walk[w].ignored /\ r.kept = walk[w].kept
  BY <1>1 DEF Walks, Resolving, Stages
<1> HIDE DEF r
<1>3. Sound(folder, PathOf[w], r) /\ r.pc # "filed"
  BY <1>1, <1>2 DEF Sound, Resolving
<1>4. Become(w, r)
  BY DEF Goto, r
<1> QED
  BY <1>3, <1>4, OneWorker

LEMMA SpendType ==
  ASSUME FolderInv, NEW k \in Kinds, Spend(k)
  PROVE  spent' \in [Kinds -> Nat]
BY DEF FolderInv, Spend

LEMMA RestrictTrue ==
  ASSUME NEW tree, NEW c \in Caches, Truth(tree, c), NEW keys \in SUBSET DOMAIN c
  PROVE  Restrict(c, keys) \in Caches /\ Truth(tree, Restrict(c, keys))
BY DEF Restrict, Caches, Truth

LEMMA NextAttemptKeeps ==
  ASSUME FolderInv, NEW w \in Workers, NextAttempt(w, walk[w].ignored),
         UNCHANGED <<folder, alive, place, spent>>,
         cache' \in Caches, Truth(folder, cache')
  PROVE  FolderInv'
<1>1. spent' \in [Kinds -> Nat]
  BY DEF FolderInv
<1>2. CASE Fail(w)
  BY <1>1, <1>2, FailKeeps
<1>3. CASE ~Fail(w)
  <2> DEFINE r == [Resting EXCEPT !.pc = "check", !.attempt = walk[w].attempt + 1,
                                  !.ignored = walk[w].ignored]
  <2>1. Become(w, r)
    BY <1>3 DEF NextAttempt
  <2>2. walk[w].attempt + 1 \in Nat /\ walk[w].ignored \in SUBSET (1 .. Len(folder))
    <3>1. Sound(folder, PathOf[w], walk[w]) /\ walk[w] \in Walks
      BY WalkFacts
    <3>2. walk[w].attempt \in Nat
      BY <3>1 DEF Walks
    <3> QED
      BY <3>1, <3>2 DEF Sound
  <2>3. Sound(folder, PathOf[w], r)
    <3>1. Len(PathOf[w]) \in Nat \ {0} /\ Len(folder) \in Nat
      BY WalkFacts
    <3> QED
      BY <2>2, <3>1, CheckSound
  <2>4. r.pc = "check"
    BY RestingWalk DEF Walks
  <2> HIDE DEF r
  <2> QED
    BY <1>1, <2>1, <2>3, <2>4, OneWorker
<1> QED
  BY <1>2, <1>3

\* files().create has made a folder, whether or not its answer arrives.
LEMMA NewKeeps ==
  ASSUME FolderInv, NEW w \in Workers, NEW e \in Entry, e.parent \in 0 .. Len(folder),
         folder' = Append(folder, e), alive' = alive \cup {Len(folder) + 1},
         UNCHANGED <<cache, place>>, spent' \in [Kinds -> Nat],
         NEW r, Become(w, r), Sound(folder', PathOf[w], r), r.pc # "filed"
  PROVE  FolderInv'
<1>i. /\ folder \in Seq(Entry) /\ Len(folder) \in Nat /\ alive \subseteq 1 .. Len(folder)
      /\ \A i \in 1 .. Len(folder) : folder[i].parent < i
      /\ cache \in Caches /\ Truth(folder, cache) /\ walk \in [Workers -> Walks]
      /\ \A u \in Workers : Sound(folder, PathOf[u], walk[u])
      /\ place \in [Workers -> Nat] /\ (\A u \in Workers : place[u] \in 0 .. Len(folder))
  BY DEF FolderInv
<1>g. Grown(folder, folder')
  BY <1>i, AppendGrows
<1>1. /\ folder' \in Seq(Entry) /\ Len(folder') = Len(folder) + 1
      /\ folder'[Len(folder) + 1] = e
      /\ \A i \in 1 .. Len(folder) : folder'[i] = folder[i]
  BY <1>i, AppendFacts
<1>2. alive' \subseteq 1 .. Len(folder')
  <2> SUFFICES ASSUME NEW i \in alive' PROVE i \in 1 .. Len(folder')
    OBVIOUS
  <2>1. i \in 1 .. Len(folder) \/ i = Len(folder) + 1
    BY <1>i
  <2> QED
    BY <1>1, <1>i, <2>1
<1>3. \A i \in 1 .. Len(folder') : folder'[i].parent < i
  <2> SUFFICES ASSUME NEW i \in 1 .. Len(folder') PROVE folder'[i].parent < i
    OBVIOUS
  <2>1. CASE i \in 1 .. Len(folder)
    BY <1>1, <1>i, <2>1
  <2>2. CASE i = Len(folder) + 1
    BY <1>1, <1>i, <2>2
  <2> QED
    BY <1>1, <1>i, <2>1, <2>2
<1>4. Truth(folder', cache')
  BY <1>g, <1>i, StillTrue
<1>5. /\ walk' \in [Workers -> Walks] /\ walk'[w] = r
      /\ \A u \in Workers : u # w => walk'[u] = walk[u]
  BY <1>i DEF Become, Sound
<1>6. \A u \in Workers : Sound(folder', PathOf[u], walk'[u])
  BY <1>5, <1>g, <1>i, StillSound
<1>7. \A u \in Workers : place'[u] \in 0 .. Len(folder')
  BY <1>1, <1>i
<1>8. ASSUME NEW u \in Workers, walk'[u].pc = "filed"
      PROVE  Leads(folder', PathOf[u], Len(PathOf[u]), place'[u])
  <2>1. u # w /\ walk[u].pc = "filed"
    BY <1>5, <1>8
  <2>2. Leads(folder, PathOf[u], Len(PathOf[u]), place[u])
    BY <2>1 DEF FolderInv, FiledInPath, At
  <2> QED
    BY <1>g, <2>2, StillLeads, PathLength
<1>9. FiledInPath'
  BY <1>8 DEF FiledInPath, At
<1> QED
  BY <1>1, <1>2, <1>3, <1>4, <1>5, <1>6, <1>7, <1>9, <1>i DEF FolderInv

-----------------------------------------------------------------------------
(* Every action.                                                           *)

LEMMA StepFolders ==
  ASSUME FolderInv, [Next]_vars
  PROVE  FolderInv'
<1>i. /\ folder \in Seq(Entry) /\ Len(folder) \in Nat /\ alive \subseteq 1 .. Len(folder)
      /\ \A i \in 1 .. Len(folder) : folder[i].parent < i
      /\ cache \in Caches /\ Truth(folder, cache) /\ spent \in [Kinds -> Nat]
      /\ place \in [Workers -> Nat]
  BY FolderFacts
<1>k. {"fault", "removal"} \subseteq Kinds
  BY DEF Kinds
<1>d. ASSUME NEW keys \in SUBSET DOMAIN cache
      PROVE  Restrict(cache, keys) \in Caches /\ Truth(folder, Restrict(cache, keys))
  BY <1>i, RestrictTrue
<1>1. ASSUME NEW w \in Workers, Begin(w) PROVE FolderInv'
  <2> DEFINE r == [Resting EXCEPT !.pc = "check", !.attempt = 1]
  <2>1. r \in Walks
    BY RestingWalk DEF Walks, Stages
  <2>2. /\ r.pc = "check" /\ r.parent = Root /\ r.found = Root /\ r.depth = 0
        /\ r.kept = Empty /\ r.ignored = {}
    BY RestingWalk DEF Walks
  <2>4. Become(w, r) /\ UNCHANGED <<Drive, cache, place, spent>>
    BY <1>1 DEF Begin
  <2> HIDE DEF r
  <2>3. Sound(folder, PathOf[w], r)
    BY <2>1, <2>2, AtTheTop, WalkFacts
  <2> QED
    BY <1>i, <2>2, <2>3, <2>4, OneWorker DEF Drive
<1>2. ASSUME NEW w \in Workers, Check(w) PROVE FolderInv'
  <2>1. PICK stage \in {"read", "list"} : Goto(w, stage)
    BY <1>2 DEF Check
  <2> QED
    BY <1>2, <1>i, <2>1, GotoKeeps DEF Check, At, Drive, Resolving
<1>3. ASSUME NEW w \in Workers, Read(w) PROVE FolderInv'
  <2>1. At(w, "read") /\ UNCHANGED <<Drive, cache, place, spent>>
    BY <1>3 DEF Read
  <2>2. CASE Fail(w)
    BY <1>i, <2>1, <2>2, FailKeeps DEF Drive
  <2>3. CASE Goto(w, "pop")
    BY <1>i, <2>1, <2>3, GotoKeeps DEF Drive, At, Resolving
  <2>4. CASE Key(w) \in DOMAIN cache /\ Descend(w, cache[Key(w)])
    <3> DEFINE id == cache[Key(w)]
    <3>1. id \in 1 .. Len(folder)
          /\ folder[id] = [name |-> NextName(w), parent |-> walk[w].parent]
      BY <1>i, <2>4 DEF Truth, Key
    <3> HIDE DEF id
    <3>2. Descend(w, id)
      BY <2>4 DEF id
    <3> QED
      BY <1>i, <2>1, <2>4, <3>1, <3>2, DescendKeeps DEF Drive, At
  <2> QED
    BY <1>3, <2>2, <2>3, <2>4 DEF Read
<1>13. ASSUME NEW w \in Workers, Pop(w) PROVE FolderInv'
  <2>1. /\ At(w, "pop") /\ Goto(w, "list") /\ UNCHANGED <<Drive, place, spent>>
        /\ cache' = Restrict(cache, DOMAIN cache \ {Key(w)})
    BY <1>13 DEF Pop
  <2>2. cache' \in Caches /\ Truth(folder, cache')
    BY <1>d, <2>1
  <2> QED
    BY <1>i, <2>1, <2>2, GotoKeeps DEF Drive, At, Resolving
<1>4. ASSUME NEW w \in Workers, List(w) PROVE FolderInv'
  <2>1. At(w, "list") /\ UNCHANGED <<Drive, cache, place>>
    BY <1>4 DEF List
  <2>2. CASE UNCHANGED spent /\ ~Reachable(walk[w].parent) /\ Goto(w, "missing")
    <3>1. walk[w].parent > 0
      BY <2>2, WalkFacts DEF Reachable, Root, Walks
    <3> QED
      BY <1>i, <2>1, <2>2, <3>1, GotoKeeps DEF Drive, At, Resolving
  <2>5. CASE UNCHANGED spent /\ Goto(w, "create")
    BY <1>i, <2>1, <2>5, GotoKeeps DEF Drive, At, Resolving
  <2>3. CASE UNCHANGED spent /\ (\E id \in Candidates(w) :
               Become(w, [walk[w] EXCEPT !.pc = "store", !.found = id]))
    <3>1. PICK id \in Candidates(w) :
            Become(w, [walk[w] EXCEPT !.pc = "store", !.found = id])
      BY <2>3
    <3>2. id \in 1 .. Len(folder)
          /\ folder[id] = [name |-> NextName(w), parent |-> walk[w].parent]
      BY <1>i, <3>1 DEF Candidates
    <3>3. Sound(folder, PathOf[w], [walk[w] EXCEPT !.pc = "store", !.found = id])
      BY <2>1, <3>2, FoundSound, WalkFacts DEF At, NextName
    <3> QED
      BY <1>i, <2>1, <2>3, <3>1, <3>3, FoundStage, OneWorker DEF Drive
  <2>4. CASE Spend("fault") /\ Fail(w)
    BY <1>i, <1>k, <2>1, <2>4, SpendType, FailKeeps DEF Drive
  <2> QED
    BY <1>4, <2>2, <2>3, <2>4, <2>5 DEF List
<1>5. ASSUME NEW w \in Workers, Create(w) PROVE FolderInv'
  <2> DEFINE e == [name |-> NextName(w), parent |-> walk[w].parent]
             New == /\ folder' = Append(folder, e)
                    /\ alive' = alive \cup {Len(folder) + 1}
  <2>1. At(w, "create") /\ UNCHANGED <<cache, place>>
    BY <1>5 DEF Create
  <2>2. /\ Sound(folder, PathOf[w], walk[w]) /\ walk[w].depth < Len(PathOf[w])
        /\ walk[w].depth \in Nat /\ walk[w].parent \in Nat
        /\ walk[w].parent \in 0 .. Len(folder)
    BY <2>1, WalkFacts DEF At, Sound, Walks, Resolving
  <2>3. NextName(w) \in Names
    <3>1. walk[w].depth + 1 \in 1 .. Len(PathOf[w]) /\ PathOf[w] \in Seq(Names)
      BY <2>2, WalkFacts, FolderAssumption
    <3> QED
      BY <3>1 DEF NextName
  <2>4. e \in Entry /\ e.parent \in 0 .. Len(folder)
    BY <2>2, <2>3 DEF Entry
  <2>5. CASE UNCHANGED <<Drive, spent>> /\ ~Reachable(walk[w].parent) /\ Goto(w, "missing")
    <3>1. walk[w].parent > 0
      BY <2>5, WalkFacts DEF Reachable, Root, Walks
    <3> QED
      BY <1>i, <2>1, <2>5, <3>1, GotoKeeps DEF Drive, At, Resolving
  <2>6. CASE Spend("fault") /\ Fail(w) /\ UNCHANGED Drive
    BY <1>i, <1>k, <2>1, <2>6, SpendType, FailKeeps DEF Drive
  <2>7. CASE /\ New /\ UNCHANGED spent
             /\ Become(w, [walk[w] EXCEPT !.pc = "store", !.found = Len(folder) + 1])
    <3>1. Grown(folder, folder') /\ Len(folder') = Len(folder) + 1
          /\ folder'[Len(folder) + 1] = e
      BY <1>i, <2>4, <2>7, AppendGrows
    <3>2. Sound(folder', PathOf[w], walk[w])
      BY <2>2, <3>1, StillSound
    <3>4. Len(folder') \in Nat /\ Len(folder) + 1 \in 1 .. Len(folder')
      BY <1>i, <3>1
    <3>3. Sound(folder', PathOf[w],
                [walk[w] EXCEPT !.pc = "store", !.found = Len(folder) + 1])
      BY <2>1, <3>1, <3>2, <3>4, FoundSound DEF At, NextName
    <3> HIDE DEF e
    <3> QED
      BY <1>i, <2>1, <2>4, <2>7, <3>3, FoundStage, NewKeeps
  <2>8. CASE New /\ Spend("fault") /\ Fail(w)
    <3>1. Grown(folder, folder') /\ Len(folder') \in Nat
      BY <1>i, <2>4, <2>8, AppendGrows DEF Grown
    <3>2. Sound(folder', PathOf[w], Resting) /\ Resting.pc # "filed"
      BY <3>1, RestingSound, PathLength DEF Resting
    <3>3. spent' \in [Kinds -> Nat]
      BY <1>k, <2>8, SpendType
    <3> HIDE DEF e
    <3> QED
      BY <2>1, <2>4, <2>8, <3>2, <3>3, NewKeeps DEF Fail
  <2> QED
    BY <1>5, <2>5, <2>6, <2>7, <2>8 DEF Create
<1>6. ASSUME NEW w \in Workers, Store(w) PROVE FolderInv'
  <2> DEFINE id == walk[w].found
  <2>1. /\ At(w, "store") /\ Descend(w, id) /\ UNCHANGED <<Drive, place, spent>>
        /\ cache' = [k \in DOMAIN cache \cup {Key(w)} |-> IF k = Key(w) THEN id ELSE cache[k]]
    BY <1>6 DEF Store
  <2>2. id \in 1 .. Len(folder)
        /\ folder[id] = [name |-> NextName(w), parent |-> walk[w].parent]
    BY <2>1, <1>i, WalkFacts DEF Sound, Walks, At, NextName
  <2>3. Key(w) \in Nat \X Names /\ Key(w)[1] = walk[w].parent /\ Key(w)[2] = NextName(w)
    <3>1. folder[id] \in Entry
      BY <1>i, <2>2
    <3>2. NextName(w) \in Names /\ walk[w].parent \in Nat
      BY <2>2, <3>1 DEF Entry
    <3> QED
      BY <3>2 DEF Key
  <2> HIDE DEF id
  <2>4. cache' \in Caches /\ Truth(folder, cache')
    <3> DEFINE key == Key(w)
    <3>1. /\ key \in Nat \X Names /\ folder[id] = [name |-> key[2], parent |-> key[1]]
          /\ cache' = [k \in DOMAIN cache \cup {key} |-> IF k = key THEN id ELSE cache[k]]
      BY <2>1, <2>2, <2>3
    <3>2. /\ cache \in Caches /\ Truth(folder, cache) /\ Len(folder) \in Nat
          /\ id \in 1 .. Len(folder)
      BY <1>i, <2>2
    <3> HIDE DEF key
    <3>3. PICK keys \in SUBSET (Nat \X Names) : cache \in [keys -> Nat]
      BY <3>2 DEF Caches
    <3>4. cache' \in [keys \cup {key} -> Nat] /\ keys \cup {key} \in SUBSET (Nat \X Names)
      BY <3>1, <3>2, <3>3
    <3>5. cache' \in Caches
      BY <3>4 DEF Caches
    <3>6. Truth(folder, cache')
      BY <3>1, <3>2 DEF Truth
    <3> QED
      BY <3>5, <3>6
  <2> QED
    BY <2>1, <2>2, <2>4, DescendKeeps DEF Drive, At
<1>7. ASSUME NEW w \in Workers, Missing(w) PROVE FolderInv'
  <2> DEFINE id == walk[w].parent
             kept == Restrict(cache, Unrelated(id))
             r == [walk[w] EXCEPT !.pc = "forget", !.ignored = @ \cup {id}, !.kept = kept]
  <2>1. At(w, "missing") /\ Become(w, r) /\ UNCHANGED <<Drive, cache, place, spent>>
    BY <1>7 DEF Missing
  <2>2. kept \in Caches /\ Truth(folder, kept)
    <3>1. Unrelated(id) \in SUBSET DOMAIN cache
      BY DEF Unrelated
    <3> QED
      BY <1>d, <3>1
  <2>3. /\ Sound(folder, PathOf[w], walk[w]) /\ walk[w] \in Walks
        /\ id \in 1 .. Len(folder) /\ id \in Nat
    <3>1. Sound(folder, PathOf[w], walk[w]) /\ walk[w] \in Walks
      BY WalkFacts
    <3>2. id \in 0 .. Len(folder) /\ id > 0
      BY <2>1, <3>1 DEF Sound, At
    <3> QED
      BY <1>i, <3>1, <3>2
  <2> HIDE DEF kept
  <2>4. /\ r \in Walks /\ r.pc = "forget" /\ r.parent = id /\ r.depth = walk[w].depth
        /\ r.found = walk[w].found /\ r.ignored = walk[w].ignored \cup {id} /\ r.kept = kept
    BY <2>2, <2>3 DEF Walks, Stages
  <2> HIDE DEF r
  <2>5. Sound(folder, PathOf[w], r)
    BY <2>2, <2>3, <2>4 DEF Sound, Resolving
  <2> QED
    BY <1>i, <2>1, <2>4, <2>5, OneWorker DEF Drive
<1>8. ASSUME NEW w \in Workers, Forget(w) PROVE FolderInv'
  <2>1. cache' \in Caches /\ Truth(folder, cache')
    BY <1>8, WalkFacts DEF Forget, Sound, Walks
  <2> QED
    BY <1>8, <2>1, NextAttemptKeeps DEF Forget, Drive
<1>9. ASSUME NEW w \in Workers, Use(w) PROVE FolderInv'
  <2>1. At(w, "use") /\ UNCHANGED <<Drive, cache>>
    BY <1>9 DEF Use
  <2>2. CASE /\ place' = [place EXCEPT ![w] = walk[w].parent]
             /\ Become(w, [Resting EXCEPT !.pc = "filed"]) /\ UNCHANGED spent
    <3>1. walk[w].parent \in 0 .. Len(folder)
          /\ Leads(folder, PathOf[w], Len(PathOf[w]), walk[w].parent)
      BY <2>1, WalkFacts DEF Sound, At
    <3>2. Sound(folder, PathOf[w], [Resting EXCEPT !.pc = "filed"])
      BY FiledSound, WalkFacts
    <3> QED
      BY <1>i, <2>1, <2>2, <3>1, <3>2, OneWorker DEF Drive
  <2>3. CASE Fail(w) /\ UNCHANGED <<place, spent>>
    BY <1>i, <2>1, <2>3, FailKeeps DEF Drive
  <2>4. CASE Spend("fault") /\ Fail(w) /\ UNCHANGED place
    BY <1>i, <1>k, <2>1, <2>4, SpendType, FailKeeps DEF Drive
  <2> QED
    BY <1>9, <2>2, <2>3, <2>4 DEF Use
<1>10. ASSUME NEW id \in Ids, Remove(id) PROVE FolderInv'
  <2>1. /\ UNCHANGED <<folder, cache, walk, place>> /\ alive' \subseteq alive
        /\ spent' \in [Kinds -> Nat]
    BY <1>10, <1>k, SpendType DEF Remove
  <2> QED
    BY <2>1 DEF FolderInv, FiledInPath, At
<1>11. CASE Restart
  <2>1. /\ UNCHANGED <<folder, alive, place>> /\ cache' = Empty /\ spent' \in [Kinds -> Nat]
        /\ walk' = [w \in Workers |-> IF At(w, "filed") THEN walk[w] ELSE Resting]
    BY <1>11, <1>k, SpendType DEF Restart, Drive
  <2>2. cache' \in Caches /\ Truth(folder, cache')
    BY <2>1, EmptyCache DEF Truth
  <2>3. \A w \in Workers : Sound(folder, PathOf[w], Resting) /\ Resting.pc # "filed"
    BY <1>i, RestingSound, PathLength DEF Resting
  <2>4. \A w \in Workers : walk'[w] = walk[w] \/ walk'[w] = Resting
    BY <2>1
  <2>5. \A w \in Workers : Sound(folder, PathOf[w], walk'[w])
    BY <2>3, <2>4, WalkFacts
  <2>6. walk' \in [Workers -> Walks]
    BY <2>1, <2>3, WalkFacts DEF Sound
  <2>7. FiledInPath'
    BY <2>1, <2>3, <2>4 DEF FolderInv, FiledInPath, At
  <2> QED
    BY <2>1, <2>2, <2>5, <2>6, <2>7 DEF FolderInv
<1>12. CASE UNCHANGED vars
  BY <1>12 DEF vars, FolderInv, FiledInPath, At
<1> QED
  BY <1>1, <1>2, <1>3, <1>4, <1>5, <1>6, <1>7, <1>8, <1>9, <1>10, <1>11, <1>12, <1>13
  DEF Next, WorkerStep

-----------------------------------------------------------------------------
(* What follows.                                                           *)

LEMMA CacheTyped ==
  ASSUME FolderInv, NEW c \in Caches, Truth(folder, c)
  PROVE  CacheOK(c)
<1>1. folder \in Seq(Entry) /\ Len(folder) \in Nat
      /\ \A i \in 1 .. Len(folder) : folder[i].parent < i
  BY DEF FolderInv
<1>2. ASSUME NEW k \in DOMAIN c PROVE k \in Keys /\ c[k] \in Ids
  <2>1. k \in Nat \X Names
    <3>1. PICK keys \in SUBSET (Nat \X Names) : c \in [keys -> Nat]
      BY DEF Caches
    <3>2. k \in keys
      BY <1>2, <3>1
    <3> QED
      BY <3>2
  <2>2. c[k] \in Ids /\ folder[c[k]].parent = k[1]
    <3>1. c[k] \in 1 .. Len(folder) /\ folder[c[k]] = [name |-> k[2], parent |-> k[1]]
      BY <1>2, Zenon DEF Truth
    <3> QED
      BY <3>1 DEF Ids
  <2>3. k[1] < Len(folder)
    BY <1>1, <2>1, <2>2 DEF Ids
  <2>4. k[1] \in Ids \cup {Root} /\ k[2] \in Names /\ k = <<k[1], k[2]>>
    BY <1>1, <2>1, <2>3 DEF Ids, Root
  <2> QED
    BY <2>2, <2>4 DEF Keys
<1> QED
  BY <1>2 DEF CacheOK, Range

LEMMA FolderTypes == FolderInv => TypeOK
<1> SUFFICES ASSUME FolderInv PROVE TypeOK
  OBVIOUS
<1>1. \A i \in Ids : folder[i].name \in Names /\ folder[i].parent \in 0 .. i - 1
  <2> SUFFICES ASSUME NEW i \in Ids
               PROVE  folder[i].name \in Names /\ folder[i].parent \in 0 .. i - 1
    OBVIOUS
  <2>1. folder[i] \in Entry /\ folder[i].parent < i /\ i \in Nat
    BY DEF FolderInv, Ids
  <2> QED
    BY <2>1 DEF Entry
<1>2. CacheOK(cache)
  BY CacheTyped DEF FolderInv
<1>3. ASSUME NEW w \in Workers
      PROVE  /\ walk[w].pc \in Stages
             /\ {walk[w].parent, walk[w].found, place[w]} \subseteq Ids \cup {Root}
             /\ walk[w].depth \in 0 .. Len(PathOf[w])
             /\ walk[w].ignored \subseteq Ids
             /\ walk[w].attempt \in Nat
             /\ CacheOK(walk[w].kept)
  <2>1. Sound(folder, PathOf[w], walk[w]) /\ walk[w] \in Walks /\ Len(folder) \in Nat
    BY WalkFacts
  <2>2. place[w] \in 0 .. Len(folder)
    BY DEF FolderInv
  <2>3. CacheOK(walk[w].kept)
    BY <2>1, CacheTyped DEF Sound, Walks
  <2> QED
    BY <2>1, <2>2, <2>3 DEF Sound, Walks, Ids, Root
<1> QED
  BY <1>1, <1>2, <1>3 DEF TypeOK, FolderInv, Ids

\* No thread, whatever the others do to the cache between two of its steps, gets a
\* folder id or a cache entry that is not of a folder there has been
\* (_get_or_create_folder, gdrive.py:119).
THEOREM TypeCorrect == Spec => []TypeOK
BY InitFolders, StepFolders, FolderTypes, PTL DEF Spec

\* A bag is filed where its path leads, although the test and the read of the cache are
\* two steps, entries come back after _drop_folder_cache_id() and two threads may create
\* one folder twice (_resolve_folder_path, gdrive.py:184).
THEOREM FiledRight == Spec => []FiledInPath
<1>1. FolderInv => FiledInPath
  BY DEF FolderInv
<1> QED
  BY <1>1, InitFolders, StepFolders, PTL DEF Spec

-----------------------------------------------------------------------------
(* What the attempts are spent on.                                         *)

\* Stages of an attempt that has not met a missing folder, or has just met it.
Trying == {"check", "read", "pop", "list", "create", "store", "missing"}

Lost(w) == OnTheWay(w) \ alive

\* The ignored ids are as many as the attempts before; each is of a folder on the way
\* that has been deleted, and the attempt keeps clear of them.
Paid(w, r) ==
  /\ r.ignored \subseteq Lost(w)
  /\ r.pc \in Trying => Cardinality(r.ignored) + 1 = r.attempt /\ r.parent \notin r.ignored
  /\ r.pc = "forget" => Cardinality(r.ignored) = r.attempt
  /\ r.pc = "store" => r.found \notin r.ignored
  /\ r.pc = "missing" => r.parent \in Lost(w)

AttemptInv == \A w \in Workers : Paid(w, walk[w])

LEMMA LostIsFinite ==
  ASSUME FolderInv, NEW w \in Workers
  PROVE  /\ IsFiniteSet(Lost(w)) /\ Cardinality(Lost(w)) \in Nat
         /\ \A S \in SUBSET Lost(w) : /\ IsFiniteSet(S) /\ Cardinality(S) \in Nat
                                      /\ Cardinality(S) <= Cardinality(Lost(w))
<1>1. Lost(w) \in SUBSET (1 .. Len(folder)) /\ Len(folder) \in Int
  BY FolderFacts DEF Lost, OnTheWay, Ids
<1>a. 1 \in Int /\ IsFiniteSet(1 .. Len(folder))
  BY <1>1, FS_Interval
<1>2. IsFiniteSet(Lost(w))
  BY <1>1, <1>a, FS_Subset
<1>3. \A S \in SUBSET Lost(w) : IsFiniteSet(S) /\ Cardinality(S) <= Cardinality(Lost(w))
  BY <1>2, FS_Subset
<1> QED
  BY <1>2, <1>3, FS_CardinalityType

LEMMA NoneIgnored == Cardinality({}) = 0
BY FS_EmptySet

\* What was deleted stays deleted, and stays where it was.
LEMMA StillLost ==
  ASSUME FolderInv, Grown(folder, folder'), alive' \cap Ids \subseteq alive, NEW w \in Workers
  PROVE  Lost(w) \subseteq Lost(w)'
<1> SUFFICES ASSUME NEW id \in Lost(w) PROVE id \in Lost(w)'
  OBVIOUS
<1>1. id \in Ids /\ id \notin alive' /\ id \in Ids'
  BY FolderFacts DEF Lost, OnTheWay, Ids, Grown
<1>2. PICK d \in 1 .. Len(PathOf[w]) - 1 : Leads(folder, PathOf[w], d, id)
  BY DEF Lost, OnTheWay
<1>3. d \in Nat
  BY PathLength
<1>4. Leads(folder', PathOf[w], d, id)
  BY <1>2, <1>3, StillLeads
<1> QED
  BY <1>1, <1>2, <1>4 DEF Lost, OnTheWay

\* A folder that lists its children for the path, and is not there, is lost.
LEMMA GoneIsLost ==
  ASSUME FolderInv, NEW w \in Workers, walk[w].pc \in {"list", "create"},
         ~Reachable(walk[w].parent)
  PROVE  walk[w].parent \in Lost(w)
<1>1. /\ Leads(folder, PathOf[w], walk[w].depth, walk[w].parent)
      /\ walk[w].depth \in 0 .. Len(PathOf[w]) /\ walk[w].depth < Len(PathOf[w])
      /\ walk[w].parent \in 0 .. Len(folder) /\ Len(PathOf[w]) \in Nat
  BY WalkFacts DEF Sound, Resolving
<1>2. walk[w].parent # Root /\ walk[w].parent \notin alive
  BY DEF Reachable
<1>3. walk[w].depth # 0
  BY <1>1, <1>2 DEF Leads, Link
<1>4. walk[w].parent \in Ids /\ walk[w].depth \in 1 .. Len(PathOf[w]) - 1
  BY <1>1, <1>2, <1>3 DEF Ids, Root
<1> QED
  BY <1>1, <1>2, <1>4 DEF Lost, OnTheWay

LEMMA RestingPaid == \A w \in Workers : Paid(w, Resting) /\ Paid(w, [Resting EXCEPT !.pc = "filed"])
<1>1. /\ Resting.ignored = {} /\ Resting.pc = "idle"
      /\ [Resting EXCEPT !.pc = "filed"].ignored = {}
      /\ [Resting EXCEPT !.pc = "filed"].pc = "filed"
  BY DEF Resting
<1> QED
  BY <1>1 DEF Paid, Trying

LEMMA InitPaid == Init => AttemptInv
BY RestingPaid DEF Init, AttemptInv

\* One worker moves on, and nothing that was lost comes back.
LEMMA OnePaid ==
  ASSUME FolderInv, AttemptInv, Grown(folder, folder'), alive' \cap Ids \subseteq alive,
         NEW w \in Workers, NEW r, Become(w, r), Paid(w, r)
  PROVE  AttemptInv'
<1> SUFFICES ASSUME NEW v \in Workers PROVE Paid(v, walk[v])'
  BY DEF AttemptInv
<1>1. Lost(v) \subseteq Lost(v)'
  BY StillLost
<1>2. walk'[v] = IF v = w THEN r ELSE walk[v]
  BY DEF Become, FolderInv
<1>3. Paid(v, walk'[v])
  BY <1>2 DEF AttemptInv
<1>4. \A s : Paid(v, s) => /\ s.ignored \subseteq Lost(v)'
                           /\ s.pc = "missing" => s.parent \in Lost(v)'
  BY <1>1 DEF Paid
<1> DEFINE s == walk'[v]
<1> HIDE DEF s
<1>5. Paid(v, s) => /\ s.pc \in Trying => Cardinality(s.ignored) + 1 = s.attempt
                                          /\ s.parent \notin s.ignored
                    /\ s.pc = "forget" => Cardinality(s.ignored) = s.attempt
                    /\ s.pc = "store" => s.found \notin s.ignored
  BY DEF Paid
<1>6. Paid(v, s)
  BY <1>3 DEF s
<1> QED
  BY <1>4, <1>5, <1>6 DEF Paid, s

\* The next attempt begins with one id more to keep clear of.
LEMMA NextPaid ==
  ASSUME FolderInv, AttemptInv, NEW w \in Workers, walk[w].pc = "forget",
         UNCHANGED <<folder, alive>>, NextAttempt(w, walk[w].ignored)
  PROVE  AttemptInv'
<1>1. Grown(folder, folder') /\ alive' \cap Ids \subseteq alive
  BY FolderFacts DEF Grown
<1>2. CASE Fail(w)
  BY <1>1, <1>2, OnePaid, RestingPaid DEF Fail
<1>3. CASE ~Fail(w)
  <2> DEFINE r == [Resting EXCEPT !.pc = "check", !.attempt = walk[w].attempt + 1,
                                  !.ignored = walk[w].ignored]
  <2>1. Become(w, r)
    BY <1>3 DEF NextAttempt
  <2>2. /\ r.pc = "check" /\ r.attempt = walk[w].attempt + 1 /\ r.ignored = walk[w].ignored
        /\ r.parent = Root
    BY DEF Resting
  <2> HIDE DEF r
  <2>3. /\ walk[w].ignored \subseteq Lost(w) /\ Cardinality(walk[w].ignored) = walk[w].attempt
    BY DEF AttemptInv, Paid
  <2>4. Root \notin Lost(w)
    BY DEF Lost, OnTheWay, Ids, Root
  <2>5. Paid(w, r)
    BY <2>2, <2>3, <2>4 DEF Paid
  <2> QED
    BY <1>1, <2>1, <2>5, OnePaid
<1> QED
  BY <1>2, <1>3

\* The folder found, or made, is remembered before the call descends into it.
Found(w, id) == [walk[w] EXCEPT !.pc = "store", !.found = id]

LEMMA StepPaid == FolderInv /\ AttemptInv /\ [Next]_vars => AttemptInv'
<1> SUFFICES ASSUME FolderInv, AttemptInv, [Next]_vars PROVE AttemptInv'
  OBVIOUS
<1>g. UNCHANGED folder /\ alive' \subseteq alive =>
        Grown(folder, folder') /\ alive' \cap Ids \subseteq alive
  BY FolderFacts DEF Grown
<1>p. \A w \in Workers : Paid(w, walk[w])
  BY DEF AttemptInv
<1>t. \A w \in Workers : walk[w] \in Walks
  BY WalkFacts
<1>f. ASSUME NEW w \in Workers, Fail(w), Grown(folder, folder'), alive' \cap Ids \subseteq alive
      PROVE  AttemptInv'
  BY <1>f, OnePaid, RestingPaid DEF Fail
<1>m. ASSUME NEW w \in Workers, NEW stage \in Stages, Goto(w, stage), walk[w].pc \in Trying,
             UNCHANGED folder, alive' \subseteq alive, stage \notin {"store", "forget"},
             stage = "missing" => walk[w].parent \in Lost(w)
      PROVE  AttemptInv'
  <2> DEFINE r == [walk[w] EXCEPT !.pc = stage]
  <2>1. /\ r.pc = stage /\ r.parent = walk[w].parent /\ r.ignored = walk[w].ignored
        /\ r.attempt = walk[w].attempt /\ Become(w, r)
    BY <1>m, <1>t DEF Walks, Goto
  <2> HIDE DEF r
  <2>2. Paid(w, r)
    BY <1>m, <1>p, <2>1 DEF Paid
  <2> QED
    BY <1>g, <1>m, <2>1, <2>2, OnePaid
<1>d. ASSUME NEW w \in Workers, NEW id, Descend(w, id), id \notin walk[w].ignored,
             walk[w].pc \in Trying, UNCHANGED folder, alive' \subseteq alive
      PROVE  AttemptInv'
  <2> DEFINE depth == walk[w].depth + 1
             r == [walk[w] EXCEPT !.parent = id, !.depth = depth, !.found = Root,
                                  !.pc = IF depth = Len(PathOf[w]) THEN "use" ELSE "check"]
  <2>1. /\ r.pc \in {"use", "check"} /\ r.parent = id /\ r.ignored = walk[w].ignored
        /\ r.attempt = walk[w].attempt
    BY <1>t DEF Walks
  <2>2. Become(w, r)
    BY <1>d DEF Descend
  <2> HIDE DEF r, depth
  <2>3. Paid(w, r)
    BY <1>d, <1>p, <2>1 DEF Paid, Trying
  <2> QED
    BY <1>d, <1>g, <2>2, <2>3, OnePaid
<1>s. ASSUME NEW w \in Workers, NEW id, walk[w].pc \in {"list", "create"}, id \notin walk[w].ignored,
             Become(w, Found(w, id)), Grown(folder, folder'), alive' \cap Ids \subseteq alive
      PROVE  AttemptInv'
  <2> DEFINE r == Found(w, id)
  <2>1. /\ r.pc = "store" /\ r.found = id /\ r.parent = walk[w].parent
        /\ r.ignored = walk[w].ignored /\ r.attempt = walk[w].attempt
    BY <1>t DEF Walks, Found
  <2>3. Become(w, r)
    BY <1>s
  <2> HIDE DEF r
  <2>2. Paid(w, r)
    BY <1>s, <1>p, <2>1 DEF Paid, Trying
  <2> QED
    BY <1>s, <2>2, <2>3, OnePaid
<1>1. ASSUME NEW w \in Workers, Begin(w) PROVE AttemptInv'
  <2> DEFINE r == [Resting EXCEPT !.pc = "check", !.attempt = 1]
  <2>1. /\ Become(w, r) /\ r.pc = "check" /\ r.attempt = 1 /\ r.ignored = {}
    BY <1>1 DEF Begin, Resting
  <2> HIDE DEF r
  <2>2. Paid(w, r)
    BY <2>1, NoneIgnored DEF Paid
  <2>3. UNCHANGED folder /\ alive' \subseteq alive
    BY <1>1 DEF Begin, Drive
  <2> QED
    BY <1>g, <2>1, <2>2, <2>3, OnePaid
<1>2. ASSUME NEW w \in Workers, Check(w) PROVE AttemptInv'
  <2>1. /\ walk[w].pc \in Trying /\ UNCHANGED folder /\ alive' \subseteq alive
        /\ Goto(w, "read") \/ Goto(w, "list")
    BY <1>2 DEF Check, At, Drive, Trying
  <2> QED
    BY <1>m, <2>1 DEF Stages
<1>3. ASSUME NEW w \in Workers, Read(w) PROVE AttemptInv'
  <2>1. walk[w].pc \in Trying /\ UNCHANGED folder /\ alive' \subseteq alive
    BY <1>3 DEF Read, At, Drive, Trying
  <2>2. \/ Fail(w) \/ Goto(w, "pop")
        \/ Descend(w, cache[Key(w)]) /\ cache[Key(w)] \notin walk[w].ignored
    BY <1>3 DEF Read
  <2> QED
    BY <1>d, <1>f, <1>g, <1>m, <2>1, <2>2 DEF Stages
<1>13. ASSUME NEW w \in Workers, Pop(w) PROVE AttemptInv'
  <2>1. /\ walk[w].pc \in Trying /\ UNCHANGED folder /\ alive' \subseteq alive
        /\ Goto(w, "list")
    BY <1>13 DEF Pop, At, Drive, Trying
  <2> QED
    BY <1>m, <2>1 DEF Stages
<1>4. ASSUME NEW w \in Workers, List(w) PROVE AttemptInv'
  <2>1. /\ walk[w].pc = "list" /\ walk[w].pc \in Trying /\ UNCHANGED folder /\ alive' \subseteq alive
    BY <1>4 DEF List, At, Drive, Trying
  <2>2. \/ Fail(w) \/ Goto(w, "create") \/ (Goto(w, "missing") /\ ~Reachable(walk[w].parent))
        \/ \E id \in Candidates(w) : Become(w, Found(w, id))
    BY <1>4 DEF List, Found
  <2>3. \A id \in Candidates(w) : id \notin walk[w].ignored
    BY DEF Candidates
  <2>4. Grown(folder, folder') /\ alive' \cap Ids \subseteq alive
    BY <1>g, <2>1
  <2>5. CASE Fail(w)
    BY <1>f, <2>4, <2>5
  <2>6. CASE Goto(w, "create")
    BY <1>m, <2>1, <2>6 DEF Stages
  <2>7. CASE Goto(w, "missing") /\ ~Reachable(walk[w].parent)
    <3>1. walk[w].parent \in Lost(w)
      BY <2>1, <2>7, GoneIsLost
    <3> QED
      BY <1>m, <2>1, <2>7, <3>1 DEF Stages
  <2>8. ASSUME NEW id \in Candidates(w), Become(w, Found(w, id))
        PROVE  AttemptInv'
    BY <1>s, <2>1, <2>3, <2>4, <2>8
  <2> QED
    BY <2>2, <2>5, <2>6, <2>7, <2>8
<1>5. ASSUME NEW w \in Workers, Create(w) PROVE AttemptInv'
  <2> DEFINE id == Len(folder) + 1
             e == [name |-> NextName(w), parent |-> walk[w].parent]
             New == /\ folder' = Append(folder, e) /\ alive' = alive \cup {id}
  <2>1. walk[w].pc = "create" /\ walk[w].pc \in Trying
    BY <1>5 DEF Create, At, Trying
  <2>2. \/ Fail(w) /\ (UNCHANGED Drive \/ New)
        \/ Goto(w, "missing") /\ ~Reachable(walk[w].parent) /\ UNCHANGED Drive
        \/ New /\ Become(w, Found(w, id))
    BY <1>5 DEF Create, Found
  <2>3. e \in Entry
    <3>1. walk[w].depth + 1 \in 1 .. Len(PathOf[w])
      <4>1. /\ walk[w].depth \in 0 .. Len(PathOf[w]) /\ walk[w].depth < Len(PathOf[w])
            /\ Len(PathOf[w]) \in Nat
        BY <2>1, WalkFacts DEF Sound, Resolving
      <4> QED
        BY <4>1
    <3>2. NextName(w) \in Names
      BY <3>1, FolderAssumption DEF NextName
    <3> QED
      BY <1>t, <3>2 DEF Walks, Entry
  <2> HIDE DEF e
  <2>4. New => Grown(folder, folder') /\ alive' \cap Ids \subseteq alive
    <3>1. id \notin Ids
      BY FolderFacts DEF Ids
    <3> QED
      BY <2>3, <3>1, FolderFacts, AppendGrows
  <2>5. id \notin walk[w].ignored
    <3>1. walk[w].ignored \subseteq 1 .. Len(folder) /\ Len(folder) \in Nat
      BY WalkFacts DEF Sound
    <3> QED
      BY <3>1
  <2> HIDE DEF id, New
  <2>6. UNCHANGED Drive => UNCHANGED folder /\ alive' \subseteq alive
    BY DEF Drive
  <2>7. CASE Fail(w) /\ (UNCHANGED Drive \/ New)
    BY <1>f, <1>g, <2>4, <2>6, <2>7
  <2>8. CASE Goto(w, "missing") /\ ~Reachable(walk[w].parent) /\ UNCHANGED Drive
    <3>1. walk[w].parent \in Lost(w)
      BY <2>1, <2>8, GoneIsLost
    <3> QED
      BY <1>m, <2>1, <2>6, <2>8, <3>1 DEF Stages
  <2>9. CASE New /\ Become(w, Found(w, id))
    BY <1>s, <2>1, <2>4, <2>5, <2>9
  <2> QED
    BY <2>2, <2>7, <2>8, <2>9
<1>6. ASSUME NEW w \in Workers, Store(w) PROVE AttemptInv'
  <2>1. /\ walk[w].pc = "store" /\ walk[w].pc \in Trying /\ Descend(w, walk[w].found)
        /\ UNCHANGED folder /\ alive' \subseteq alive
    BY <1>6 DEF Store, At, Drive, Trying
  <2>2. walk[w].found \notin walk[w].ignored
    BY <1>p, <2>1 DEF Paid
  <2> QED
    BY <1>d, <2>1, <2>2
<1>7. ASSUME NEW w \in Workers, Missing(w) PROVE AttemptInv'
  <2> DEFINE id == walk[w].parent
             r == [walk[w] EXCEPT !.pc = "forget", !.ignored = @ \cup {id},
                                  !.kept = Restrict(cache, Unrelated(id))]
  <2>1. /\ walk[w].pc = "missing" /\ Become(w, r) /\ UNCHANGED folder /\ alive' \subseteq alive
    BY <1>7 DEF Missing, At, Drive
  <2>2. r.pc = "forget" /\ r.ignored = walk[w].ignored \cup {id} /\ r.attempt = walk[w].attempt
    BY <1>t DEF Walks
  <2> HIDE DEF r
  <2>3. /\ walk[w].ignored \subseteq Lost(w) /\ id \in Lost(w) /\ id \notin walk[w].ignored
        /\ Cardinality(walk[w].ignored) + 1 = walk[w].attempt
    BY <1>p, <2>1 DEF Paid, Trying
  <2>4. IsFiniteSet(walk[w].ignored)
    BY <2>3, LostIsFinite
  <2>5. Cardinality(r.ignored) = r.attempt
    BY <2>2, <2>3, <2>4, FS_AddElement
  <2>6. Paid(w, r)
    BY <2>2, <2>3, <2>5 DEF Paid, Trying
  <2> QED
    BY <1>g, <2>1, <2>6, OnePaid
<1>8. ASSUME NEW w \in Workers, Forget(w) PROVE AttemptInv'
  BY <1>8, NextPaid DEF Forget, At, Drive
<1>9. ASSUME NEW w \in Workers, Use(w) PROVE AttemptInv'
  <2>1. /\ UNCHANGED folder /\ alive' \subseteq alive
        /\ Fail(w) \/ Become(w, [Resting EXCEPT !.pc = "filed"])
    BY <1>9 DEF Use, Drive
  <2> QED
    BY <1>f, <1>g, <2>1, OnePaid, RestingPaid
<1>r. ASSUME UNCHANGED folder, alive' \subseteq alive,
             \A w \in Workers : walk'[w] = walk[w] \/ walk'[w] = Resting
      PROVE  AttemptInv'
  <2> SUFFICES ASSUME NEW w \in Workers PROVE Paid(w, walk[w])'
    BY DEF AttemptInv
  <2>1. Lost(w) \subseteq Lost(w)'
    BY <1>g, <1>r, StillLost
  <2>2. Paid(w, walk'[w])
    BY <1>p, <1>r, RestingPaid
  <2> QED
    BY <2>1, <2>2 DEF Paid
<1>10. ASSUME NEW id \in Ids, Remove(id) PROVE AttemptInv'
  BY <1>10, <1>r DEF Remove
<1>11. CASE Restart
  BY <1>11, <1>r DEF Restart, Drive
<1>12. CASE UNCHANGED vars
  BY <1>12, <1>r DEF vars
<1> QED
  BY <1>1, <1>2, <1>3, <1>4, <1>5, <1>6, <1>7, <1>8, <1>9, <1>10, <1>11, <1>12, <1>13
  DEF Next, WorkerStep

\* Each attempt of a call fails for another deleted folder of its path, so that a call
\* that gives up has met as many as the loop has attempts, however often other threads put
\* dead ids back into the cache (_resolve_folder_path, gdrive.py:184).
THEOREM AttemptsCount == Spec => []EachAttemptCounts
<1>1. FolderInv /\ AttemptInv => EachAttemptCounts
  <2> SUFFICES ASSUME FolderInv, NEW w \in Workers, Paid(w, walk[w]), walk[w].pc = "missing"
               PROVE  walk[w].attempt <= Cardinality(Lost(w))
    BY DEF AttemptInv, EachAttemptCounts, At, Lost
  <2> DEFINE met == walk[w].ignored \cup {walk[w].parent}
  <2>1. /\ walk[w].ignored \subseteq Lost(w) /\ walk[w].parent \in Lost(w)
        /\ Cardinality(walk[w].ignored) + 1 = walk[w].attempt
        /\ walk[w].parent \notin walk[w].ignored
    BY DEF Paid, Trying
  <2>2. IsFiniteSet(walk[w].ignored)
    BY <2>1, LostIsFinite
  <2>3. Cardinality(met) = walk[w].attempt
    BY <2>1, <2>2, FS_AddElement
  <2>4. met \in SUBSET Lost(w)
    BY <2>1
  <2> HIDE DEF met
  <2> QED
    BY <2>3, <2>4, LostIsFinite
<1> QED
  BY <1>1, InitFolders, StepFolders, InitPaid, StepPaid, PTL DEF Spec

=============================================================================
