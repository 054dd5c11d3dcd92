------------------------------ MODULE GateProofs ------------------------------
(***************************************************************************)
(* What the job's verdict says of a commit, for any number of vectors,     *)
(* edits, commits and killed runs.                                         *)
(*                                                                         *)
(* First the operators: a rebuild is well typed, leaves what is already    *)
(* built as it is, and changes nothing the second time.  Then the builder, *)
(* write by write (Building), and the job, step by step (Judging).         *)
(***************************************************************************)
EXTENDS GateSafety, FiniteSetTheorems, TLAPS

-----------------------------------------------------------------------------
\* Finite sets.

\* Among the numbers still to be written there is a next one.
LEMMA NextIsToDo ==
  ASSUME NEW todo \in SUBSET Numbers, todo # {}
  PROVE  Next1(todo) \in todo /\ \A m \in todo : Next1(todo) <= m
  <1> DEFINE Below(n) == {m \in todo : m <= n}
             T == {U \in SUBSET Numbers : \E n \in todo : U = Below(n)}
  <1>1. todo \subseteq Int /\ IsFiniteSet(Numbers)
    BY VectorTreeAssumption
  <1>2. T \subseteq FiniteSubsetsOf(Numbers) /\ T # {}
    <2>1. \A U \in SUBSET Numbers : IsFiniteSet(U)
      BY <1>1, FS_Subset
    <2>2. PICK n \in todo : TRUE
      OBVIOUS
    <2>3. Below(n) \in T
      BY <2>2
    <2> QED BY <2>1, <2>3 DEF FiniteSubsetsOf
  <1>3. PICK U \in T : \A W \in T : ~(<<W, U>> \in StrictSubsetOrdering(Numbers))
    <2> HIDE DEF T
    <2> QED BY <1>2, FS_StrictSubsetOrderingWellFounded, WFMin
  <1>4. PICK n \in todo : U = Below(n)
    BY <1>3
  <1>5. \A m \in todo : n <= m
    <2> SUFFICES ASSUME NEW m \in todo, ~(n <= m) PROVE FALSE
      OBVIOUS
    <2>1. m \in Int /\ n \in Int /\ m < n
      BY <1>1
    <2>2. Below(m) \subseteq Below(n) /\ n \in Below(n) /\ n \notin Below(m)
      <3>1. ASSUME NEW k \in todo, k <= m
            PROVE  k <= n
        <4>1. k \in Int
          BY <1>1
        <4> QED BY <2>1, <3>1, <4>1
      <3>2. n <= n /\ ~(n <= m)
        BY <2>1
      <3> QED BY <3>1, <3>2
    <2>3. Below(m) \in T
      OBVIOUS
    <2>4. <<Below(m), U>> \in StrictSubsetOrdering(Numbers)
      BY <1>4, <2>2, <2>3 DEF StrictSubsetOrdering
    <2> QED BY <1>3, <2>3, <2>4
  <1> QED BY <1>4, <1>5 DEF Next1

LEMMA FilesFinite == IsFiniteSet(File)
  <1> DEFINE Triple == (Sets \X Numbers) \X Slugs
             name == [t \in Triple |-> [set |-> t[1][1], n |-> t[1][2], slug |-> t[2]]]
  <1>1. IsFiniteSet(Sets)
    <2>1. Sets = (({"native"} \cup {"enforce"}) \cup {"resume"}) \cup {"interop"}
      BY DEF Sets
    <2> QED BY <2>1, FS_Singleton, FS_Union
  <1>2. IsFiniteSet(Triple)
    <2>1. IsFiniteSet(Sets \X Numbers)
      BY <1>1, VectorTreeAssumption, FS_Product
    <2> QED BY <2>1, VectorTreeAssumption, FS_Product
  <1>3. name \in Surjection(Triple, File)
    <2>1. name \in [Triple -> File]
      BY DEF File
    <2>2. ASSUME NEW f \in File
          PROVE  \E t \in Triple : name[t] = f
      <3>1. <<<<f.set, f.n>>, f.slug>> \in Triple
        BY DEF File
      <3>2. name[<<<<f.set, f.n>>, f.slug>>] = f
        BY <3>1 DEF File
      <3> QED BY <3>1, <3>2
    <2> HIDE DEF name, Triple
    <2> QED BY <2>1, <2>2 DEF Surjection
  <1> HIDE DEF name, Triple
  <1> QED BY <1>2, <1>3, FS_Surjection

\* A set of files can be counted, and one within another of the same size is that other.
LEMMA Counting ==
  ASSUME NEW S \in SUBSET File
  PROVE  /\ IsFiniteSet(S) /\ Cardinality(S) \in Nat
         /\ \A T \in SUBSET S : Cardinality(T) = Cardinality(S) => T = S
  <1>1. IsFiniteSet(S)
    BY FilesFinite, FS_Subset
  <1> QED BY <1>1, FS_CardinalityType, FS_Subset

-----------------------------------------------------------------------------
\* The operators of VectorTree.

LEMMA NotContent == Absent # Partial /\ Absent \notin Content /\ Partial \notin Content
  BY VectorTreeAssumption

LEMMA EntryOf ==
  ASSUME NEW src \in Sources, NEW s \in Sets, NEW n \in Numbers
  PROVE  /\ src[s][n] \in Entry(s) \cup {Absent}
         /\ n \in Builds(src, s) => src[s][n] \in Entry(s)
  BY DEF Sources, Builds

\* A vector that is built has a file, unless its builder has no name for it.
LEMMA BuiltFile ==
  ASSUME NEW src \in Sources, NEW s \in Sets, NEW n \in Builds(src, s),
         src[s][n].slug # NoName
  PROVE  LET f == [set |-> s, n |-> n, slug |-> src[s][n].slug]
         IN  f \in File /\ IsBuilt(src, f)
  <1>1. n \in Numbers /\ src[s][n] \in Entry(s)
    BY EntryOf DEF Builds
  <1>2. src[s][n].slug \in Slugs
    BY <1>1 DEF Entry, SlugsOf
  <1> QED BY <1>1, <1>2 DEF File, IsBuilt

LEMMA WrittenIsContent ==
  ASSUME NEW src \in Sources, NEW key \in Nat, NEW f \in File, IsBuilt(src, f)
  PROVE  Written(src, key, f) \in Content /\ Written(src, key, f).key = key
  <1>1. src[f.set][f.n] \in Entry(f.set)
    BY EntryOf DEF IsBuilt, File, Builds
  <1> QED BY <1>1 DEF Written, Content, Entry

LEMMA RebuiltTyped ==
  ASSUME NEW src \in Sources, NEW key \in Nat, NEW s \in Sets, NEW tree \in Tree
  PROVE  Rebuilt(src, key, s, tree) \in Tree
  BY WrittenIsContent DEF Rebuilt, Tree

\* What a rebuild makes of one file.
LEMMA RebuiltFile ==
  ASSUME NEW src, NEW key, NEW s, NEW tree, NEW f \in File
  PROVE  LET after == Rebuilt(src, key, s, tree)
         IN  /\ f.set # s => after[f] = tree[f]
             /\ f.set = s /\ IsBuilt(src, f) => after[f] = Written(src, key, f)
             /\ f.set = s /\ ~IsBuilt(src, f) => after[f] \in {tree[f], Absent}
             /\ f.set = s /\ ~IsBuilt(src, f) /\ s = "resume" => after[f] = Absent
             /\ f.set = s /\ ~IsBuilt(src, f) /\ s = "enforce" /\ f.n \in Builds(src, s) =>
                  after[f] = Absent
             /\ f.set = s /\ ~IsBuilt(src, f) /\ s \in {"native", "interop"} =>
                  after[f] = tree[f]
  BY DEF Rebuilt, StaleResume, Replaced

\* Where every file of the set is as a builder leaves it, a rebuild changes nothing.
AsBuilt(src, key, s, tree) ==
  \A f \in File : f.set = s =>
    /\ IsBuilt(src, f) => tree[f] = Written(src, key, f)
    /\ StaleResume(src, f) \/ (\E n \in Builds(src, s) : Replaced(src, n, f)) =>
         tree[f] = Absent

LEMMA RebuiltUnchanged ==
  ASSUME NEW src, NEW key, NEW s, NEW tree \in Tree, AsBuilt(src, key, s, tree)
  PROVE  Rebuilt(src, key, s, tree) = tree
  BY DEF Rebuilt, AsBuilt, Tree

LEMMA RebuiltAsBuilt ==
  ASSUME NEW src, NEW key, NEW s, NEW tree
  PROVE  AsBuilt(src, key, s, Rebuilt(src, key, s, tree))
  BY DEF Rebuilt, AsBuilt, StaleResume, Replaced

\* A builder that is run again changes nothing, whatever tree it was first run in: what the
\* comparison with git asks of a commit does not depend on how often the job rebuilds.
THEOREM RebuildIdempotent ==
  ASSUME NEW src \in Sources, NEW key \in Nat, NEW s \in Sets, NEW tree \in Tree
  PROVE  Rebuilt(src, key, s, Rebuilt(src, key, s, tree)) = Rebuilt(src, key, s, tree)
  BY RebuiltTyped, RebuiltAsBuilt, RebuiltUnchanged

\* The builders do not touch each other's files: in which order two of them run makes no
\* difference.
THEOREM RebuildsCommute ==
  ASSUME NEW src \in Sources, NEW key \in Nat, NEW s \in Sets, NEW t \in Sets, s # t,
         NEW tree \in Tree
  PROVE  Rebuilt(src, key, s, Rebuilt(src, key, t, tree))
           = Rebuilt(src, key, t, Rebuilt(src, key, s, tree))
  <1> DEFINE st == Rebuilt(src, key, s, Rebuilt(src, key, t, tree))
             ts == Rebuilt(src, key, t, Rebuilt(src, key, s, tree))
  <1>1. st \in Tree /\ ts \in Tree
    BY RebuiltTyped
  <1>2. ASSUME NEW f \in File
        PROVE  st[f] = ts[f]
    BY DEF Rebuilt
  <1> HIDE DEF st, ts
  <1>3. st = ts
    BY <1>1, <1>2 DEF Tree
  <1> QED BY <1>3 DEF st, ts

-----------------------------------------------------------------------------
\* Types.

LEMMA EntryTyped ==
  ASSUME NEW src \in Sources, NEW s \in Sets, NEW n \in Numbers,
         NEW entry \in Entry(s) \cup {Absent}
  PROVE  [src EXCEPT ![s][n] = entry] \in Sources
  <1> DEFINE new == [src EXCEPT ![s][n] = entry]
  <1>1. \A t \in Sets : new[t] \in [Numbers -> Entry(t) \cup {Absent}]
    BY DEF Sources
  <1>2. new \in [Sets -> [Numbers -> (UNION {Entry(t) : t \in Sets}) \cup {Absent}]]
    <2>1. ASSUME NEW t \in Sets
          PROVE  new[t] \in [Numbers -> (UNION {Entry(u) : u \in Sets}) \cup {Absent}]
      <3>1. Entry(t) \cup {Absent} \subseteq (UNION {Entry(u) : u \in Sets}) \cup {Absent}
        OBVIOUS
      <3> HIDE DEF new
      <3> QED BY <1>1, <3>1
    <2>2. new = [t \in Sets |-> new[t]]
      BY DEF Sources
    <2> HIDE DEF new
    <2> QED BY <2>1, <2>2
  <1> HIDE DEF new
  <1>3. new \in Sources
    BY <1>1, <1>2 DEF Sources
  <1> QED BY <1>3 DEF new

LEMMA CountOfNat ==
  ASSUME NEW src
  PROVE  CountOf(src) \in Nat
  BY Counting DEF CountOf

LEMMA IdleTyped == Idle \in Tools /\ [Idle EXCEPT !.name = "genkeys"] \in Tools
  BY DEF Tools

\* A tree that changes in its files alone is a tree.
LEMMA TreeTyped ==
  ASSUME NEW tree, tree = [f \in File |-> tree[f]],
         \A f \in File : tree[f] \in Content \cup {Absent, Partial}
  PROVE  tree \in Tree
  BY DEF Tree

\* The working tree has a new tree, and the rest of it stays.
LEMMA WorkTyped ==
  ASSUME NEW repo \in Repository, NEW tree \in Tree
  PROVE  [repo EXCEPT !.tree = tree] \in Repository
  BY DEF Repository

LEMMA InitTypeOK == Init => TypeOK
  <1> SUFFICES ASSUME Init PROVE TypeOK
    OBVIOUS
  <1>1. head.tree \in Tree
    BY WrittenIsContent, GateAssumption DEF Init, Tree
  <1>2. head \in Repository
    BY <1>1, CountOfNat, GateAssumption DEF Init, Repository
  <1>3. job \in [verdict : Verdicts, at : 1..Len(Steps) + 1, tree : Tree]
    BY <1>1 DEF Init, Verdicts, Steps
  <1> QED BY <1>2, <1>3, IdleTyped DEF Init, TypeOK

LEMMA CountedTyped ==
  ASSUME TypeOK, NEW what \in {"edits", "commits", "killed"}, NEW most, Counted(what, most)
  PROVE  counts' \in [{"edits", "commits", "killed"} -> Nat]
  BY DEF TypeOK, Counted

LEMMA EditTypeOK ==
  ASSUME TypeOK, NEW s \in Sets, NEW n \in Numbers, NEW entry \in Entry(s) \cup {Absent},
         Edit(s, n, entry)
  PROVE  TypeOK'
  <1>1. work' = [work EXCEPT !.src = [work.src EXCEPT ![s][n] = entry]]
    BY DEF Edit, TypeOK, Repository
  <1>2. [work.src EXCEPT ![s][n] = entry] \in Sources
    BY EntryTyped DEF TypeOK, Repository
  <1>3. work' \in Repository
    <2> HIDE DEF TypeOK
    <2>1. work \in Repository
      BY DEF TypeOK
    <2> QED BY <1>1, <1>2, <2>1 DEF Repository
  <1>4. counts' \in [{"edits", "commits", "killed"} -> Nat]
    BY CountedTyped DEF Edit
  <1> QED BY <1>3, <1>4 DEF Edit, TypeOK

LEMMA EntryOfEdits ==
  ASSUME TypeOK, NEW s \in Sets, NEW n \in Numbers
  PROVE  /\ (CHOOSE entry \in [slug : Slugs, version : Versions] : TRUE) \in Entry(s)
         /\ work.src[s][n] # Absent =>
              /\ \A slug \in SlugsOf(s) : [work.src[s][n] EXCEPT !.slug = slug] \in Entry(s)
              /\ \A v \in Versions : [work.src[s][n] EXCEPT !.version = v] \in Entry(s)
  <1>1. (CHOOSE entry \in [slug : Slugs, version : Versions] : TRUE)
          \in [slug : Slugs, version : Versions]
    <2>1. \E entry : entry \in [slug : Slugs, version : Versions]
      <3>1. PICK slug \in Slugs, v \in Versions : TRUE
        BY VectorTreeAssumption
      <3>2. [slug |-> slug, version |-> v] \in [slug : Slugs, version : Versions]
        OBVIOUS
      <3> QED BY <3>2
    <2> QED BY <2>1
  <1>2. [slug : Slugs, version : Versions] \subseteq Entry(s)
    BY DEF Entry, SlugsOf
  <1>3. work.src[s][n] \in Entry(s) \cup {Absent}
    BY EntryOf DEF TypeOK, Repository
  <1>4. ASSUME work.src[s][n] # Absent
        PROVE  /\ \A slug \in SlugsOf(s) : [work.src[s][n] EXCEPT !.slug = slug] \in Entry(s)
               /\ \A v \in Versions : [work.src[s][n] EXCEPT !.version = v] \in Entry(s)
    BY <1>3, <1>4 DEF Entry
  <1> QED BY <1>1, <1>2, <1>4

LEMMA DeleteFileTypeOK ==
  ASSUME TypeOK, NEW f \in File, DeleteFile(f)
  PROVE  TypeOK'
  <1>1. work \in Repository /\ work.tree \in Tree
    BY DEF TypeOK, Repository
  <1>2. [work.tree EXCEPT ![f] = Absent] \in Tree
    BY <1>1 DEF Tree
  <1>3. work' = [work EXCEPT !.tree = [work.tree EXCEPT ![f] = Absent]]
    BY <1>1 DEF DeleteFile, Repository
  <1>4. work' \in Repository
    BY <1>1, <1>2, <1>3, WorkTyped
  <1>5. counts' \in [{"edits", "commits", "killed"} -> Nat]
    BY CountedTyped DEF DeleteFile
  <1> QED BY <1>4, <1>5 DEF DeleteFile, TypeOK

-----------------------------------------------------------------------------
\* A builder, write by write.

LEMMA ToolSet ==
  ASSUME TypeOK, building
  PROVE  /\ tool.set \in Sets /\ tool.todo \in SUBSET Numbers /\ tool.open \in BOOLEAN
         /\ tool \in [name : {"build"}, set : Sets, todo : SUBSET Numbers, open : BOOLEAN]
         /\ work \in Repository /\ work.src \in Sources /\ work.key \in Nat
         /\ work.tree \in Tree
  <1>1. tool \in [name : {"build"}, set : Sets, todo : SUBSET Numbers, open : BOOLEAN]
    BY DEF TypeOK, Tools, building, Idle
  <1> QED BY <1>1, GateAssumption DEF TypeOK, Repository

LEMMA NextFileBuilt ==
  ASSUME TypeOK, Building, building, tool.todo # {}, NextFile.slug # NoName
  PROVE  /\ NextFile \in File /\ IsBuilt(work.src, NextFile)
         /\ NextFile.n \in tool.todo /\ NextFile.set = tool.set
  <1>1. Next1(tool.todo) \in tool.todo /\ tool.todo \subseteq Builds(work.src, tool.set)
    BY ToolSet, NextIsToDo DEF Building
  <1> QED BY <1>1, ToolSet, BuiltFile DEF NextFile

\* A file that is built and not the next one has another number.
LEMMA OtherBuilt ==
  ASSUME NEW f \in File, f.set = NextFile.set, IsBuilt(work.src, f), f # NextFile
  PROVE  f.n # NextFile.n
  BY DEF File, IsBuilt, NextFile

LEMMA StartBuildInd ==
  ASSUME TypeOK, NEW s \in Sets, StartBuild(s)
  PROVE  TypeOK' /\ Building'
  <1> DEFINE tree == [f \in File |-> IF s = "resume" /\ StaleResume(work.src, f)
                                     THEN Absent ELSE work.tree[f]]
  <1>1. /\ tool' = [name |-> "build", set |-> s, todo |-> Builds(work.src, s), open |-> FALSE]
        /\ work' = [work EXCEPT !.tree = tree]
        /\ UNCHANGED <<head, job, counts>>
    BY DEF StartBuild, TypeOK, Repository
  <1>2. tree \in Tree
    BY DEF TypeOK, Repository, Tree
  <1>3. work' \in Repository
    <2> HIDE DEF tree
    <2> QED BY <1>1, <1>2, WorkTyped DEF TypeOK
  <1>4. tool' \in Tools
    BY <1>1 DEF Tools, Builds
  <1>5. work'.src = work.src /\ work'.tree = tree
    <2> HIDE DEF tree
    <2> QED BY <1>1 DEF TypeOK, Repository
  <1>6. Building'
    <2> SUFFICES ASSUME NEW f \in File
                 PROVE  /\ tool'.set = "resume" /\ StaleResume(work'.src, f) =>
                             work'.tree[f] = Absent
                        /\ (f.set = s /\ IsBuilt(work'.src, f)) => f.n \in Builds(work.src, s)
      BY <1>1, <1>5 DEF Building
    <2> QED BY <1>1, <1>5 DEF IsBuilt
  <1> QED BY <1>1, <1>3, <1>4, <1>6 DEF TypeOK

LEMMA OpenFileInd ==
  ASSUME TypeOK, Building, OpenFile
  PROVE  TypeOK' /\ Building'
  <1> DEFINE tree == [f \in File |-> IF f = NextFile THEN Partial
                                     ELSE IF RemovedAtOpen(f) THEN Absent ELSE work.tree[f]]
  <1>0. /\ building /\ tool.todo # {} /\ ~tool.open /\ NextFile.slug # NoName
        /\ UNCHANGED <<head, job, counts>>
    BY DEF OpenFile
  <1>1. tool' = [tool EXCEPT !.open = TRUE] /\ work' = [work EXCEPT !.tree = tree]
    BY <1>0, ToolSet DEF OpenFile, Repository
  <1>2. tree \in Tree
    BY <1>0, ToolSet DEF Tree
  <1>3. work' \in Repository
    <2> HIDE DEF tree
    <2> QED BY <1>0, <1>1, <1>2, WorkTyped, ToolSet
  <1>4. /\ tool' \in Tools /\ tool'.set = tool.set /\ tool'.todo = tool.todo /\ tool'.open
        /\ tool'.name = "build"
    <2> QED BY <1>0, <1>1, ToolSet DEF Tools
  <1>5. work'.src = work.src /\ work'.key = work.key /\ work'.tree = tree
    <2> HIDE DEF tree
    <2> QED BY <1>0, <1>1, ToolSet DEF Repository
  <1>6. NextFile' = NextFile
    BY <1>4, <1>5 DEF NextFile
  <1>7. /\ NextFile \in File /\ IsBuilt(work.src, NextFile)
        /\ NextFile.n \in tool.todo /\ NextFile.set = tool.set
    BY <1>0, NextFileBuilt
  <1>8. Building'
    <2>1. ASSUME NEW f \in File, f.set = tool.set, IsBuilt(work.src, f), f.n \notin tool.todo
          PROVE  tree[f] = Written(work.src, work.key, f)
      <3>1. f # NextFile /\ work.tree[f] = Written(work.src, work.key, f)
        BY <1>0, <1>7, <2>1 DEF Building
      <3>2. ~RemovedAtOpen(f)
        BY <2>1 DEF RemovedAtOpen, Replaced
      <3> QED BY <3>1, <3>2
    <2>2. ASSUME NEW f \in File, tool.set = "resume", StaleResume(work.src, f)
          PROVE  tree[f] = Absent
      <3>1. f # NextFile /\ work.tree[f] = Absent
        BY <1>0, <1>7, <2>2 DEF Building, StaleResume
      <3> QED BY <3>1
    <2>3. ASSUME NEW f \in File, tool.set = "enforce", NEW n \in Builds(work.src, "enforce"),
                 Replaced(work.src, n, f), n \notin tool.todo \/ n = NextFile.n
          PROVE  tree[f] = Absent
      <3>1. f # NextFile
        BY <1>7, <2>3 DEF Replaced
      <3>2. CASE n \notin tool.todo
        <4>1. work.tree[f] = Absent
          BY <1>0, <2>3, <3>2 DEF Building
        <4> QED BY <3>1, <4>1
      <3>3. CASE n = NextFile.n
        <4>1. RemovedAtOpen(f)
          BY <2>3, <3>3 DEF RemovedAtOpen
        <4> QED BY <3>1, <4>1
      <3> QED BY <2>3, <3>2, <3>3
    <2> HIDE DEF tree
    <2> QED BY <1>0, <1>4, <1>5, <1>6, <2>1, <2>2, <2>3 DEF Building
  <1> QED BY <1>0, <1>3, <1>4, <1>8 DEF TypeOK

LEMMA CloseFileInd ==
  ASSUME TypeOK, Building, CloseFile
  PROVE  TypeOK' /\ Building'
  <1> DEFINE tree == [work.tree EXCEPT ![NextFile] = Written(work.src, work.key, NextFile)]
  <1>0. /\ building /\ tool.open /\ tool.todo # {} /\ NextFile.slug # NoName
        /\ UNCHANGED <<head, job, counts>>
    BY DEF CloseFile, Building
  <1>1. /\ NextFile \in File /\ IsBuilt(work.src, NextFile)
        /\ NextFile.n \in tool.todo /\ NextFile.set = tool.set
    BY <1>0, NextFileBuilt
  <1>2. work' = [work EXCEPT !.tree = tree]
    BY <1>0, ToolSet DEF CloseFile, Repository
  <1>3. Written(work.src, work.key, NextFile) \in Content
    BY <1>0, <1>1, ToolSet, WrittenIsContent
  <1>4. tree \in Tree
    BY <1>0, <1>1, <1>3, ToolSet DEF Tree
  <1>5. work' \in Repository
    <2> HIDE DEF tree
    <2> QED BY <1>0, <1>2, <1>4, WorkTyped, ToolSet
  <1>6. /\ tool' \in Tools /\ tool'.set = tool.set /\ tool'.todo = tool.todo \ {NextFile.n}
        /\ ~tool'.open /\ tool'.name = "build"
    <2> HIDE DEF tree
    <2>1. tool' = [tool EXCEPT !.open = FALSE, !.todo = tool.todo \ {NextFile.n}]
      BY DEF CloseFile
    <2> QED BY <2>1, <1>0, ToolSet DEF Tools
  <1>7. work'.src = work.src /\ work'.key = work.key /\ work'.tree = tree
    <2> HIDE DEF tree
    <2> QED BY <1>0, <1>2, ToolSet DEF Repository
  <1>8. \A f \in File : tree[f] = IF f = NextFile THEN Written(work.src, work.key, NextFile)
                                                   ELSE work.tree[f]
    BY <1>0, ToolSet DEF Tree
  <1> HIDE DEF tree
  <1>9. Building'
    <2>1. ASSUME NEW f \in File, f.set = tool.set, IsBuilt(work.src, f),
                 f.n \notin tool.todo \ {NextFile.n}
          PROVE  tree[f] = Written(work.src, work.key, f)
      <3>1. CASE f = NextFile
        BY <1>8, <3>1
      <3>2. CASE f # NextFile
        <4>1. f.n \notin tool.todo
          BY <1>1, <2>1, <3>2, OtherBuilt
        <4> QED BY <1>0, <1>8, <2>1, <3>2, <4>1 DEF Building
      <3> QED BY <3>1, <3>2
    <2>2. ASSUME NEW f \in File, tool.set = "resume", StaleResume(work.src, f)
          PROVE  tree[f] = Absent
      <3>1. f # NextFile /\ work.tree[f] = Absent
        BY <1>0, <1>1, <2>2 DEF Building, StaleResume
      <3> QED BY <1>8, <3>1
    <2>3. ASSUME NEW f \in File, tool.set = "enforce", NEW n \in Builds(work.src, "enforce"),
                 Replaced(work.src, n, f), n \notin tool.todo \ {NextFile.n}
          PROVE  tree[f] = Absent
      <3>1. f # NextFile
        BY <1>1, <2>3 DEF Replaced
      <3>2. work.tree[f] = Absent
        BY <1>0, <2>3 DEF Building
      <3> QED BY <1>8, <3>1, <3>2
    <2>4. tool.todo \ {NextFile.n} \subseteq Builds(work.src, tool.set)
      BY <1>0 DEF Building
    <2> QED BY <1>6, <1>7, <2>1, <2>2, <2>3, <2>4 DEF Building
  <1> QED BY <1>0, <1>5, <1>6, <1>9 DEF TypeOK

\* When the builder is done, its set is as it builds it.
LEMMA FinishedIsBuilt ==
  ASSUME TypeOK, Building
  PROVE  FinishedBuildIsComplete
  <1> SUFFICES ASSUME building, tool.todo = {}
               PROVE  work.tree = Rebuilt(work.src, work.key, tool.set, work.tree)
    BY DEF FinishedBuildIsComplete
  <1>1. AsBuilt(work.src, work.key, tool.set, work.tree)
    BY DEF Building, AsBuilt, StaleResume, Replaced
  <1> QED BY <1>1, ToolSet, RebuiltUnchanged

\* No builder runs when the developer acts, or once a tool has ended.
LEMMA NotBuilding == (tool = Idle \/ tool.name # "build") => Building
  BY DEF Building, building, Idle

LEMMA NotBuildingNext == (tool = Idle \/ tool.name # "build")' => Building'
  BY NotBuilding, PTL

LEMMA EditInd ==
  ASSUME TypeOK, NEW s \in Sets, NEW n \in Numbers,
         \/ AddVector(s, n)
         \/ \E slug \in SlugsOf(s) : RenameVector(s, n, slug)
         \/ \E version \in Versions : ReviseVector(s, n, version)
         \/ DropVector(s, n)
  PROVE  TypeOK' /\ Building' /\ UNCHANGED <<head, job>>
  <1>1. PICK entry \in Entry(s) \cup {Absent} : Edit(s, n, entry)
    <2>1. CASE AddVector(s, n)
      BY <2>1, EntryOfEdits DEF AddVector
    <2>2. CASE \E slug \in SlugsOf(s) : RenameVector(s, n, slug)
      BY <2>2, EntryOfEdits DEF RenameVector
    <2>3. CASE \E version \in Versions : ReviseVector(s, n, version)
      BY <2>3, EntryOfEdits DEF ReviseVector
    <2>4. CASE DropVector(s, n)
      BY <2>4 DEF DropVector
    <2> QED BY <2>1, <2>2, <2>3, <2>4
  <1>2. TypeOK'
    BY <1>1, EditTypeOK
  <1>3. Building' /\ UNCHANGED <<head, job>>
    BY <1>1, NotBuildingNext DEF Edit, Free
  <1> QED BY <1>2, <1>3

LEMMA KeysInd ==
  ASSUME TypeOK, WriteKey \/ WriteDocument
  PROVE  TypeOK' /\ Building'
  <1>1. work \in Repository /\ MAX_KEY \in Nat
    BY GateAssumption DEF TypeOK
  <1>2. CASE WriteKey
    <2>1. work'.key = work.key + 1 /\ work' = [work EXCEPT !.key = work.key + 1]
      BY <1>1, <1>2 DEF WriteKey, Repository
    <2>2. work.key + 1 \in 0..MAX_KEY
      BY <1>1, <1>2 DEF WriteKey, Repository
    <2>3. work' \in Repository
      BY <1>1, <2>1, <2>2 DEF Repository
    <2>4. tool' \in Tools /\ tool'.name # "build"
      BY <1>2, IdleTyped DEF WriteKey, Idle
    <2> QED BY <1>2, <2>3, <2>4, NotBuildingNext DEF WriteKey, TypeOK
  <1>3. CASE WriteDocument
    <2>1. work' \in Repository
      BY <1>1, <1>3 DEF WriteDocument, Repository
    <2> QED BY <1>3, <2>1, IdleTyped, NotBuildingNext DEF WriteDocument, TypeOK
  <1> QED BY <1>2, <1>3

LEMMA EndInd ==
  ASSUME TypeOK, RaiseKeyError \/ FinishBuild \/ Kill
  PROVE  TypeOK' /\ Building'
  <1>1. tool' = Idle /\ UNCHANGED <<work, head, job>>
    BY DEF RaiseKeyError, FinishBuild, Kill
  <1>2. counts' \in [{"edits", "commits", "killed"} -> Nat]
    <2>1. CASE Kill
      BY <2>1, CountedTyped DEF Kill
    <2>2. CASE RaiseKeyError \/ FinishBuild
      BY <2>2 DEF RaiseKeyError, FinishBuild, TypeOK
    <2> QED BY <2>1, <2>2
  <1> QED BY <1>1, <1>2, IdleTyped, NotBuildingNext DEF TypeOK

\* The commit has the tree that was recorded, and the job starts on it.
LEMMA CommitInd ==
  ASSUME TypeOK, NEW all \in BOOLEAN, NEW count \in NewCounts, Commit(all, count)
  PROVE  /\ TypeOK' /\ Building'
         /\ job'.verdict = "running" /\ job'.at = 1 /\ job'.tree = head'.tree
  <1>1. work \in Repository /\ head \in Repository /\ work.tree \in Tree /\ head.tree \in Tree
    BY DEF TypeOK, Repository
  <1>2. Recorded(all) \in Tree
    <2>1. [f \in File |-> IF head.tree[f] = Absent THEN Absent ELSE work.tree[f]] \in Tree
      BY <1>1 DEF Tree
    <2> QED BY <1>1, <2>1 DEF Recorded
  <1>3. count \in Nat
    <2>1. Cardinality(Selected(work.tree)) \in Nat
      <3>1. Selected(work.tree) \in SUBSET File
        BY DEF Selected, FilesOf
      <3> QED BY <3>1, Counting
    <2> QED BY <1>1, <2>1, CountOfNat DEF NewCounts, Repository
  <1>4. /\ head' = [work EXCEPT !.tree = Recorded(all), !.count = count]
        /\ work' = [work EXCEPT !.count = count]
        /\ job' = [verdict |-> "running", at |-> 1, tree |-> Recorded(all)]
        /\ tool = Idle /\ tool' = tool
    BY DEF Commit, Free
  <1>5. head' \in Repository /\ work' \in Repository /\ head'.tree = Recorded(all)
    BY <1>1, <1>2, <1>3, <1>4 DEF Repository
  <1>6. job' \in [verdict : Verdicts, at : 1..Len(Steps) + 1, tree : Tree]
    BY <1>2, <1>4 DEF Verdicts, Steps
  <1>7. counts' \in [{"edits", "commits", "killed"} -> Nat]
    BY CountedTyped DEF Commit
  <1> QED BY <1>4, <1>5, <1>6, <1>7, NotBuildingNext, IdleTyped DEF TypeOK

-----------------------------------------------------------------------------
\* The job, step by step.

LEMMA StepsAt ==
  /\ Len(Steps) = 8
  /\ \A i \in 1..8 : Steps[i].set \in Sets /\ Steps[i].do \in {"verify", "rebuild", "run"}
  /\ Steps[1] = [do |-> "verify", set |-> "native"]
  /\ Steps[2] = [do |-> "rebuild", set |-> "native"]
  /\ Steps[3] = [do |-> "verify", set |-> "enforce"]
  /\ Steps[4] = [do |-> "rebuild", set |-> "enforce"]
  /\ Steps[5] = [do |-> "rebuild", set |-> "resume"]
  /\ Steps[6] = [do |-> "verify", set |-> "interop"]
  /\ Steps[7] = [do |-> "rebuild", set |-> "interop"]
  /\ Steps[8] = [do |-> "run", set |-> "native"]
  <1>1. Len(Steps) = 8
    BY DEF Steps
  <1>2. /\ Steps[1] = [do |-> "verify", set |-> "native"]
        /\ Steps[2] = [do |-> "rebuild", set |-> "native"]
        /\ Steps[3] = [do |-> "verify", set |-> "enforce"]
        /\ Steps[4] = [do |-> "rebuild", set |-> "enforce"]
        /\ Steps[5] = [do |-> "rebuild", set |-> "resume"]
        /\ Steps[6] = [do |-> "verify", set |-> "interop"]
        /\ Steps[7] = [do |-> "rebuild", set |-> "interop"]
        /\ Steps[8] = [do |-> "run", set |-> "native"]
    BY DEF Steps
  <1>3. ASSUME NEW i \in 1..8
        PROVE  Steps[i].set \in Sets /\ Steps[i].do \in {"verify", "rebuild", "run"}
    <2>1. i \in {1, 2, 3, 4, 5, 6, 7, 8}
      OBVIOUS
    <2> QED BY <1>2, <2>1 DEF Sets
  <1> QED BY <1>1, <1>2, <1>3

LEMMA JobStepTypeOK ==
  ASSUME TypeOK, Judging, JobStep
  PROVE  TypeOK'
  <1> DEFINE step == Steps[job.at]
  <1>1. /\ job.at \in 1..8 /\ job.tree \in Tree
        /\ head.src \in Sources /\ head.key \in Nat
    BY StepsAt, GateAssumption DEF TypeOK, Judging, JobStep, Repository
  <1>2. step.set \in Sets
    BY <1>1, StepsAt
  <1>3. /\ job'.tree \in {job.tree, Rebuilt(head.src, head.key, step.set, job.tree)}
        /\ job'.at = job.at + 1 /\ job'.verdict \in {"failed", "passed", "running"}
        /\ job' = [verdict |-> job'.verdict, at |-> job'.at, tree |-> job'.tree]
    BY DEF JobStep
  <1> HIDE DEF step
  <1>4. job'.tree \in Tree
    BY <1>1, <1>2, <1>3, RebuiltTyped
  <1>5. job.at + 1 \in 1..Len(Steps) + 1
    BY <1>1, StepsAt
  <1>6. job' \in [verdict : Verdicts, at : 1..Len(Steps) + 1, tree : Tree]
    BY <1>3, <1>4, <1>5 DEF Verdicts
  <1> QED BY <1>6 DEF JobStep, TypeOK

\* Where a set is rebuilt, and where it is verified: before that.
LEMMA Positions ==
  ASSUME NEW i \in 1..8, NEW s \in Sets
  PROVE  /\ RebuildAt[s] \in 1..8
         /\ (Steps[i].do = "rebuild" /\ Steps[i].set = s) <=> (i = RebuildAt[s])
         /\ s # "resume" =>
              /\ VerifyAt[s] \in 1..8 /\ VerifyAt[s] < RebuildAt[s]
              /\ (Steps[i].do = "verify" /\ Steps[i].set = s) <=> (i = VerifyAt[s])
  <1>1. i \in {1, 2, 3, 4, 5, 6, 7, 8}
    OBVIOUS
  <1>2. /\ RebuildAt["native"] = 2 /\ RebuildAt["enforce"] = 4
        /\ RebuildAt["resume"] = 5 /\ RebuildAt["interop"] = 7
        /\ VerifyAt["native"] = 1 /\ VerifyAt["enforce"] = 3 /\ VerifyAt["interop"] = 6
    BY DEF RebuildAt, VerifyAt
  <1>3. s \in {"native", "enforce", "resume", "interop"}
    BY DEF Sets
  <1>4. CASE s = "native"
    BY <1>1, <1>2, <1>4, StepsAt
  <1>5. CASE s = "enforce"
    BY <1>1, <1>2, <1>5, StepsAt
  <1>6. CASE s = "resume"
    BY <1>1, <1>2, <1>6, StepsAt
  <1>7. CASE s = "interop"
    BY <1>1, <1>2, <1>7, StepsAt
  <1> QED BY <1>3, <1>4, <1>5, <1>6, <1>7

\* Where nothing happens to the commit and its job, what was judged stands.
LEMMA JudgingFrame ==
  ASSUME UNCHANGED <<head, job>>
  PROVE  (Judging => Judging') /\ (ReleasePasses => ReleasePasses')
  BY DEF Judging, ReleasePasses, Passed, RunVectors, Sound, RebuiltSoFar, VerifiedSoFar,
         FoundSoFar, FilesOf

\* A commit's job has judged nothing yet.
LEMMA JudgingStarts ==
  ASSUME TypeOK, job.verdict \in {"none", "running"}, job.at = 1, job.tree = head.tree
  PROVE  Judging /\ ReleasePasses
  <1>1. ASSUME NEW f \in File
        PROVE  RebuiltSoFar(f) /\ VerifiedSoFar(f)
    <2>1. f.set \in Sets
      BY DEF File
    <2>2. 1 <= RebuildAt[f.set] /\ ~(f.set # "resume" /\ 1 > VerifyAt[f.set])
      BY <2>1, Positions
    <2> QED BY <2>2 DEF RebuiltSoFar, VerifiedSoFar
  <1>2. \A s \in Sets : ~(1 > RebuildAt[s])
    BY Positions
  <1>3. \A s \in {"native", "interop"} : FoundSoFar(s)
    BY DEF FoundSoFar, VerifyAt
  <1> QED BY <1>1, <1>2, <1>3, StepsAt DEF Judging, ReleasePasses, Passed

LEMMA JudgingStartsNext ==
  (TypeOK /\ job.verdict \in {"none", "running"} /\ job.at = 1 /\ job.tree = head.tree)'
    => Judging' /\ ReleasePasses'
  BY JudgingStarts, PTL

\* What a step of the job that holds leaves.
LEMMA StepParts ==
  ASSUME TypeOK, Judging, JobStep, StepHolds(Steps[job.at])
  PROVE  LET step == Steps[job.at] IN
         /\ job.at \in 1..8 /\ step.set \in Sets /\ job'.at = job.at + 1 /\ head' = head
         /\ job'.verdict = IF job.at = 8 THEN "passed" ELSE "running"
         /\ step.do = "rebuild" => /\ Rebuild(step.set)
                                   /\ job'.tree = Rebuilt(head.src, head.key, step.set, job.tree)
         /\ step.do # "rebuild" => job'.tree = job.tree
         /\ step.do = "verify" => Verify(step.set)
         /\ step.do = "run" => RunVectors
  <1> DEFINE step == Steps[job.at]
  <1>1. job.at \in 1..8
    BY StepsAt DEF TypeOK, Judging, JobStep
  <1>2. step.set \in Sets
    BY <1>1, StepsAt
  <1>3. /\ step.do = "rebuild" => Rebuild(step.set)
        /\ step.do = "verify" => Verify(step.set)
        /\ step.do = "run" => RunVectors
    BY DEF StepHolds
  <1>4. /\ job'.at = job.at + 1 /\ head' = head
        /\ job'.verdict = IF job.at = 8 THEN "passed" ELSE "running"
        /\ job'.tree = IF step.do = "rebuild"
                       THEN Rebuilt(head.src, head.key, step.set, job.tree) ELSE job.tree
    BY StepsAt DEF JobStep
  <1> HIDE DEF step
  <1>5. /\ step.do = "rebuild" => job'.tree = Rebuilt(head.src, head.key, step.set, job.tree)
        /\ step.do # "rebuild" => job'.tree = job.tree
    BY <1>4
  <1> QED BY <1>1, <1>2, <1>3, <1>4, <1>5 DEF step

\* After a rebuild that git saw no difference of, the set's files are rebuilt from the commit.
LEMMA RebuildStep ==
  ASSUME TypeOK, Judging, JobStep, StepHolds(Steps[job.at]), NEW f \in File
  PROVE  RebuiltSoFar(f)'
  <1> DEFINE step == Steps[job.at]
             s == f.set
  <1>0. /\ job.at \in 1..8 /\ step.set \in Sets /\ job'.at = job.at + 1 /\ head' = head
        /\ s \in Sets
    BY StepParts DEF File
  <1>1. RebuiltSoFar(f)
    BY DEF Judging, JobStep
  <1>2. RebuildAt[s] \in 1..8
    BY <1>0, Positions
  <1>3. CASE job.at # RebuildAt[s]
    <2>1. job'.tree[f] = job.tree[f]
      <3>1. ~(step.do = "rebuild" /\ step.set = s)
        BY <1>0, <1>3, Positions
      <3>2. CASE step.do = "rebuild"
        <4>1. job'.tree = Rebuilt(head.src, head.key, step.set, job.tree)
          BY <3>2, StepParts
        <4> HIDE DEF step
        <4> QED BY <3>1, <3>2, <4>1, RebuiltFile
      <3>3. CASE step.do # "rebuild"
        BY <3>3, StepParts
      <3> QED BY <3>2, <3>3
    <2>2. job'.at <= RebuildAt[s] <=> job.at <= RebuildAt[s]
      BY <1>0, <1>2, <1>3
    <2> QED BY <1>0, <1>1, <2>1, <2>2 DEF RebuiltSoFar
  <1>4. CASE job.at = RebuildAt[s]
    <2>1. step.do = "rebuild" /\ step.set = s
      BY <1>0, <1>4, Positions
    <2>2. Rebuild(s) /\ job'.tree = Rebuilt(head.src, head.key, s, job.tree)
      BY <2>1, StepParts
    <2>3. job.tree[f] = head.tree[f] /\ ~(job'.at <= RebuildAt[s])
      BY <1>0, <1>1, <1>2, <1>4 DEF RebuiltSoFar
    <2>4. job'.tree[f] = Rebuilt(head.src, head.key, s, head.tree)[f]
      BY <2>2, <2>3 DEF Rebuilt
    <2>5. ASSUME head.tree[f] # Absent \/ s = "resume"
          PROVE  job'.tree[f] = head.tree[f]
      <3>1. Differences(s, job'.tree) = {}
        BY <2>2 DEF Rebuild
      <3>2. f \notin Differences(s, job'.tree)
        BY <3>1
      <3> HIDE DEF step
      <3> QED BY <1>0, <2>5, <3>2 DEF Differences, Diff, Status, Sets
    <2> QED BY <1>0, <2>3, <2>4, <2>5 DEF RebuiltSoFar
  <1> QED BY <1>3, <1>4

\* What was verified was the commit's file: its set was not rebuilt before.
LEMMA VerifyStep ==
  ASSUME TypeOK, Judging, JobStep, StepHolds(Steps[job.at]), NEW f \in File
  PROVE  VerifiedSoFar(f)'
  <1> DEFINE step == Steps[job.at]
             s == f.set
  <1>0. /\ job.at \in 1..8 /\ step.set \in Sets /\ job'.at = job.at + 1 /\ head' = head
        /\ s \in Sets
    BY StepParts DEF File
  <1> SUFFICES ASSUME s # "resume", head.tree[f] # Absent, job'.at > VerifyAt[s]
               PROVE  head.tree[f] # Partial /\ (s # "enforce" => head.tree[f].key = head.doc)
    BY <1>0 DEF VerifiedSoFar
  <1>1. RebuiltSoFar(f) /\ VerifiedSoFar(f)
    BY DEF Judging, JobStep
  <1>2. RebuildAt[s] \in 1..8 /\ VerifyAt[s] \in 1..8 /\ VerifyAt[s] < RebuildAt[s]
    BY <1>0, Positions
  <1>3. CASE job.at > VerifyAt[s]
    BY <1>1, <1>3 DEF VerifiedSoFar
  <1>4. CASE job.at = VerifyAt[s]
    <2>1. Verify(s)
      BY <1>0, <1>4, Positions, StepParts
    <2>2. job.tree[f] = head.tree[f]
      BY <1>0, <1>1, <1>2, <1>4 DEF RebuiltSoFar
    <2>3. Sound(f)
      BY <2>1, <2>2 DEF Verify, FilesOf
    <2> QED BY <2>2, <2>3 DEF Sound
  <1> QED BY <1>0, <1>2, <1>3, <1>4

LEMMA FoundStep ==
  ASSUME TypeOK, Judging, JobStep, StepHolds(Steps[job.at]), NEW s \in {"native", "interop"}
  PROVE  FoundSoFar(s)'
  <1>0. /\ job.at \in 1..8 /\ job'.at = job.at + 1 /\ head' = head
        /\ s \in Sets /\ s # "resume" /\ s # "enforce"
    BY StepParts DEF Sets
  <1>1. RebuildAt[s] \in 1..8 /\ VerifyAt[s] \in 1..8 /\ VerifyAt[s] < RebuildAt[s]
    BY <1>0, Positions
  <1>2. CASE job.at > VerifyAt[s]
    BY <1>0, <1>2 DEF Judging, JobStep, FoundSoFar, FilesOf
  <1>3. CASE job.at = VerifyAt[s]
    <2>1. Verify(s)
      BY <1>0, <1>3, Positions, StepParts
    <2>2. PICK f \in File : f.set = s /\ job.tree[f] # Absent
      BY <1>0, <2>1 DEF Verify, FilesOf
    <2>3. job.tree[f] = head.tree[f]
      BY <1>0, <1>1, <1>3, <2>2 DEF RebuiltSoFar, Judging, JobStep
    <2> QED BY <1>0, <2>2, <2>3 DEF FoundSoFar, FilesOf
  <1> QED BY <1>0, <1>1, <1>2, <1>3 DEF FoundSoFar

LEMMA JobStepJudging ==
  ASSUME TypeOK, Judging, JobStep
  PROVE  Judging'
  <1> DEFINE step == Steps[job.at]
  <1>1. CASE ~StepHolds(step)
    <2>1. job'.verdict = "failed"
      BY <1>1 DEF JobStep
    <2> QED BY <2>1 DEF Judging, Passed
  <1>2. CASE StepHolds(step)
    <2>1. /\ job.at \in 1..8 /\ step.set \in Sets /\ job'.at = job.at + 1 /\ head' = head
          /\ job'.verdict = IF job.at = 8 THEN "passed" ELSE "running"
      BY <1>2, StepParts
    <2>2. \A f \in File : RebuiltSoFar(f)' /\ VerifiedSoFar(f)'
      BY <1>2, RebuildStep, VerifyStep
    <2>6. \A s \in {"native", "interop"} : FoundSoFar(s)'
      BY <1>2, FoundStep
    <2>3. ASSUME NEW s \in Sets, job'.at > RebuildAt[s]
          PROVE  Named(head'.src, s) /\ Computed(head', s)
      <3>1. RebuildAt[s] \in 1..8
        BY Positions
      <3>2. CASE job.at > RebuildAt[s]
        BY <2>1, <3>2 DEF Judging, JobStep
      <3>3. CASE job.at = RebuildAt[s]
        <4>1. Rebuild(s)
          BY <1>2, <2>1, <3>3, Positions, StepParts
        <4> QED BY <2>1, <4>1 DEF Rebuild
      <3> QED BY <2>1, <2>3, <3>1, <3>2, <3>3
    <2>4. job'.verdict = "running" => job'.at <= Len(Steps)
      <3> HIDE DEF step
      <3> QED BY <2>1, StepsAt
    <2>5. ASSUME Passed'
          PROVE  job'.at > Len(Steps) /\ RunVectors'
      <3>1. job.at = 8
        BY <2>1, <2>5 DEF Passed
      <3>2. RunVectors /\ job'.tree = job.tree
        BY <1>2, <3>1, StepsAt, StepParts
      <3>3. RunVectors'
        BY <2>1, <3>2 DEF RunVectors, Sound
      <3> QED BY <2>1, <3>1, <3>3, StepsAt
    <2> HIDE DEF step
    <2> QED BY <2>2, <2>3, <2>4, <2>5, <2>6 DEF Judging
  <1> QED BY <1>1, <1>2

-----------------------------------------------------------------------------
\* A commit of exactly the built files.

\* What ReleasePasses asks of a commit.
Released ==
  /\ \A s \in Sets : Named(head.src, s)
  /\ \A s \in {"native", "interop"} : Builds(head.src, s) # {}
  /\ \A f \in File : head.tree[f] = IF IsBuilt(head.src, f)
                                    THEN Written(head.src, head.key, f) ELSE Absent
  /\ head.key = head.doc
  /\ head.count = CountOf(head.src)

LEMMA ReleasedTree ==
  ASSUME TypeOK, Released
  PROVE  /\ \A s \in Sets : Rebuilt(head.src, head.key, s, head.tree) = head.tree
         /\ \A f \in File :
              /\ head.tree[f] # Absent <=> IsBuilt(head.src, f)
              /\ head.tree[f] # Partial
              /\ head.tree[f] # Absent => head.tree[f].key = head.doc
  <1>1. head.src \in Sources /\ head.key \in Nat /\ head.tree \in Tree
    BY GateAssumption DEF TypeOK, Repository
  <1>2. ASSUME NEW s \in Sets
        PROVE  Rebuilt(head.src, head.key, s, head.tree) = head.tree
    <2>1. AsBuilt(head.src, head.key, s, head.tree)
      BY DEF Released, AsBuilt, StaleResume, Replaced
    <2> QED BY <1>1, <2>1, RebuiltUnchanged
  <1>3. ASSUME NEW f \in File
        PROVE  /\ head.tree[f] # Absent <=> IsBuilt(head.src, f)
               /\ head.tree[f] # Partial
               /\ head.tree[f] # Absent => head.tree[f].key = head.doc
    <2>1. CASE IsBuilt(head.src, f)
      <3>1. head.tree[f] = Written(head.src, head.key, f) /\ head.key = head.doc
        BY <2>1 DEF Released
      <3>2. Written(head.src, head.key, f) \in Content /\ Written(head.src, head.key, f).key = head.key
        BY <1>1, <2>1, WrittenIsContent
      <3> QED BY <2>1, <3>1, <3>2, NotContent
    <2>2. CASE ~IsBuilt(head.src, f)
      BY <2>2, NotContent DEF Released
    <2> QED BY <2>1, <2>2
  <1> QED BY <1>2, <1>3

\* The abstract specification speaks of the same files and the same builders.
LEMMA SameWords ==
  /\ R!File = File /\ R!Sets = Sets
  /\ \A src, s : R!Builds(src, s) = Builds(src, s) /\ (R!Named(src, s) <=> Named(src, s))
  /\ \A src, f : R!IsBuilt(src, f) <=> IsBuilt(src, f)
  /\ \A src, key, s, tree : R!Rebuilt(src, key, s, tree) = Rebuilt(src, key, s, tree)
  /\ \A S : R!Cardinality(S) = Cardinality(S)
  <1>1. R!File = File /\ R!Sets = Sets
    BY DEF R!File, File, R!Sets, Sets
  <1>2. \A src, s : R!Builds(src, s) = Builds(src, s)
    BY DEF R!Builds, Builds
  <1>3. \A src, s : R!Named(src, s) <=> Named(src, s)
    BY <1>2 DEF R!Named, Named
  <1>4. \A src, f : R!IsBuilt(src, f) <=> IsBuilt(src, f)
    BY <1>2 DEF R!IsBuilt, IsBuilt
  <1>5. ASSUME NEW src, NEW key, NEW s, NEW tree
        PROVE  R!Rebuilt(src, key, s, tree) = Rebuilt(src, key, s, tree)
    BY <1>1, <1>2, <1>4
       DEF R!Rebuilt, Rebuilt, R!Written, Written, R!StaleResume, StaleResume, R!Replaced, Replaced
  <1>6. \A S : R!Cardinality(S) = Cardinality(S)
    BY DEF R!Cardinality, Cardinality
  <1> QED BY <1>1, <1>2, <1>3, <1>4, <1>5, <1>6

\* What R!Passing asks of the last commit.
LEMMA PassingSays ==
  R!Passing(head) <=>
    /\ \A s \in Sets : Named(head.src, s)
    /\ (\E s \in {"native", "resume"} : Builds(head.src, s) # {}) => head.key = head.doc
    /\ \A f \in File :
         /\ head.tree[f] # Absent \/ f.set = "resume" =>
              head.tree[f] = Rebuilt(head.src, head.key, f.set, head.tree)[f]
         /\ head.tree[f] # Absent =>
              head.tree[f] # Partial /\ (f.set # "enforce" => head.tree[f].key = head.doc)
    /\ \A s \in {"native", "interop"} : \E f \in File : f.set = s /\ head.tree[f] # Absent
    /\ head.count = Cardinality(R!Counted(head))
  <1>1. (\A s \in R!Sets : R!Named(head.src, s)) <=> (\A s \in Sets : Named(head.src, s))
    BY SameWords
  <1>2. (\E s \in {"native", "resume"} : R!Builds(head.src, s) # {})
          <=> (\E s \in {"native", "resume"} : Builds(head.src, s) # {})
    BY SameWords
  <1>3. ASSUME NEW f \in File
        PROVE  /\ R!Held(head, f) <=> head.tree[f] # Absent
               /\ R!Rebuilt(head.src, head.key, f.set, head.tree)[f]
                    = Rebuilt(head.src, head.key, f.set, head.tree)[f]
    BY SameWords DEF R!Held
  <1>4. (\A s \in {"native", "interop"} : \E f \in R!File : f.set = s /\ R!Held(head, f)) <=>
        (\A s \in {"native", "interop"} : \E f \in File : f.set = s /\ head.tree[f] # Absent)
    BY <1>3, SameWords
  <1>5. (\A f \in R!File :
           /\ R!Held(head, f) \/ f.set = "resume" =>
                head.tree[f] = R!Rebuilt(head.src, head.key, f.set, head.tree)[f]
           /\ R!Held(head, f) =>
                head.tree[f] # Partial /\ (f.set # "enforce" => head.tree[f].key = head.doc))
        <=>
        (\A f \in File :
           /\ head.tree[f] # Absent \/ f.set = "resume" =>
                head.tree[f] = Rebuilt(head.src, head.key, f.set, head.tree)[f]
           /\ head.tree[f] # Absent =>
                head.tree[f] # Partial /\ (f.set # "enforce" => head.tree[f].key = head.doc))
    BY <1>3, SameWords
  <1>6. R!Cardinality(R!Counted(head)) = Cardinality(R!Counted(head))
    BY SameWords
  <1> QED BY <1>1, <1>2, <1>4, <1>5, <1>6 DEF R!Passing

\* The files a passing commit lets the runners find, rebuilt as they are by then.
LEMMA CountedFiles ==
  R!Counted(head) = {f \in File : f.set # "interop" /\ (IsBuilt(head.src, f) \/ head.tree[f] # Absent)}
  BY SameWords DEF R!Counted, R!Held

\* Every step of the job holds on a passing commit, whatever the steps before it made of the
\* checkout: they only wrote files the commit does not have.
LEMMA PassingHolds ==
  ASSUME TypeOK, Judging, R!Passing(head), job.verdict = "running"
  PROVE  StepHolds(Steps[job.at])
  <1> DEFINE step == Steps[job.at]
             s == step.set
  <1>0. job.at \in 1..8 /\ s \in Sets /\ step.do \in {"verify", "rebuild", "run"}
    <2>1. job.at \in 1..8
      BY StepsAt DEF TypeOK, Judging
    <2> QED BY <2>1, StepsAt
  <1>1. head.src \in Sources /\ head.key \in Nat /\ head.tree \in Tree /\ job.tree \in Tree
    BY GateAssumption DEF TypeOK, Repository
  <1>2. \A f \in File :
          /\ f.set \in Sets
          /\ job.at <= RebuildAt[f.set] \/ head.tree[f] # Absent \/ f.set = "resume" =>
               job.tree[f] = head.tree[f]
          /\ job.at > RebuildAt[f.set] =>
               job.tree[f] = Rebuilt(head.src, head.key, f.set, head.tree)[f]
    <2>1. \A f \in File : f.set \in Sets /\ RebuildAt[f.set] \in 1..8 /\ RebuiltSoFar(f)
      BY <1>0, Positions DEF Judging, File
    <2> QED BY <1>0, <2>1 DEF RebuiltSoFar
  <1>3. ASSUME NEW f \in File, head.tree[f] # Absent
        PROVE  Sound(f)
    BY <1>2, <1>3, PassingSays DEF Sound
  <1>4. ASSUME step.do = "verify"
        PROVE  Verify(s)
    <2>1. job.at <= RebuildAt[s]
      <3>1. job.at \in {1, 3, 6} /\ s # "resume"
        <4>1. job.at \in {1, 2, 3, 4, 5, 6, 7, 8}
          BY <1>0
        <4> QED BY <1>4, <4>1, StepsAt
      <3> HIDE DEF step
      <3> QED BY <1>0, <1>4, <3>1, Positions DEF step
    <2> HIDE DEF s
    <2>2. \A f \in File : f.set = s => job.tree[f] = head.tree[f]
      BY <1>2, <2>1
    <2>3. \A f \in FilesOf(s, job.tree) : Sound(f)
      BY <1>3, <2>2 DEF FilesOf
    <2>4. ASSUME s # "enforce"
          PROVE  FilesOf(s, job.tree) # {}
      <3>1. s \in {"native", "interop"}
        <4>1. job.at \in {1, 2, 3, 4, 5, 6, 7, 8}
          BY <1>0
        <4> QED BY <1>4, <2>4, <4>1, StepsAt DEF s
      <3>2. PICK f \in File : f.set = s /\ head.tree[f] # Absent
        BY <3>1, PassingSays
      <3> QED BY <2>2, <3>2 DEF FilesOf
    <2> QED BY <2>3, <2>4 DEF Verify
  <1>5. ASSUME step.do = "rebuild"
        PROVE  Rebuild(s)
    <2>1. job.at = RebuildAt[s]
      BY <1>0, <1>5, Positions
    <2> HIDE DEF s
    <2>2. Named(head.src, s) /\ Computed(head, s)
      BY <1>0, PassingSays DEF Computed
    <2>3. ASSUME NEW f \in File, head.tree[f] # Absent \/ f.set = "resume"
          PROVE  Rebuilt(head.src, head.key, s, job.tree)[f] = head.tree[f]
      <3>1. job.tree[f] = head.tree[f]
        BY <1>2, <2>3
      <3>2. CASE f.set = s
        <4>1. Rebuilt(head.src, head.key, s, job.tree)[f] = Rebuilt(head.src, head.key, s, head.tree)[f]
          BY <3>1 DEF Rebuilt
        <4> QED BY <2>3, <3>2, <4>1, PassingSays
      <3>3. CASE f.set # s
        BY <3>1, <3>3, RebuiltFile
      <3> QED BY <3>2, <3>3
    <2>4. Differences(s, Rebuilt(head.src, head.key, s, job.tree)) = {}
      BY <2>3 DEF Differences, Diff, Status
    <2> QED BY <2>2, <2>4 DEF Rebuild
  <1>6. ASSUME step.do = "run"
        PROVE  RunVectors
    <2>1. job.at = 8
      <3>1. job.at \in {1, 2, 3, 4, 5, 6, 7, 8}
        BY <1>0
      <3> QED BY <1>6, <3>1, StepsAt
    <2> HIDE DEF step, s
    <2>2. \A f \in File : f.set # "interop" =>
            job.tree[f] = Rebuilt(head.src, head.key, f.set, head.tree)[f]
      <3>1. \A t \in Sets : t # "interop" => 8 > RebuildAt[t]
        BY DEF Sets, RebuildAt
      <3> QED BY <1>2, <2>1, <3>1
    <2>3. ASSUME NEW f \in File, f.set # "interop"
          PROVE  job.tree[f] # Absent <=> IsBuilt(head.src, f) \/ head.tree[f] # Absent
      BY <1>1, <1>2, <2>2, <2>3, RebuiltFile, WrittenIsContent, NotContent
    <2>4. Selected(job.tree) = R!Counted(head)
      BY <1>2, <2>3, CountedFiles DEF Selected, FilesOf, Sets
    <2>5. ASSUME NEW f \in Selected(job.tree)
          PROVE  Sound(f)
      <3>1. f \in File /\ f.set # "interop" /\ (IsBuilt(head.src, f) \/ head.tree[f] # Absent)
        BY <2>4, CountedFiles
      <3>2. CASE head.tree[f] # Absent
        BY <1>3, <3>1, <3>2
      <3>3. CASE IsBuilt(head.src, f)
        <4>1. job.tree[f] = Written(head.src, head.key, f)
          BY <2>2, <3>1, <3>3, RebuiltFile
        <4>2. job.tree[f] # Partial /\ job.tree[f].key = head.key
          BY <1>1, <3>1, <3>3, <4>1, WrittenIsContent, NotContent
        <4>3. f.set # "enforce" => head.key = head.doc
          <5>1. f.set \in {"native", "resume", "enforce"} /\ f.n \in Builds(head.src, f.set)
            BY <1>2, <3>1, <3>3 DEF Sets, IsBuilt
          <5> QED BY <5>1, PassingSays
        <4> QED BY <4>2, <4>3 DEF Sound
      <3> QED BY <3>1, <3>2, <3>3
    <2>6. Cardinality(Selected(job.tree)) = head.count
      BY <2>4, PassingSays
    <2> QED BY <2>5, <2>6 DEF RunVectors
  <1> QED BY <1>0, <1>4, <1>5, <1>6 DEF StepHolds

\* A commit of exactly the built files is one of the passing commits.
LEMMA ReleasedPassing ==
  ASSUME TypeOK, Released
  PROVE  R!Passing(head)
  <1>1. head.src \in Sources
    BY DEF TypeOK, Repository
  <1>2. ASSUME NEW s \in {"native", "interop"}
        PROVE  \E f \in File : f.set = s /\ head.tree[f] # Absent
    <2>1. PICK n \in Builds(head.src, s) : TRUE
      BY DEF Released
    <2>2. s \in Sets /\ head.src[s][n].slug # NoName
      BY <2>1 DEF Released, Named, Sets
    <2>3. PICK f \in File : f.set = s /\ IsBuilt(head.src, f)
      BY <1>1, <2>1, <2>2, BuiltFile
    <2> QED BY <2>3, ReleasedTree
  <1>3. \A f \in File : head.tree[f] = Rebuilt(head.src, head.key, f.set, head.tree)[f]
    BY ReleasedTree DEF File
  <1>4. R!Counted(head) = {f \in File : f.set # "interop" /\ IsBuilt(head.src, f)}
    BY ReleasedTree, CountedFiles
  <1>5. head.count = Cardinality(R!Counted(head))
    BY <1>4 DEF Released, CountOf
  <1> QED BY <1>2, <1>3, <1>5, ReleasedTree, PassingSays DEF Released

LEMMA JobStepReleases ==
  ASSUME TypeOK, Judging, JobStep
  PROVE  ReleasePasses'
  <1> SUFFICES ASSUME job'.verdict = "failed", Released PROVE FALSE
    BY DEF ReleasePasses, Released, JobStep
  <1>1. StepHolds(Steps[job.at]) /\ job.verdict = "running"
    BY ReleasedPassing, PassingHolds DEF JobStep
  <1> QED BY <1>1, StepParts

-----------------------------------------------------------------------------
\* The invariant, and what follows from it.

LEMMA InitIInv == Init => IInv
  <1> SUFFICES ASSUME Init PROVE IInv
    OBVIOUS
  <1>1. TypeOK
    BY InitTypeOK
  <1>2. Building
    BY NotBuilding DEF Init
  <1>3. Judging /\ ReleasePasses
    <2>1. job.verdict = "none" /\ job.at = 1 /\ job.tree = head.tree
      BY DEF Init
    <2> QED BY <1>1, <2>1, JudgingStarts
  <1> QED BY <1>1, <1>2, <1>3 DEF IInv

LEMMA NextIInv == IInv /\ [Next]_vars => IInv'
  <1> SUFFICES ASSUME IInv, [Next]_vars PROVE IInv'
    OBVIOUS
  <1>0. TypeOK /\ Building /\ Judging /\ ReleasePasses
    BY DEF IInv
  <1>1. ASSUME TypeOK', Building', UNCHANGED <<head, job>>
        PROVE  IInv'
    BY <1>0, <1>1, JudgingFrame DEF IInv
  <1>2. ASSUME NEW s \in Sets, NEW n \in Numbers,
               \/ AddVector(s, n)
               \/ \E slug \in SlugsOf(s) : RenameVector(s, n, slug)
               \/ \E version \in Versions : ReviseVector(s, n, version)
               \/ DropVector(s, n)
        PROVE  IInv'
    BY <1>0, <1>1, <1>2, EditInd
  <1>3. ASSUME NEW f \in File, DeleteFile(f)
        PROVE  IInv'
    <2>1. Building' /\ UNCHANGED <<head, job>>
      BY <1>3, NotBuildingNext DEF DeleteFile, Free
    <2> QED BY <1>0, <1>1, <1>3, <2>1, DeleteFileTypeOK
  <1>4. ASSUME NEW all \in BOOLEAN, NEW count \in NewCounts, Commit(all, count)
        PROVE  IInv'
    <2>1. /\ TypeOK' /\ Building'
          /\ job'.verdict = "running" /\ job'.at = 1 /\ job'.tree = head'.tree
      BY <1>0, <1>4, CommitInd
    <2>2. Judging' /\ ReleasePasses'
      BY <2>1, JudgingStartsNext
    <2> QED BY <2>1, <2>2 DEF IInv
  <1>5. CASE WriteKey \/ WriteDocument
    <2>1. UNCHANGED <<head, job>>
      BY <1>5 DEF WriteKey, WriteDocument
    <2> QED BY <1>0, <1>1, <1>5, <2>1, KeysInd
  <1>6. ASSUME NEW s \in Sets, StartBuild(s)
        PROVE  IInv'
    <2>1. UNCHANGED <<head, job>>
      BY <1>6 DEF StartBuild
    <2> QED BY <1>0, <1>1, <1>6, <2>1, StartBuildInd
  <1>7. CASE OpenFile
    <2>1. UNCHANGED <<head, job>>
      BY <1>7 DEF OpenFile
    <2> QED BY <1>0, <1>1, <1>7, <2>1, OpenFileInd
  <1>8. CASE CloseFile
    <2>1. UNCHANGED <<head, job>>
      BY <1>8 DEF CloseFile
    <2> QED BY <1>0, <1>1, <1>8, <2>1, CloseFileInd
  <1>9. CASE RaiseKeyError \/ FinishBuild \/ Kill
    <2>1. UNCHANGED <<head, job>>
      BY <1>9 DEF RaiseKeyError, FinishBuild, Kill
    <2> QED BY <1>0, <1>1, <1>9, <2>1, EndInd
  <1>10. CASE JobStep
    <2>1. TypeOK' /\ Judging' /\ ReleasePasses'
      BY <1>0, <1>10, JobStepTypeOK, JobStepJudging, JobStepReleases
    <2>2. Building'
      BY <1>0, <1>10 DEF JobStep, Building, building, NextFile
    <2> QED BY <2>1, <2>2 DEF IInv
  <1>11. CASE UNCHANGED vars
    <2>1. TypeOK'
      BY <1>0, <1>11 DEF vars, TypeOK
    <2>2. Building' /\ UNCHANGED <<head, job>>
      BY <1>0, <1>11 DEF vars, Building, building, NextFile
    <2> QED BY <1>1, <2>1, <2>2
  <1>12. CASE Develop
    BY <1>2, <1>3, <1>4, <1>12 DEF Develop
  <1>13. CASE Tool
    BY <1>5, <1>6, <1>7, <1>8, <1>9, <1>13 DEF Tool
  <1> QED BY <1>10, <1>11, <1>12, <1>13 DEF Next

\* Where the job has passed, every set was rebuilt, and git saw no difference.
LEMMA PassedFile ==
  ASSUME IInv, Passed, NEW f \in File
  PROVE  /\ f.set \in Sets
         /\ job.tree[f] = Rebuilt(head.src, head.key, f.set, head.tree)[f]
         /\ head.tree[f] # Absent \/ f.set = "resume" => job.tree[f] = head.tree[f]
         /\ IsBuilt(head.src, f) => /\ job.tree[f] = Written(head.src, head.key, f)
                                    /\ job.tree[f] \in Content /\ job.tree[f].key = head.key
         /\ f.set # "resume" /\ head.tree[f] # Absent => head.tree[f] # Partial
  <1>1. /\ TypeOK /\ f.set \in Sets /\ job.at > Len(Steps) /\ job.at \in Int
        /\ RebuiltSoFar(f) /\ VerifiedSoFar(f)
    BY DEF IInv, TypeOK, Judging, Passed, File
  <1>2. /\ ~(job.at <= RebuildAt[f.set])
        /\ f.set # "resume" => job.at > VerifyAt[f.set]
    BY <1>1, StepsAt, Positions
  <1>3. head.src \in Sources /\ head.key \in Nat
    BY <1>1, GateAssumption DEF TypeOK, Repository
  <1>4. job.tree[f] = Rebuilt(head.src, head.key, f.set, head.tree)[f]
    BY <1>1, <1>2 DEF RebuiltSoFar
  <1>5. IsBuilt(head.src, f) => job.tree[f] = Written(head.src, head.key, f)
    BY <1>4, RebuiltFile
  <1> QED BY <1>1, <1>2, <1>3, <1>4, <1>5, WrittenIsContent DEF RebuiltSoFar, VerifiedSoFar

LEMMA PassedSets ==
  ASSUME IInv, Passed, NEW s \in Sets
  PROVE  Named(head.src, s) /\ Computed(head, s)
  <1>1. job.at > Len(Steps) /\ job.at \in Int
    BY DEF IInv, TypeOK, Judging, Passed
  <1>2. job.at > RebuildAt[s]
    BY <1>1, StepsAt, Positions
  <1> QED BY <1>2 DEF IInv, Judging, Passed

LEMMA PassedKeys ==
  ASSUME IInv, Passed, NEW s \in {"native", "resume"}, Builds(head.src, s) # {}
  PROVE  head.key = head.doc
  <1>0. s \in Sets
    BY DEF Sets
  <1>1. CASE s = "resume"
    BY <1>0, <1>1, PassedSets DEF Computed
  <1>2. CASE s = "native"
    <2>1. PICK n \in Builds(head.src, s) : TRUE
      OBVIOUS
    <2>2. head.src[s][n].slug # NoName
      BY <1>0, <2>1, PassedSets DEF Named
    <2>3. PICK f \in File : f.set = s /\ IsBuilt(head.src, f)
      BY <1>0, <2>1, <2>2, BuiltFile DEF IInv, TypeOK, Repository
    <2>4. job.tree[f] # Absent /\ job.tree[f].key = head.key
      BY <2>3, PassedFile, NotContent
    <2>5. f \in Selected(job.tree)
      BY <1>2, <2>3, <2>4 DEF Selected, FilesOf
    <2>6. Sound(f)
      BY <2>5 DEF IInv, Judging, RunVectors
    <2> QED BY <1>2, <2>3, <2>4, <2>6 DEF Sound
  <1> QED BY <1>1, <1>2

LEMMA IInvReproducible == IInv => PassedIsReproducible
  <1> SUFFICES ASSUME IInv, Passed PROVE PassedIsReproducible
    BY DEF PassedIsReproducible
  <1>1. ASSUME NEW f \in File
        PROVE  /\ IsBuilt(head.src, f) => head.tree[f] = Absent \/ Agrees(f)
               /\ head.tree[f] # Partial
               /\ f.set = "resume" => (head.tree[f] # Absent <=> IsBuilt(head.src, f))
               /\ f.set = "enforce" /\ f.n \in Builds(head.src, "enforce") /\ head.tree[f] # Absent
                    => IsBuilt(head.src, f)
    <2>1. IsBuilt(head.src, f) => head.tree[f] = Absent \/ Agrees(f)
      BY PassedFile DEF Agrees
    <2>2. ASSUME f.set = "resume"
          PROVE  IF IsBuilt(head.src, f) THEN head.tree[f] \in Content ELSE head.tree[f] = Absent
      BY <2>2, PassedFile, RebuiltFile
    <2>3. head.tree[f] # Partial
      BY <2>2, PassedFile, NotContent
    <2>4. ASSUME f.set = "enforce", f.n \in Builds(head.src, "enforce"), ~IsBuilt(head.src, f)
          PROVE  head.tree[f] = Absent
      BY <2>4, PassedFile, RebuiltFile
    <2> QED BY <2>1, <2>2, <2>3, <2>4, NotContent
  <1> QED BY <1>1, PassedKeys, PassedSets DEF PassedIsReproducible

LEMMA IInvCount == IInv => CountExposesStale
  <1> SUFFICES ASSUME IInv, Passed, head.count = CountOf(head.src),
                      NEW f \in File, f.set # "interop", head.tree[f] # Absent
               PROVE  IsBuilt(head.src, f)
    BY DEF CountExposesStale
  <1> DEFINE B == {g \in File : g.set # "interop" /\ IsBuilt(head.src, g)}
             S == Selected(job.tree)
  <1>1. S \in SUBSET File /\ Cardinality(S) = head.count
    BY DEF Selected, FilesOf, IInv, Judging, RunVectors
  <1>2. B \in SUBSET S
    <2>1. ASSUME NEW g \in B
          PROVE  g \in S
      <3>1. g.set \in {"native", "enforce", "resume"} /\ job.tree[g] # Absent
        BY PassedFile, NotContent DEF Sets
      <3> QED BY <3>1 DEF Selected, FilesOf
    <2> QED BY <2>1
  <1>3. Cardinality(B) = Cardinality(S)
    BY <1>1 DEF CountOf
  <1>4. f \in S
    BY PassedFile DEF Sets, Selected, FilesOf
  <1> HIDE DEF B, S
  <1>5. B = S
    BY <1>1, <1>2, <1>3, Counting
  <1> QED BY <1>4, <1>5 DEF B

-----------------------------------------------------------------------------
\* The job implements the one judgement.

\* A commit that the job passed is a passing one.
LEMMA PassedPassing ==
  ASSUME IInv, Passed
  PROVE  R!Passing(head)
  <1>0. /\ job.at > Len(Steps) /\ job.at \in Int /\ RunVectors /\ head.key \in Nat
        /\ head.src \in Sources
        /\ \A f \in File : VerifiedSoFar(f)
        /\ \A s \in {"native", "interop"} : FoundSoFar(s)
    BY GateAssumption DEF IInv, TypeOK, Repository, Judging, Passed
  <1>1. \A s \in Sets : s # "resume" => job.at > VerifyAt[s]
    BY <1>0, StepsAt, Positions
  <1>2. ASSUME NEW f \in File
        PROVE  /\ head.tree[f] # Absent \/ f.set = "resume" =>
                    head.tree[f] = Rebuilt(head.src, head.key, f.set, head.tree)[f]
               /\ head.tree[f] # Absent =>
                    head.tree[f] # Partial /\ (f.set # "enforce" => head.tree[f].key = head.doc)
    <2>1. head.tree[f] # Absent \/ f.set = "resume" =>
            head.tree[f] = Rebuilt(head.src, head.key, f.set, head.tree)[f]
      BY PassedFile
    <2>2. head.tree[f] # Partial
      BY IInvReproducible DEF PassedIsReproducible
    <2>3. ASSUME head.tree[f] # Absent, f.set # "enforce"
          PROVE  head.tree[f].key = head.doc
      <3>1. CASE f.set = "resume"
        <4>1. IsBuilt(head.src, f)
          BY <2>3, <3>1, IInvReproducible DEF PassedIsReproducible
        <4>2. head.tree[f] = Written(head.src, head.key, f)
          BY <2>3, <4>1, IInvReproducible DEF PassedIsReproducible, Agrees
        <4>3. head.tree[f].key = head.key
          BY <1>0, <4>1, <4>2, WrittenIsContent
        <4>4. Builds(head.src, "resume") # {}
          BY <3>1, <4>1 DEF IsBuilt
        <4> QED BY <4>3, <4>4, PassedKeys
      <3>2. CASE f.set # "resume"
        BY <1>0, <1>1, <2>3, <3>2 DEF VerifiedSoFar, File
      <3> QED BY <3>1, <3>2
    <2> QED BY <2>1, <2>2, <2>3
  <1>3. ASSUME NEW s \in {"native", "interop"}
        PROVE  \E f \in File : f.set = s /\ head.tree[f] # Absent
    BY <1>0, <1>1 DEF FoundSoFar, FilesOf, Sets
  <1>4. Selected(job.tree) = R!Counted(head)
    <2>1. ASSUME NEW f \in File
          PROVE  job.tree[f] # Absent <=> IsBuilt(head.src, f) \/ head.tree[f] # Absent
      <3>1. CASE IsBuilt(head.src, f)
        BY <3>1, PassedFile, NotContent
      <3>2. CASE ~IsBuilt(head.src, f)
        <4>1. job.tree[f] \in {head.tree[f], Absent}
          BY <3>2, PassedFile, RebuiltFile
        <4> QED BY <3>2, <4>1, PassedFile
      <3> QED BY <3>1, <3>2
    <2> QED BY <2>1, CountedFiles DEF Selected, FilesOf, Sets, File
  <1>5. head.count = Cardinality(R!Counted(head))
    BY <1>0, <1>4 DEF RunVectors
  <1>6. \A s \in Sets : Named(head.src, s)
    BY PassedSets
  <1>7. (\E s \in {"native", "resume"} : Builds(head.src, s) # {}) => head.key = head.doc
    BY PassedKeys
  <1> QED BY <1>2, <1>3, <1>5, <1>6, <1>7, PassingSays

LEMMA PassedPassingNext == (IInv /\ Passed)' => R!Passing(head)'
  <1>1. IInv /\ Passed => R!Passing(head)
    BY PassedPassing
  <1> QED BY <1>1, PTL

LEMMA RepositoryIsCommits == Repository \subseteq R!Commits
  <1>1. R!Tree = Tree
    BY SameWords DEF R!Tree, Tree, R!Content, Content
  <1>2. R!Sources = Sources
    BY SameWords DEF R!Sources, Sources, R!Entry, Entry, R!SlugsOf, SlugsOf
  <1>3. 0..MAX_KEY \subseteq Nat
    BY GateAssumption
  <1> QED BY <1>1, <1>2, <1>3 DEF R!Commits, Repository

\* A step of the job is the judgement if it ends the job, and nothing otherwise.
LEMMA JobStepImplements ==
  ASSUME IInv, IInv', JobStep
  PROVE  head' = head /\ (R!Judge \/ job'.verdict = job.verdict)
  <1>0. head' = head /\ job.verdict = "running" /\ TypeOK /\ Judging
    BY DEF JobStep, IInv
  <1>1. CASE ~StepHolds(Steps[job.at])
    <2>1. job'.verdict = "failed"
      BY <1>1 DEF JobStep
    <2>2. ~R!Passing(head)
      BY <1>0, <1>1, PassingHolds
    <2> QED BY <1>0, <2>1, <2>2 DEF R!Judge
  <1>2. CASE StepHolds(Steps[job.at])
    <2>1. job'.verdict = IF job.at = 8 THEN "passed" ELSE "running"
      BY <1>0, <1>2, StepParts
    <2>2. CASE job'.verdict = "passed"
      <3>1. Passed'
        BY <2>2 DEF Passed
      <3>2. R!Passing(head)'
        BY <3>1, PassedPassingNext
      <3>3. R!Passing(head)
        BY <1>0, <3>2
      <3> QED BY <1>0, <2>2, <3>3 DEF R!Judge
    <2> QED BY <1>0, <2>1, <2>2
  <1> QED BY <1>1, <1>2

LEMMA StepImplements ==
  ASSUME IInv, IInv', [Next]_vars
  PROVE  [R!Commit \/ R!Judge]_<<head, job.verdict>>
  <1>1. CASE JobStep
    BY <1>1, JobStepImplements
  <1>2. ASSUME NEW all \in BOOLEAN, NEW count \in NewCounts, Commit(all, count)
        PROVE  R!Commit
    <2>1. job.verdict # "running" /\ job'.verdict = "running"
      BY <1>2 DEF Commit, Free
    <2>2. head' \in R!Commits
      BY RepositoryIsCommits DEF IInv, TypeOK
    <2> QED BY <2>1, <2>2 DEF R!Commit
  <1>3. ASSUME NEW s \in Sets, NEW n \in Numbers,
               \/ AddVector(s, n)
               \/ \E slug \in SlugsOf(s) : RenameVector(s, n, slug)
               \/ \E version \in Versions : ReviseVector(s, n, version)
               \/ DropVector(s, n)
        PROVE  UNCHANGED <<head, job>>
    BY <1>3, EditInd DEF IInv
  <1>4. ASSUME NEW f \in File, DeleteFile(f)
        PROVE  UNCHANGED <<head, job>>
    BY <1>4 DEF DeleteFile
  <1>5. CASE Tool \/ UNCHANGED vars
    BY <1>5 DEF Tool, vars, WriteKey, WriteDocument, StartBuild, OpenFile, CloseFile,
         RaiseKeyError, FinishBuild, Kill
  <1> QED BY <1>1, <1>2, <1>3, <1>4, <1>5 DEF Next, Develop

\* Every state a run of the developer, the tools and the job can reach has the invariant: a
\* builder has written what it will leave (Building), the job's tree is the commit's with the
\* sets rebuilt so far in place (Judging).
THEOREM GateInvariant == Spec => []IInv
  BY InitIInv, NextIInv, PTL DEF Spec

\* The variables keep their types: no builder, killed where it may be, and no step of the job
\* leaves anything in the tree but a vector, a half written file or none.
THEOREM GateTypeOK == Spec => []TypeOK
  <1>1. IInv => TypeOK
    BY DEF IInv
  <1> QED BY <1>1, GateInvariant, PTL

\* What a commit that passes conformance.yml holds of a built vector is what its sources and
\* its key say, however many vectors there are and however the working tree came about.
THEOREM GateReproducible == Spec => []PassedIsReproducible
  BY IInvReproducible, GateInvariant, PTL

\* With the right count in the workflow a commit that passes has no vector that nobody builds
\* in the directories the runners read: the files selected are counted, for any number.
THEOREM GateCount == Spec => []CountExposesStale
  BY IInvCount, GateInvariant, PTL

\* The job fails no commit that holds exactly what the builders write.
THEOREM GateReleases == Spec => []ReleasePasses
  <1>1. IInv => ReleasePasses
    BY DEF IInv
  <1> QED BY <1>1, GateInvariant, PTL

\* A builder that gets to its end leaves what a rebuild of its set would leave, whatever it
\* started from.
THEOREM GateFinished == Spec => []FinishedBuildIsComplete
  <1>1. IInv => FinishedBuildIsComplete
    BY FinishedIsBuilt DEF IInv
  <1> QED BY <1>1, GateInvariant, PTL

\* The job of conformance.yml is one judgement of the commit: however its eight steps rewrite
\* the checkout on the way, a commit passes exactly if a rebuild leaves no difference that git
\* shows, what is there is whole and signed with the published key, and the count is right;
\* no commit is judged twice or differently.
THEOREM Implements == Spec => ImplementsRelease
  <1>1. Init => R!Init
    BY InitTypeOK, RepositoryIsCommits DEF Init, TypeOK, R!Init
  <1>2. IInv /\ IInv' /\ [Next]_vars => [R!Commit \/ R!Judge]_<<head, job.verdict>>
    BY StepImplements
  <1> QED BY <1>1, <1>2, GateInvariant, PTL DEF Spec, ImplementsRelease, R!Spec
=============================================================================
