--------------------------- MODULE LibraryProofs ---------------------------
(* Theorems about the library below the transports, for every value of the *)
(* constants: the module loader, PubSub, Later and Callback.               *)
EXTENDS Loader, Callback, PubSub, Later, FiniteSetTheorems, SequenceTheorems,
        WellFoundedInduction, TLAPS

---------------------------------------------------------------------------
(* Lemmas about Sublist *)

(* What is left of a list holds its entries, and each place at most once. *)
LEMMA SublistEntries ==
  ASSUME NEW S, NEW list \in Seq(S), NEW places \in SUBSET (1..Len(list))
  PROVE  /\ Sublist(list, places) \in Seq(S)
         /\ \A k \in 1..Len(Sublist(list, places)) :
              \E i \in places : /\ Rank(places, i) = k
                                /\ Sublist(list, places)[k] = list[i]
<1> DEFINE n == Cardinality(places)
           rank == [i \in places |-> Rank(places, i)]
<1>0. \A i \in places : i \in Nat
  BY LenProperties
<1>1. IsFiniteSet(places) /\ n \in Nat
  <2>1. IsFiniteSet(1..Len(list))
    BY FS_Interval, LenProperties
  <2> QED
    BY <2>1, FS_Subset, FS_CardinalityType
<1>2. \A i \in places : /\ IsFiniteSet({j \in places : j <= i})
                        /\ Rank(places, i) \in 1..n
  <2> SUFFICES ASSUME NEW i \in places
               PROVE  /\ IsFiniteSet({j \in places : j <= i})
                      /\ Rank(places, i) \in 1..n
    OBVIOUS
  <2> DEFINE upTo == {j \in places : j <= i}
  <2>1. IsFiniteSet(upTo) /\ Cardinality(upTo) <= n /\ Cardinality(upTo) \in Nat
    BY <1>1, FS_Subset, FS_CardinalityType, upTo \in SUBSET places
  <2>2. i \in upTo
    BY <1>0
  <2>3. Cardinality(upTo) # 0
    BY <2>1, <2>2, FS_EmptySet
  <2> QED
    BY <1>1, <2>1, <2>3 DEF Rank
<1>3. ASSUME NEW i \in places, NEW j \in places, i < j
      PROVE  Rank(places, i) < Rank(places, j)
  <2> DEFINE first == {k \in places : k <= i}
             second == {k \in places : k <= j}
  <2>0. i \in Nat /\ j \in Nat /\ i < j
    BY <1>0, <1>3
  <2>1. first \in SUBSET second /\ j \in second /\ j \notin first
    <3>1. ASSUME NEW k \in first PROVE k \in second
      BY <1>0, <2>0
    <3>2. j \in second /\ j \notin first
      BY <2>0
    <3> QED
      BY <3>1, <3>2
  <2>2. IsFiniteSet(first) /\ IsFiniteSet(second)
    BY <1>2
  <2>3. /\ Cardinality(first) <= Cardinality(second)
        /\ Cardinality(first) # Cardinality(second)
    BY <2>1, <2>2, FS_Subset
  <2>4. Cardinality(first) \in Nat /\ Cardinality(second) \in Nat
    BY <2>2, FS_CardinalityType
  <2> QED
    BY <2>3, <2>4 DEF Rank
<1>4. rank \in Injection(places, 1..n)
  <2>1. rank \in [places -> 1..n]
    BY <1>2
  <2>2. ASSUME NEW i \in places, NEW j \in places, rank[i] = rank[j] PROVE i = j
    <3>1. Rank(places, i) = Rank(places, j) /\ Rank(places, i) \in Nat
      <4>1. rank[i] = Rank(places, i) /\ rank[j] = Rank(places, j)
        OBVIOUS
      <4>2. Rank(places, i) \in 1..n
        BY <1>2
      <4>3. Rank(places, i) \in Nat
        BY <1>1, <4>2
      <4>4. Rank(places, i) = Rank(places, j)
        BY <2>2, <4>1, Zenon
      <4> QED
        BY <4>3, <4>4
    <3>2. i \in Nat /\ j \in Nat /\ (i < j \/ j < i \/ i = j)
      BY <1>0
    <3>3. ~(i < j) /\ ~(j < i)
      BY <1>3, <3>1
    <3> QED
      BY <3>2, <3>3
  <2> QED
    BY <2>1, <2>2 DEF Injection, IsInjective
<1>5. rank \in Surjection(places, 1..n)
  <2>1. IsFiniteSet(1..n) /\ Cardinality(1..n) = n
    BY <1>1, FS_Interval
  <2> QED
    BY <1>4, <2>1, FS_Injection
<1>6. \A k \in 1..n : \E i \in places : Rank(places, i) = k
  BY <1>5 DEF Surjection
<1>7. \A k \in 1..n :
        LET i == CHOOSE i \in places : Rank(places, i) = k
        IN  i \in places /\ Rank(places, i) = k
  BY <1>6
<1>8. Sublist(list, places) \in [1..n -> S]
  <2>1. \A i \in places : list[i] \in S
    BY ElementOfSeq
  <2> QED
    BY <1>7, <2>1 DEF Sublist
<1>9. Sublist(list, places) \in Seq(S) /\ Len(Sublist(list, places)) = n
  BY <1>1, <1>8, SeqDef, LenProperties
<1> QED
  BY <1>7, <1>9 DEF Sublist

(* A list without repetitions has none after a removal. *)
LEMMA SublistOnce ==
  ASSUME NEW S, NEW list \in Seq(S), NEW places \in SUBSET (1..Len(list)),
         \A i, j \in 1..Len(list) : list[i] = list[j] => i = j
  PROVE  \A k, l \in 1..Len(Sublist(list, places)) :
           Sublist(list, places)[k] = Sublist(list, places)[l] => k = l
BY SublistEntries
---------------------------------------------------------------------------
(* The module loader *)

States == {"unknown", "first", "final"}
Entry == [path : Path, own : {"first", "final"}, left : Int]

SearchTyped ==
  /\ roots \in Seq(Roots)
  /\ cache \in [Packages -> Roots \cup {NoRoot}]
  /\ fetched \subseteq Path
RunTyped ==
  /\ modules \in [Path -> States]
  /\ stack \in Seq(Entry)
  /\ ran \in Seq(Path)
  /\ held \subseteq (Path \cup {App}) \X Path \X States

(* A module is registered when its code is started, and only then. *)
Registered == \A p \in Path : modules[p] # "unknown" <=> p \in Started

(* Of the modules that are running an inner one was started later, and a   *)
(* module that was started is running or has ended, in one of two ways.    *)
InnerLater ==
  \A i, j \in 1..Len(stack) : i < j => StartedBefore(stack[j].path, stack[i].path)
StartedEnds ==
  /\ Started = Running \cup done \cup threw
  /\ Running \cap (done \cup threw) = {}

(* Whoever is bound to the exports of a module that is still running runs  *)
(* inside it, or did, or is that module.                                   *)
BoundInside ==
  \A h \in held :
    /\ h[1] \in Started \cup {App} /\ h[2] \in Started
    /\ h[2] \in Running =>
         h[1] # App /\ (h[1] = h[2] \/ StartedBefore(h[2], h[1]))

BoundToFinal ==
  \A h \in held :
    h[2] \in done /\ (h[1] = App \/ StartedBefore(h[1], h[2]))
      => h[3] = modules[h[2]]

RunInv ==
  /\ RunTyped /\ RunsOnce /\ Registered /\ InnerLater /\ StartedEnds
  /\ BoundInside /\ BoundToFinal
SearchInv == SearchTyped /\ PackageFromOneRoot
LoaderInv == SearchInv /\ RunInv

LEMMA LoaderBegins == LoaderInit => LoaderInv
<1> SUFFICES ASSUME LoaderInit PROVE LoaderInv
  OBVIOUS
<1>1. roots \in Seq(Roots)
  <2>1. PICK root \in Roots : roots = <<root>>
    BY DEF LoaderInit
  <2> QED
    BY <2>1
<1>2. Started = {} /\ Running = {} /\ ran \in Seq(Path) /\ stack \in Seq(Entry)
  BY DEF LoaderInit, Started, Running
<1>3. SearchInv
  BY <1>1 DEF LoaderInit, SearchInv, SearchTyped, PackageFromOneRoot
<1>4. RunInv
  BY <1>2 DEF LoaderInit, RunInv, RunTyped, RunsOnce, Registered, InnerLater,
              StartedEnds, BoundInside, BoundToFinal, States
<1> QED
  BY <1>3, <1>4 DEF LoaderInv

(* The places where a request is looked for are in its package, and under  *)
(* the root that is remembered for the package, if there is one.           *)
LEMMA PlacesOfRequest ==
  ASSUME SearchTyped, stack \in Seq(Entry), NEW request \in Request, request.relative => stack # <<>>
  PROVE  /\ Possibilities(request) \in Seq(Path)
         /\ \A i \in 1..Len(Possibilities(request)) :
              LET path == Possibilities(request)[i] IN
              /\ path \in Path /\ Package(path) = request.name[1]
              /\ ~request.relative /\ cache[request.name[1]] # NoRoot
                   => Root(path) = cache[request.name[1]]
<1> DEFINE name == request.name
           here == PathUnder(Root(Importer), name)
           kept == PathUnder(cache[name[1]], name)
           tried == [i \in 1..Len(roots) |-> PathUnder(roots[i], name)]
<1>1. name[1] \in Packages /\ name[2] \in Leaves /\ name \in Packages \X Leaves
  BY DEF Request
<1>2. \A root \in Roots : /\ PathUnder(root, name) \in Path
                          /\ Package(PathUnder(root, name)) = name[1]
                          /\ Root(PathUnder(root, name)) = root
  BY <1>1 DEF PathUnder, Path, Package, Root
<1> HIDE DEF name
<1>3. CASE request.relative
  <2>1. stack \in Seq(Entry) /\ stack # <<>>
    BY <1>3
  <2>2. Head(stack) \in Entry
    BY <2>1
  <2>3. Root(Importer) \in Roots
    BY <2>1, <2>2 DEF Importer, Entry, Path, Root
  <2>4. Possibilities(request) = <<here>>
    BY <1>3 DEF Possibilities, name
  <2> QED
    BY <1>2, <1>3, <2>3, <2>4 DEF name
<1>4. CASE ~request.relative /\ cache[name[1]] # NoRoot
  <2>1. cache[name[1]] \in Roots
    BY <1>1, <1>4 DEF SearchTyped
  <2>2. Possibilities(request) = <<kept>>
    BY <1>4 DEF Possibilities, name
  <2> QED
    BY <1>2, <2>1, <2>2 DEF name
<1>5. CASE ~request.relative /\ cache[name[1]] = NoRoot
  <2>1. Possibilities(request) = tried
    BY <1>5 DEF Possibilities, name
  <2>2. roots \in Seq(Roots)
    BY DEF SearchTyped
  <2>3. \A i \in 1..Len(roots) : roots[i] \in Roots
    BY <2>2
  <2>4. Len(tried) = Len(roots) /\ tried \in Seq(Path)
    <3>1. Len(roots) \in Nat /\ DOMAIN tried = 1..Len(roots)
      BY <2>2
    <3>2. tried \in [1..Len(roots) -> Path]
      BY <1>2, <2>3
    <3> HIDE DEF tried
    <3> QED
      BY <3>1, <3>2, SeqDef, LenProperties
  <2> QED
    BY <1>2, <1>5, <2>1, <2>3, <2>4 DEF name
<1> QED
  BY <1>3, <1>4, <1>5

(* A set of places has a first one. *)
LEMMA LeastPlace ==
  ASSUME NEW places \in SUBSET Nat, places # {}
  PROVE  Min(places) \in places
<1> DEFINE upTo(m) == 0..m
           T == {upTo(m) : m \in places}
           R == StrictSubsetOrdering(Nat)
<1>1. T \subseteq FiniteSubsetsOf(Nat) /\ T # {}
  <2>1. \A m \in Nat : upTo(m) \in SUBSET Nat /\ IsFiniteSet(upTo(m))
    BY FS_Interval
  <2> QED
    BY <2>1 DEF FiniteSubsetsOf
<1>2. IsWellFoundedOn(R, FiniteSubsetsOf(Nat))
  BY FS_StrictSubsetOrderingWellFounded
<1>3. PICK least \in T : \A t \in T : ~(<<t, least>> \in R)
  <2> HIDE DEF T, R
  <2> QED
    BY <1>1, <1>2, WFMin
<1>4. PICK m \in places : least = upTo(m)
  OBVIOUS
<1>5. \A k \in places : m <= k
  <2> SUFFICES ASSUME NEW k \in places, k < m PROVE FALSE
    OBVIOUS
  <2>1. upTo(k) \subseteq upTo(m) /\ upTo(k) # upTo(m)
    <3>1. m \in upTo(m) /\ m \notin upTo(k)
      OBVIOUS
    <3> QED
      BY <3>1
  <2>2. upTo(k) \in SUBSET Nat /\ upTo(m) \in SUBSET Nat /\ upTo(k) \in T
    OBVIOUS
  <2>3. <<upTo(k), upTo(m)>> \in R
    BY <2>1, <2>2 DEF StrictSubsetOrdering
  <2> QED
    BY <1>3, <1>4, <2>2, <2>3
<1> QED
  BY <1>5 DEF Min

LEMMA FirstRegisteredIs ==
  ASSUME NEW paths \in Seq(Path), FirstRegistered(paths) # 0
  PROVE  /\ FirstRegistered(paths) \in 1..Len(paths)
         /\ modules[paths[FirstRegistered(paths)]] # "unknown"
<1> DEFINE places == {i \in 1..Len(paths) : modules[paths[i]] # "unknown"}
<1>1. FirstRegistered(paths) = IF places # {} THEN Min(places) ELSE 0
  BY DEF FirstRegistered, SelectInSeq
<1>2. places # {} /\ places \in SUBSET Nat
  BY <1>1
<1>3. Min(places) \in places
  <2> HIDE DEF places
  <2> QED
    BY <1>2, LeastPlace
<1> QED
  BY <1>1, <1>2, <1>3

LEMMA FirstFoundIs ==
  ASSUME NEW paths \in Seq(Path), FirstFound(paths) # 0
  PROVE  FirstFound(paths) \in 1..Len(paths)
<1> DEFINE places == {i \in 1..Len(paths) :
                        Untried(paths[i]) /\ paths[i] \in sourceCache \cup files}
<1>1. FirstFound(paths) = IF places # {} THEN Min(places) ELSE 0
  BY DEF FirstFound, SelectInSeq
<1>2. places # {} /\ places \in SUBSET Nat
  BY <1>1
<1>3. Min(places) \in places
  <2> HIDE DEF places
  <2> QED
    BY <1>2, LeastPlace
<1> QED
  BY <1>1, <1>2, <1>3
(* The order in which code was started is strict. *)
LEMMA StartedOnceEach ==
  ASSUME RunsOnce, ran \in Seq(Path), NEW p, NEW q, StartedBefore(p, q)
  PROVE  p # q /\ ~StartedBefore(q, p)
BY DEF RunsOnce, StartedBefore

LEMMA StackSpent ==
  ASSUME stack \in Seq(Entry)
  PROVE  /\ Spend \in Seq(Entry) /\ Len(Spend) = Len(stack)
         /\ \A i \in 1..Len(stack) : Spend[i].path = stack[i].path
<1>1. CASE stack = <<>>
  BY <1>1 DEF Spend
<1>2. CASE stack # <<>>
  <2> DEFINE top == [stack[1] EXCEPT !.left = @ - 1]
  <2>1. stack[1] \in Entry /\ 1 \in 1..Len(stack)
    BY <1>2, LenProperties
  <2>2. top \in Entry /\ top.path = stack[1].path
    BY <2>1 DEF Entry
  <2>3. Spend = [stack EXCEPT ![1] = top]
    BY <1>2, <2>1 DEF Spend
  <2> HIDE DEF top
  <2>4. Spend \in Seq(Entry) /\ Len(Spend) = Len(stack)
    BY <2>1, <2>2, <2>3, ExceptSeq
  <2> QED
    BY <2>1, <2>2, <2>3, <2>4
<1> QED
  BY <1>1, <1>2

(* The code that imports is running, and everything else that runs was     *)
(* started before it.                                                      *)
LEMMA ImporterIs ==
  ASSUME RunTyped, StartedEnds, InnerLater
  PROVE  /\ Importer \in Started \cup {App} /\ Importer \in Path \cup {App}
         /\ \A p \in Running :
              Importer # App /\ (Importer = p \/ StartedBefore(p, Importer))
<1> USE DEF RunTyped
<1>1. CASE stack = <<>>
  <2>1. Running = {} /\ Importer = App
    BY <1>1 DEF Running, Importer
  <2> QED
    BY <2>1
<1>2. CASE stack # <<>>
  <2>1. 1 \in 1..Len(stack) /\ Importer = stack[1].path
    BY <1>2 DEF Importer
  <2>2. Importer \in Path
    <3>1. stack[1] \in Entry
      BY <2>1, ElementOfSeq
    <3> QED
      BY <2>1, <3>1 DEF Entry
  <2>3. Importer \in Started
    BY <2>1 DEF Running, StartedEnds
  <2>4. Importer # App
    BY <2>2, LoaderAssumption DEF Path
  <2>5. ASSUME NEW p \in Running PROVE Importer = p \/ StartedBefore(p, Importer)
    <3>1. PICK j \in 1..Len(stack) : stack[j].path = p
      BY DEF Running
    <3>2. j = 1 \/ 1 < j
      BY <3>1
    <3> QED
      BY <2>1, <3>1, <3>2 DEF InnerLater
  <2> QED
    BY <2>2, <2>3, <2>4, <2>5
<1> QED
  BY <1>1, <1>2

LEMMA BindKeeps ==
  ASSUME RunInv, NEW path \in Path, modules[path] # "unknown", Bind(path),
         threw' = threw
  PROVE  RunInv'
<1> DEFINE new == <<Importer, path, modules[path]>>
<1> USE DEF RunInv
<1>1. stack \in Seq(Entry) /\ stack' = Spend
  BY DEF RunTyped, Bind
<1>2. /\ stack' \in Seq(Entry) /\ Len(stack') = Len(stack)
      /\ \A i \in 1..Len(stack) : stack'[i].path = stack[i].path
  BY <1>1, StackSpent
<1>3. /\ Running' = Running /\ Started' = Started
      /\ UNCHANGED <<modules, ran, done, threw>>
  BY <1>2 DEF Running, Started, Bind
<1>4. held' = held \cup {new}
  BY DEF Bind
<1>5. /\ Importer \in Started \cup {App} /\ Importer \in Path \cup {App}
      /\ \A p \in Running :
           Importer # App /\ (Importer = p \/ StartedBefore(p, Importer))
  BY ImporterIs
<1>6. path \in Started
  BY DEF Registered
<1>7. RunTyped'
  <2>1. modules[path] \in States
    BY DEF RunTyped
  <2> QED
    BY <1>2, <1>3, <1>4, <1>5, <2>1 DEF RunTyped
<1>8. RunsOnce' /\ Registered' /\ StartedEnds'
  BY <1>3 DEF RunsOnce, Registered, StartedEnds
<1>9. \A p, q : StartedBefore(p, q)' <=> StartedBefore(p, q)
  BY <1>3 DEF StartedBefore
<1>10. InnerLater'
  BY <1>2, <1>9 DEF InnerLater
<1>11. BoundInside'
  BY <1>3, <1>4, <1>5, <1>6, <1>9 DEF BoundInside
<1>12. BoundToFinal'
  BY <1>3, <1>4, <1>9 DEF BoundToFinal
<1> QED
  BY <1>7, <1>8, <1>10, <1>11, <1>12

LEMMA MissKeeps ==
  ASSUME RunInv, stack' = Spend, UNCHANGED <<modules, ran, done, held, threw>>
  PROVE  RunInv'
<1> USE DEF RunInv
<1>1. /\ stack' \in Seq(Entry) /\ Len(stack') = Len(stack)
      /\ \A i \in 1..Len(stack) : stack'[i].path = stack[i].path
  BY StackSpent DEF RunTyped
<1>2. Running' = Running /\ Started' = Started
  BY <1>1 DEF Running, Started
<1>3. RunTyped'
  BY <1>1 DEF RunTyped
<1>4. RunsOnce' /\ Registered' /\ StartedEnds'
  BY <1>2 DEF RunsOnce, Registered, StartedEnds
<1>5. \A p, q : StartedBefore(p, q)' <=> StartedBefore(p, q)
  BY DEF StartedBefore
<1>6. InnerLater'
  BY <1>1, <1>5 DEF InnerLater
<1>7. BoundInside' /\ BoundToFinal'
  BY <1>2, <1>5 DEF BoundInside, BoundToFinal
<1> QED
  BY <1>3, <1>4, <1>6, <1>7

LEMMA ExecuteKeeps ==
  ASSUME RunInv, NEW path \in Path, modules[path] = "unknown", Execute(path),
         threw' = threw
  PROVE  RunInv'
<1> USE DEF RunInv
<1>1. /\ Spend \in Seq(Entry) /\ Len(Spend) = Len(stack)
      /\ \A i \in 1..Len(stack) : Spend[i].path = stack[i].path
  BY StackSpent DEF RunTyped
<1>2. Frame(path) \in Entry /\ Frame(path).path = path
  BY LoaderAssumption DEF Frame, Entry
<1>3. /\ stack' \in Seq(Entry) /\ Len(stack') = Len(stack) + 1
      /\ stack'[1].path = path
      /\ \A i \in 1..Len(stack) : stack'[i + 1].path = stack[i].path
  <2>1. stack' = <<Frame(path)>> \o Spend
    BY DEF Execute
  <2>2. /\ stack' \in Seq(Entry) /\ Len(stack') = Len(Spend) + 1
        /\ stack'[1] = Frame(path)
        /\ \A i \in 1..Len(Spend) : stack'[i + 1] = Spend[i]
    BY <1>1, <1>2, <2>1
  <2> QED
    BY <1>1, <1>2, <2>2
<1>4. /\ ran \in Seq(Path) /\ ran' \in Seq(Path) /\ Len(ran') = Len(ran) + 1
      /\ ran'[Len(ran) + 1] = path
      /\ \A i \in 1..Len(ran) : ran'[i] = ran[i]
  BY DEF RunTyped, Execute
<1>5. /\ modules \in [Path -> States]
      /\ modules' = [modules EXCEPT ![path] = "first"]
      /\ UNCHANGED <<held, done, threw>>
  BY DEF Execute, RunTyped
<1>6. path \notin Started
  BY DEF Registered
<1>7. Started' = Started \cup {path}
  <2>1. \A p \in Started : p \in Started'
    BY <1>4 DEF Started
  <2>2. path \in Started'
    <3>1. Len(ran) + 1 \in 1..Len(ran')
      BY <1>4
    <3> QED
      BY <1>4, <3>1 DEF Started
  <2>3. ASSUME NEW p \in Started' PROVE p \in Started \cup {path}
    <3>1. PICK i \in 1..Len(ran') : ran'[i] = p
      BY DEF Started
    <3>2. i \in 1..Len(ran) \/ i = Len(ran) + 1
      BY <1>4
    <3> QED
      BY <1>4, <3>1, <3>2 DEF Started
  <2> QED
    BY <2>1, <2>2, <2>3
<1>8. Running' = Running \cup {path}
  <2>1. ASSUME NEW p \in Running PROVE p \in Running'
    <3>1. PICK i \in 1..Len(stack) : stack[i].path = p
      BY DEF Running
    <3>2. i + 1 \in 1..Len(stack')
      BY <1>1, <1>3
    <3> QED
      BY <1>3, <3>1, <3>2 DEF Running
  <2>2. path \in Running'
    <3>1. 1 \in 1..Len(stack')
      BY <1>3
    <3> QED
      BY <1>3, <3>1 DEF Running
  <2>3. ASSUME NEW p \in Running' PROVE p \in Running \cup {path}
    <3>1. PICK i \in 1..Len(stack') : stack'[i].path = p
      BY DEF Running
    <3>2. i = 1 \/ i - 1 \in 1..Len(stack)
      BY <1>3
    <3>3. i - 1 \in 1..Len(stack) => stack'[i].path = stack[i - 1].path
      <4>1. i = (i - 1) + 1
        OBVIOUS
      <4> QED
        BY <1>3, <4>1
    <3> QED
      BY <1>3, <3>1, <3>2, <3>3 DEF Running
  <2> QED
    BY <2>1, <2>2, <2>3
<1>9. ASSUME NEW p, NEW q, StartedBefore(p, q) PROVE StartedBefore(p, q)'
  <2>1. PICK i, j \in 1..Len(ran) : i < j /\ ran[i] = p /\ ran[j] = q
    BY <1>9 DEF StartedBefore
  <2>2. i \in 1..Len(ran') /\ j \in 1..Len(ran')
    BY <1>4
  <2> QED
    BY <1>4, <2>1, <2>2 DEF StartedBefore
<1>10. ASSUME NEW p, NEW q, q # path, StartedBefore(p, q)' PROVE StartedBefore(p, q)
  <2>1. PICK i, j \in 1..Len(ran') : i < j /\ ran'[i] = p /\ ran'[j] = q
    BY <1>10 DEF StartedBefore
  <2>2. j # Len(ran) + 1
    BY <1>4, <1>10, <2>1
  <2>3. i \in 1..Len(ran) /\ j \in 1..Len(ran)
    BY <1>4, <2>1, <2>2
  <2> QED
    BY <1>4, <2>1, <2>3 DEF StartedBefore
<1>11. ASSUME NEW p \in Started PROVE StartedBefore(p, path)'
  <2>1. PICK i \in 1..Len(ran) : ran[i] = p
    BY DEF Started
  <2>2. i \in 1..Len(ran') /\ Len(ran) + 1 \in 1..Len(ran') /\ i < Len(ran) + 1
    BY <1>4
  <2> QED
    BY <1>4, <2>1, <2>2 DEF StartedBefore
<1>12. RunTyped'
  BY <1>3, <1>4, <1>5 DEF RunTyped, States
<1>13. RunsOnce'
  <2> SUFFICES ASSUME NEW i \in 1..Len(ran'), NEW j \in 1..Len(ran'),
                      ran'[i] = ran'[j]
               PROVE  i = j
    BY DEF RunsOnce
  <2>1. \A k \in 1..Len(ran) : ran[k] # path
    BY <1>6 DEF Started
  <2> QED
    BY <1>4, <2>1 DEF RunsOnce
<1>14. Registered'
  BY <1>5, <1>7 DEF Registered
<1>15. StartedEnds'
  BY <1>5, <1>6, <1>7, <1>8 DEF StartedEnds
<1>16. InnerLater'
  <2> SUFFICES ASSUME NEW i \in 1..Len(stack'), NEW j \in 1..Len(stack'), i < j
               PROVE  StartedBefore(stack[j].path, stack[i].path)'
    BY DEF InnerLater
  <2>1. j - 1 \in 1..Len(stack) /\ stack'[j].path = stack[j - 1].path
    <3>1. j - 1 \in 1..Len(stack) /\ j = (j - 1) + 1
      BY <1>1, <1>3
    <3> QED
      BY <1>3, <3>1
  <2>2. CASE i = 1
    <3>1. stack[j - 1].path \in Started
      BY <2>1 DEF Running, StartedEnds
    <3>2. \E k, l \in 1..Len(ran') :
            k < l /\ ran'[k] = stack[j - 1].path /\ ran'[l] = path
      BY <1>11, <3>1 DEF StartedBefore
    <3> QED
      BY <1>3, <2>1, <2>2, <3>2 DEF StartedBefore
  <2>3. CASE i # 1
    <3>1. i - 1 \in 1..Len(stack) /\ i = (i - 1) + 1 /\ i - 1 < j - 1
      BY <1>1, <1>3, <2>3
    <3>2. stack'[i].path = stack[i - 1].path
      BY <1>3, <3>1
    <3>3. StartedBefore(stack[j - 1].path, stack[i - 1].path)
      BY <2>1, <3>1 DEF InnerLater
    <3>4. \E k, l \in 1..Len(ran') :
            k < l /\ ran'[k] = stack[j - 1].path /\ ran'[l] = stack[i - 1].path
      BY <1>9, <3>3, SMTT(20) DEF StartedBefore
    <3> QED
      BY <2>1, <3>2, <3>4 DEF StartedBefore
  <2> QED
    BY <2>2, <2>3
<1>17. BoundInside'
  BY <1>5, <1>6, <1>7, <1>8, <1>9 DEF BoundInside
<1>18. BoundToFinal'
  <2> SUFFICES ASSUME NEW h \in held, h[2] \in done,
                      h[1] = App \/ StartedBefore(h[1], h[2])'
               PROVE  h[3] = modules'[h[2]]
    BY <1>5 DEF BoundToFinal
  <2>1. h[2] # path
    BY <1>6 DEF BoundInside
  <2>2. h[2] \in Path
    BY DEF RunTyped
  <2> QED
    BY <1>5, <1>10, <2>1, <2>2 DEF BoundToFinal
<1> QED
  BY <1>12, <1>13, <1>14, <1>15, <1>16, <1>17, <1>18

(* The innermost module is the only one that a tail of the stack forgets.  *)
LEMMA StackPopped ==
  ASSUME RunTyped, RunsOnce, InnerLater, stack # <<>>, stack' = Tail(stack),
         ran' = ran
  PROVE  /\ Head(stack) \in Entry /\ stack' \in Seq(Entry)
         /\ Head(stack).path \in Running
         /\ Running' = Running \ {Head(stack).path}
         /\ InnerLater'
<1> DEFINE top == Head(stack)
<1>1. /\ stack \in Seq(Entry) /\ top \in Entry /\ top = stack[1]
      /\ 1 \in 1..Len(stack) /\ stack' \in Seq(Entry)
      /\ Len(stack') = Len(stack) - 1
      /\ \A i \in 1..Len(stack') : stack'[i] = stack[i + 1]
  BY DEF RunTyped
<1>2. ASSUME NEW p \in Running' PROVE p \in Running /\ p # top.path
  <2>1. PICK i \in 1..Len(stack') : stack'[i].path = p
    BY DEF Running
  <2>2. i + 1 \in 1..Len(stack) /\ 1 < i + 1 /\ stack[i + 1].path = p
    BY <1>1, <2>1
  <2>3. StartedBefore(p, top.path)
    BY <1>1, <2>2 DEF InnerLater
  <2>4. p # top.path
    BY <2>3, StartedOnceEach DEF RunTyped
  <2> QED
    BY <2>2, <2>4 DEF Running
<1>3. ASSUME NEW p \in Running, p # top.path PROVE p \in Running'
  <2>1. PICK i \in 1..Len(stack) : stack[i].path = p
    BY DEF Running
  <2>2. i - 1 \in 1..Len(stack') /\ i = (i - 1) + 1
    BY <1>1, <1>3, <2>1
  <2>3. stack'[i - 1].path = p
    BY <1>1, <2>1, <2>2
  <2> QED
    BY <2>2, <2>3 DEF Running
<1>4. InnerLater'
  <2> SUFFICES ASSUME NEW i \in 1..Len(stack'), NEW j \in 1..Len(stack'), i < j
               PROVE  StartedBefore(stack[j].path, stack[i].path)'
    BY DEF InnerLater
  <2>1. i + 1 \in 1..Len(stack) /\ j + 1 \in 1..Len(stack) /\ i + 1 < j + 1
    BY <1>1
  <2>2. StartedBefore(stack[j + 1].path, stack[i + 1].path)
    BY <2>1 DEF InnerLater
  <2> QED
    BY <1>1, <2>2 DEF StartedBefore
<1>5. top.path \in Running
  BY <1>1 DEF Running
<1> QED
  BY <1>1, <1>2, <1>3, <1>4, <1>5

LEMMA UnwindsKeeps == RunInv /\ stack # <<>> /\ Unwinds => RunInv'
<1> SUFFICES ASSUME RunInv, stack # <<>>, Unwinds PROVE RunInv'
  OBVIOUS
<1> USE DEF RunInv
<1>1. /\ stack' = Tail(stack) /\ threw' = threw \cup {Head(stack).path}
      /\ UNCHANGED <<modules, ran, done, held>>
  BY DEF Unwinds
<1>2. /\ stack' \in Seq(Entry) /\ Head(stack).path \in Running
      /\ Running' = Running \ {Head(stack).path} /\ InnerLater'
  BY <1>1, StackPopped
<1>3. Started' = Started /\ RunsOnce' /\ Registered'
  BY <1>1 DEF Started, RunsOnce, Registered
<1>4. RunTyped'
  BY <1>1, <1>2 DEF RunTyped
<1>5. StartedEnds'
  BY <1>1, <1>2, <1>3 DEF StartedEnds
<1>6. \A p, q : StartedBefore(p, q)' <=> StartedBefore(p, q)
  BY <1>1 DEF StartedBefore
<1>7. BoundInside' /\ BoundToFinal'
  BY <1>1, <1>2, <1>3, <1>6 DEF BoundInside, BoundToFinal
<1> QED
  BY <1>2, <1>3, <1>4, <1>5, <1>7

LEMMA ReturnKeeps == RunInv /\ ModuleReturns => RunInv'
<1> SUFFICES ASSUME RunInv, ModuleReturns PROVE RunInv'
  OBVIOUS
<1> USE DEF RunInv
<1> DEFINE top == Head(stack)
           new == <<Below, top.path, top.own>>
<1>1. /\ stack # <<>> /\ stack' = Tail(stack) /\ done' = done \cup {top.path}
      /\ modules' = [modules EXCEPT ![top.path] = top.own]
      /\ held' = held \cup {new}
      /\ UNCHANGED <<ran, threw>>
  BY DEF ModuleReturns, Exported
<1>2. /\ top \in Entry /\ stack' \in Seq(Entry) /\ top.path \in Running
      /\ Running' = Running \ {top.path} /\ InnerLater'
  BY <1>1, StackPopped
<1>3. /\ top.path \in Path /\ top.own \in States \ {"unknown"}
      /\ modules \in [Path -> States]
  BY <1>2 DEF Entry, States, RunTyped
<1>4. Below \in (Path \cup {App}) /\ Below \in Started \cup {App}
  <2>1. CASE Len(stack) > 1
    <3>1. 2 \in 1..Len(stack) /\ stack \in Seq(Entry)
      BY <2>1 DEF RunTyped
    <3>2. stack[2] \in Entry
      BY <3>1, ElementOfSeq
    <3> QED
      BY <2>1, <3>1, <3>2 DEF Below, Entry, Running, StartedEnds
  <2> QED
    BY <2>1 DEF Below
<1> HIDE DEF top
<1>5. RunTyped'
  BY <1>1, <1>2, <1>3, <1>4 DEF RunTyped
<1>6. Started' = Started /\ RunsOnce'
  BY <1>1 DEF Started, RunsOnce
<1>7. top.path \in Started
  BY <1>2 DEF StartedEnds
<1>8. Registered'
  BY <1>1, <1>3, <1>6, <1>7 DEF Registered
<1>9. StartedEnds'
  BY <1>1, <1>2, <1>6 DEF StartedEnds
<1>10. \A p, q : StartedBefore(p, q)' <=> StartedBefore(p, q)
  BY <1>1 DEF StartedBefore
<1>11. BoundInside'
  BY <1>1, <1>2, <1>4, <1>6, <1>7, <1>10 DEF BoundInside
<1>12. BoundToFinal'
  <2> SUFFICES ASSUME NEW h \in held', h[2] \in done',
                      h[1] = App \/ StartedBefore(h[1], h[2])
               PROVE  h[3] = modules'[h[2]]
    BY <1>10 DEF BoundToFinal
  <2>1. CASE h = new
    BY <1>1, <1>3, <2>1
  <2>2. CASE h # new /\ h[2] = top.path
    <3>1. /\ h \in held /\ h[1] # App
          /\ h[1] = top.path \/ StartedBefore(top.path, h[1])
      BY <1>1, <1>2, <2>2 DEF BoundInside
    <3>2. ~StartedBefore(h[1], top.path)
      BY <3>1, StartedOnceEach DEF RunTyped
    <3> QED
      BY <2>2, <3>1, <3>2
  <2>3. CASE h # new /\ h[2] # top.path
    <3>1. h \in held /\ h[2] \in done /\ h[2] \in Path
      BY <1>1, <2>3 DEF RunTyped
    <3> QED
      BY <1>1, <1>3, <2>3, <3>1 DEF BoundToFinal
  <2> QED
    BY <2>1, <2>2, <2>3
<1> QED
  BY <1>2, <1>5, <1>6, <1>8, <1>9, <1>11, <1>12

LEMMA ReplacesKeeps == RunInv /\ ReplacesExports => RunInv'
<1> SUFFICES ASSUME RunInv, ReplacesExports PROVE RunInv'
  OBVIOUS
<1> USE DEF RunInv
<1> DEFINE top == [stack[1] EXCEPT !.own = "final"]
<1>1. /\ stack # <<>> /\ stack' = [stack EXCEPT ![1] = top]
      /\ UNCHANGED <<modules, ran, done, held, threw>>
  BY DEF ReplacesExports
<1>2. stack \in Seq(Entry) /\ 1 \in 1..Len(stack) /\ stack[1] \in Entry
  BY <1>1 DEF RunTyped
<1>3. top \in Entry /\ top.path = stack[1].path
  BY <1>2 DEF Entry
<1> HIDE DEF top
<1>4. /\ stack' \in Seq(Entry) /\ Len(stack') = Len(stack)
      /\ \A i \in 1..Len(stack) : stack'[i].path = stack[i].path
  BY <1>1, <1>2, <1>3, ExceptSeq
<1>5. Running' = Running /\ Started' = Started
  BY <1>1, <1>4 DEF Running, Started
<1>6. RunTyped'
  BY <1>1, <1>4 DEF RunTyped
<1>7. RunsOnce' /\ Registered' /\ StartedEnds'
  BY <1>1, <1>5 DEF RunsOnce, Registered, StartedEnds
<1>8. \A p, q : StartedBefore(p, q)' <=> StartedBefore(p, q)
  BY <1>1 DEF StartedBefore
<1>9. InnerLater'
  BY <1>4, <1>8 DEF InnerLater
<1>10. BoundInside' /\ BoundToFinal'
  BY <1>1, <1>5, <1>8 DEF BoundInside, BoundToFinal
<1> QED
  BY <1>6, <1>7, <1>9, <1>10
LEMMA SearchFound ==
  ASSUME LoaderInv, NEW request \in Request, request.relative => stack # <<>>,
         NEW paths, paths = Possibilities(request), UNCHANGED <<threw, roots>>,
         Search(request, paths)
  PROVE  LoaderInv'
<1> USE DEF LoaderInv
<1> DEFINE n == FirstFound(paths)
           path == paths[n]
<1>1. /\ paths \in Seq(Path)
      /\ \A i \in 1..Len(paths) :
           /\ paths[i] \in Path /\ Package(paths[i]) = request.name[1]
           /\ ~request.relative /\ cache[request.name[1]] # NoRoot
                => Root(paths[i]) = cache[request.name[1]]
  BY PlacesOfRequest DEF SearchInv, RunInv, RunTyped
<1>2. CASE n = 0
  <2>1. /\ stack' = Spend
        /\ UNCHANGED <<modules, ran, done, held, cache, fetched>>
    BY <1>2 DEF Search, Miss
  <2>2. RunInv'
    BY <2>1, MissKeeps
  <2>3. SearchInv'
    BY <2>1 DEF SearchInv, SearchTyped, PackageFromOneRoot
  <2> QED
    BY <2>2, <2>3
<1>3. CASE n # 0
  <2>1. n \in 1..Len(paths)
    BY <1>1, <1>3, FirstFoundIs
  <2>2. /\ path \in Path /\ Package(path) = request.name[1]
        /\ ~request.relative /\ cache[request.name[1]] # NoRoot
             => Root(path) = cache[request.name[1]]
    BY <1>1, <2>1
  <2>3. /\ RootKept(request, path)
        /\ fetched' = IF request.relative THEN fetched ELSE fetched \cup {path}
        /\ IF modules[path] = "unknown" THEN Execute(path) ELSE Bind(path)
    BY <1>3 DEF Search
  <2> HIDE DEF n, path
  <2>4. RunInv'
    BY <2>2, <2>3, BindKeeps, ExecuteKeeps
  <2>5. Root(path) \in Roots
    BY <2>2 DEF Path, Root
  <2>6. SearchTyped'
    <3>1. cache' \in [Packages -> Roots \cup {NoRoot}]
      BY <2>3, <2>5 DEF RootKept, SearchInv, SearchTyped
    <3> QED
      BY <2>2, <2>3, <3>1 DEF SearchInv, SearchTyped
  <2>7. PackageFromOneRoot'
    <3>1. \A p \in fetched : Root(p) = cache[Package(p)]
      BY DEF SearchInv, PackageFromOneRoot
    <3>2. \A p \in Path : Root(p) \in Roots /\ Package(p) \in Packages
      BY DEF Path, Root, Package
    <3>3. cache \in [Packages -> Roots \cup {NoRoot}] /\ fetched \subseteq Path
      BY DEF SearchInv, SearchTyped
    <3>4. CASE Absolute(request)
      <4>1. /\ cache[Package(path)] = NoRoot /\ ~request.relative
            /\ cache' = [cache EXCEPT ![Package(path)] = Root(path)]
        BY <2>2, <2>3, <3>4 DEF RootKept, Absolute
      <4>2. \A p \in fetched : Package(p) # Package(path)
        BY <3>1, <3>2, <3>3, <4>1, LoaderAssumption
      <4>3. \A p \in fetched : cache'[Package(p)] = cache[Package(p)]
        BY <3>2, <3>3, <4>1, <4>2
      <4>4. cache'[Package(path)] = Root(path)
        BY <2>2, <3>2, <3>3, <4>1
      <4> QED
        BY <2>3, <3>1, <4>1, <4>3, <4>4 DEF PackageFromOneRoot, Root, Package
    <3>5. CASE ~Absolute(request)
      <4>1. cache' = cache
        BY <2>3, <3>5 DEF RootKept
      <4>2. ~request.relative => Root(path) = cache[Package(path)]
        BY <2>2, <3>5 DEF Absolute
      <4> QED
        BY <2>3, <3>1, <4>1, <4>2 DEF PackageFromOneRoot
    <3> QED
      BY <3>4, <3>5
  <2> QED
    BY <2>4, <2>6, <2>7 DEF SearchInv
<1> QED
  BY <1>2, <1>3

LEMMA ImportKeeps ==
  ASSUME LoaderInv, NEW request \in Request, request.relative => stack # <<>>,
         Import(request)
  PROVE  LoaderInv'
<1> USE DEF LoaderInv
<1> DEFINE paths == Possibilities(request)
           known == FirstRegistered(paths)
<1>1. UNCHANGED <<threw, roots>>
  BY DEF Import, searchVars
<1>2. CASE ~request.reload /\ known # 0
  <2>1. /\ paths \in Seq(Path)
        /\ \A i \in 1..Len(paths) : paths[i] \in Path
    BY PlacesOfRequest DEF SearchInv, RunInv, RunTyped
  <2>2. known \in 1..Len(paths) /\ modules[paths[known]] # "unknown"
    BY <1>2, <2>1, FirstRegisteredIs
  <2>3. Bind(paths[known]) /\ UNCHANGED <<cache, fetched>>
    BY <1>2 DEF Import
  <2>4. RunInv'
    BY <1>1, <2>1, <2>2, <2>3, BindKeeps
  <2>5. SearchInv'
    BY <1>1, <2>3 DEF SearchInv, SearchTyped, PackageFromOneRoot
  <2> QED
    BY <2>4, <2>5
<1>3. CASE ~(~request.reload /\ known # 0)
  <2>1. Search(request, paths)
    BY <1>3 DEF Import
  <2> QED
    BY <1>1, <2>1, SearchFound
<1> QED
  BY <1>2, <1>3

LEMMA LoaderStep == LoaderInv /\ [LoaderNext]_loaderVars => LoaderInv'
<1> SUFFICES ASSUME LoaderInv, [LoaderNext]_loaderVars PROVE LoaderInv'
  OBVIOUS
<1>1. ASSUME UNCHANGED <<modules, stack, ran, done, threw, held>> PROVE RunInv'
  <2> USE <1>1 DEF LoaderInv, RunInv
  <2>1. Started' = Started /\ Running' = Running
    BY DEF Started, Running
  <2>2. \A p, q : StartedBefore(p, q)' <=> StartedBefore(p, q)
    BY DEF StartedBefore
  <2>3. RunTyped' /\ RunsOnce'
    BY DEF RunTyped, RunsOnce
  <2>4. Registered' /\ StartedEnds'
    BY <2>1 DEF Registered, StartedEnds
  <2>5. InnerLater'
    BY <2>2 DEF InnerLater
  <2>6. BoundInside' /\ BoundToFinal'
    BY <2>1, <2>2 DEF BoundInside, BoundToFinal
  <2> QED
    BY <2>3, <2>4, <2>5, <2>6
<1>2. ASSUME UNCHANGED <<roots, cache, fetched>> PROVE SearchInv'
  BY <1>2 DEF LoaderInv, SearchInv, SearchTyped, PackageFromOneRoot
<1>3. ASSUME UNCHANGED <<cache, fetched>>, roots' \in Seq(Roots) PROVE SearchInv'
  BY <1>3 DEF LoaderInv, SearchInv, SearchTyped, PackageFromOneRoot
<1>4. ASSUME NEW request \in Request, AppImports(request) PROVE LoaderInv'
  BY <1>4, ImportKeeps DEF AppImports
<1>5. ASSUME NEW request \in Request, ModuleImports(request) PROVE LoaderInv'
  BY <1>5, ImportKeeps DEF ModuleImports
<1>6. CASE ReplacesExports
  BY <1>2, <1>6, ReplacesKeeps DEF ReplacesExports, searchVars, LoaderInv
<1>7. CASE Throws
  BY <1>2, <1>7, UnwindsKeeps DEF Throws, Unwinds, searchVars, LoaderInv
<1>8. CASE Catches
  BY <1>1, <1>2, <1>8 DEF Catches, searchVars, LoaderInv
<1>9. CASE ModuleReturns
  BY <1>2, <1>9, ReturnKeeps DEF ModuleReturns, searchVars, LoaderInv
<1>10. ASSUME NEW path \in Path, FileAppears(path) \/ SetCachedSrc(path)
       PROVE  LoaderInv'
  BY <1>1, <1>2, <1>10 DEF FileAppears, SetCachedSrc, Changing, LoaderInv
<1>11. ASSUME NEW root \in Roots, AddPath(root) PROVE LoaderInv'
  <2>1. roots' \in Seq(Roots)
    BY <1>11 DEF AddPath, LoaderInv, SearchInv, SearchTyped
  <2> QED
    BY <1>1, <1>3, <1>11, <2>1 DEF AddPath, Changing, LoaderInv
<1>12. ASSUME NEW root \in Roots, RemovePath(root) PROVE LoaderInv'
  <2>1. roots' \in Seq(Roots)
    <3>1. (1..Len(roots)) \ Spliced(root) \in SUBSET (1..Len(roots))
      OBVIOUS
    <3> QED
      BY <1>12, <3>1, SublistEntries DEF RemovePath, LoaderInv, SearchInv, SearchTyped
  <2> QED
    BY <1>1, <1>3, <1>12, <2>1 DEF RemovePath, Changing, LoaderInv
<1>13. CASE UNCHANGED loaderVars
  BY <1>1, <1>2, <1>13 DEF loaderVars, LoaderInv
<1> QED
  BY <1>4, <1>5, <1>6, <1>7, <1>8, <1>9, <1>10, <1>11, <1>12, <1>13 DEF LoaderNext

(* The code of a file is run at most once, whatever imports, reloads,      *)
(* circles and exceptions there are (importer, execModuleDef).             *)
THEOREM CodeRunsOnce == LoaderSpec => []RunsOnce
<1>1. LoaderInv => RunsOnce
  BY DEF LoaderInv, RunInv
<1> QED
  BY <1>1, LoaderBegins, LoaderStep, PTL DEF LoaderSpec

(* A module's importers are bound to exports that are final, but for those *)
(* inside a circle (importer, makeContext).                                *)
THEOREM ExportsAreFinal == LoaderSpec => []FinalExports
<1>1. LoaderInv => FinalExports
  <2> SUFFICES ASSUME LoaderInv, NEW h \in held
               PROVE  /\ h[1] \in done \cup {App} =>
                           \/ h[2] \in done \cup threw
                           \/ h[2] \in Running /\ StartedBefore(h[2], h[1])
                      /\ h[2] \in done /\ (h[1] = App \/ StartedBefore(h[1], h[2]))
                           => h[3] = modules[h[2]]
    BY DEF FinalExports
  <2>1. ASSUME h[1] \in done \cup {App}, h[2] \notin done \cup threw
        PROVE  h[2] \in Running /\ StartedBefore(h[2], h[1])
    BY <2>1 DEF LoaderInv, RunInv, StartedEnds, BoundInside
  <2> QED
    BY <2>1 DEF LoaderInv, RunInv, BoundToFinal
<1> QED
  BY <1>1, LoaderBegins, LoaderStep, PTL DEF LoaderSpec

(* The files an absolute name of a package was searched for come from the  *)
(* root that is remembered for it (loadModule, jsio.path.cache).           *)
THEOREM OneRootForPackage == LoaderSpec => []PackageFromOneRoot
<1>1. LoaderInv => PackageFromOneRoot
  BY DEF LoaderInv, SearchInv
<1> QED
  BY <1>1, LoaderBegins, LoaderStep, PTL DEF LoaderSpec
---------------------------------------------------------------------------
(* PubSub *)

(* A loop of publish: over a copy without repetitions, of which those up   *)
(* to some place have been called, and that has nobody who had             *)
(* unsubscribed when it was made.                                          *)
LoopRecord ==
  [signal : Signals, of : AllSignals, copy : Seq(Subscription),
   called : Seq(Subscription), inside : BOOLEAN, before : SUBSET Nat]
GoodLoop(loop) ==
  /\ loop \in LoopRecord
  /\ \A i, j \in 1..Len(loop.copy) : loop.copy[i] = loop.copy[j] => i = j
  /\ \A i \in 1..Len(loop.copy) : loop.copy[i].number \notin loop.before
  /\ Len(loop.called) <= Len(loop.copy)
  /\ \A i \in 1..Len(loop.called) : loop.called[i] = loop.copy[i]
LoopsGood == \A k \in 1..Len(publishing) : GoodLoop(publishing[k])

PubSubTyped ==
  /\ subscribers \in [AllSignals -> Seq(Subscription)]
  /\ subscriptions \in 0..MaxSubscriptions
  /\ dropped \subseteq 1..subscriptions
  /\ publishing \in Seq(LoopRecord)

(* A number is given once, and no subscriber has one that was dropped. *)
NumbersDiffer ==
  \A s, t \in AllSignals :
    \A i \in 1..Len(subscribers[s]), j \in 1..Len(subscribers[t]) :
      subscribers[s][i].number = subscribers[t][j].number => s = t /\ i = j
NoneDropped ==
  \A s \in AllSignals : \A i \in 1..Len(subscribers[s]) :
    /\ subscribers[s][i].number \in 1..subscriptions
    /\ subscribers[s][i].number \notin dropped

PubSubInv == PubSubTyped /\ NumbersDiffer /\ NoneDropped /\ LoopsGood

LEMMA PubSubBegins == PubSubInit => PubSubInv
<1> SUFFICES ASSUME PubSubInit PROVE PubSubInv
  OBVIOUS
<1>1. /\ subscribers = [s \in AllSignals |-> <<>>] /\ publishing = <<>>
      /\ subscriptions = 0 /\ dropped = {}
  BY DEF PubSubInit
<1>2. MaxSubscriptions \in Nat
  BY PubSubAssumption
<1>3. PubSubTyped
  <2>1. <<>> \in Seq(Subscription) /\ <<>> \in Seq(LoopRecord)
    OBVIOUS
  <2>2. subscribers \in [AllSignals -> Seq(Subscription)]
    BY <1>1, <2>1
  <2> QED
    BY <1>1, <1>2, <2>1, <2>2 DEF PubSubTyped
<1>4. \A s \in AllSignals : Len(subscribers[s]) = 0
  BY <1>1
<1>5. NumbersDiffer /\ NoneDropped
  BY <1>4 DEF NumbersDiffer, NoneDropped
<1>6. LoopsGood
  BY <1>1 DEF LoopsGood
<1> QED
  BY <1>3, <1>5, <1>6 DEF PubSubInv

(* A new loop, over the subscribers of now. *)
LEMMA NewLoopGood ==
  ASSUME PubSubInv, NEW signal \in Signals, NEW of \in AllSignals
  PROVE  GoodLoop(LoopOver(signal, of))
<1> DEFINE loop == LoopOver(signal, of)
<1>1. /\ loop.signal = signal /\ loop.of = of /\ loop.copy = subscribers[of]
      /\ loop.called = <<>> /\ loop.inside = FALSE /\ loop.before = dropped
  BY DEF LoopOver
<1>2. subscribers[of] \in Seq(Subscription) /\ dropped \in SUBSET Nat
  BY DEF PubSubInv, PubSubTyped
<1>3. loop \in LoopRecord
  BY <1>2 DEF LoopOver, LoopRecord
<1>4. \A i, j \in 1..Len(subscribers[of]) :
        subscribers[of][i] = subscribers[of][j] => i = j
  BY DEF PubSubInv, NumbersDiffer
<1>5. \A i \in 1..Len(subscribers[of]) : subscribers[of][i].number \notin dropped
  BY DEF PubSubInv, NoneDropped
<1> HIDE DEF loop
<1>6. GoodLoop(loop)
  BY <1>1, <1>2, <1>3, <1>4, <1>5 DEF GoodLoop
<1> QED
  BY <1>6 DEF loop

(* What happens to the innermost loop is nothing to the others. *)
LEMMA OtherLoops ==
  ASSUME PubSubTyped, LoopsGood,
         NEW loop, GoodLoop(loop),
         \/ publishing' = <<loop>> \o publishing
         \/ publishing # <<>> /\ publishing' = <<loop>> \o Tail(publishing)
         \/ publishing # <<>> /\ publishing' = [publishing EXCEPT ![1] = loop]
  PROVE  publishing' \in Seq(LoopRecord) /\ LoopsGood'
<1>1. publishing \in Seq(LoopRecord) /\ loop \in LoopRecord
  BY DEF PubSubTyped, GoodLoop
<1>2. CASE publishing' = <<loop>> \o publishing
  <2>1. /\ publishing' \in Seq(LoopRecord)
        /\ \A k \in 1..Len(publishing') :
             \/ publishing'[k] = loop
             \/ k - 1 \in 1..Len(publishing) /\ publishing'[k] = publishing[k - 1]
    BY <1>1, <1>2
  <2> QED
    BY <2>1 DEF LoopsGood
<1>3. CASE publishing # <<>> /\ publishing' = <<loop>> \o Tail(publishing)
  <2>1. /\ publishing' \in Seq(LoopRecord)
        /\ \A k \in 1..Len(publishing') :
             \/ publishing'[k] = loop
             \/ k \in 1..Len(publishing) /\ publishing'[k] = publishing[k]
    BY <1>1, <1>3
  <2> QED
    BY <2>1 DEF LoopsGood
<1>4. CASE publishing # <<>> /\ publishing' = [publishing EXCEPT ![1] = loop]
  <2>1. 1 \in 1..Len(publishing)
    BY <1>1, <1>4
  <2>2. /\ publishing' \in Seq(LoopRecord) /\ Len(publishing') = Len(publishing)
        /\ \A k \in 1..Len(publishing) :
             publishing'[k] = IF k = 1 THEN loop ELSE publishing[k]
    BY <1>1, <1>4, <2>1, ExceptSeq
  <2> QED
    BY <2>2 DEF LoopsGood
<1> QED
  BY <1>2, <1>3, <1>4

LEMMA LoopForgotten ==
  ASSUME PubSubTyped, LoopsGood, publishing # <<>>, publishing' = Tail(publishing)
  PROVE  publishing' \in Seq(LoopRecord) /\ LoopsGood'
<1>1. /\ publishing' \in Seq(LoopRecord)
      /\ \A k \in 1..Len(publishing') :
           k + 1 \in 1..Len(publishing) /\ publishing'[k] = publishing[k + 1]
  BY DEF PubSubTyped
<1> QED
  BY <1>1 DEF LoopsGood

LEMMA TopLoop ==
  ASSUME PubSubTyped, LoopsGood, publishing # <<>>
  PROVE  Head(publishing) = publishing[1] /\ GoodLoop(publishing[1])
BY DEF PubSubTyped, LoopsGood

(* The loop that calls is one of those above: subscribers do not change.   *)
LEMMA PublishKeeps ==
  ASSUME PubSubInv, UNCHANGED <<subscribers, subscriptions, dropped>>,
         \/ \E signal \in Signals : Publish(signal)
         \/ CallsSubscriber \/ SubscriberReturns \/ SubscriberThrows \/ RoundEnds
  PROVE  PubSubInv'
<1> USE DEF PubSubInv
<1> DEFINE top == publishing[1]
<1>1. ASSUME publishing' \in Seq(LoopRecord), LoopsGood' PROVE PubSubInv'
  BY <1>1 DEF PubSubTyped, NumbersDiffer, NoneDropped
<1>2. ASSUME NEW signal \in Signals, Publish(signal) PROVE PubSubInv'
  <2>1. AnySignal \in AllSignals
    BY DEF AllSignals
  <2>2. GoodLoop(LoopOver(signal, AnySignal))
    BY <2>1, NewLoopGood
  <2> QED
    BY <1>1, <1>2, <2>2, OtherLoops DEF Publish
<1>3. CASE CallsSubscriber
  <2> DEFINE i == Len(top.called) + 1
             loop == [top EXCEPT !.inside = TRUE, !.called = Append(@, top.copy[i])]
  <2>1. publishing # <<>> /\ Head(publishing) = top /\ GoodLoop(top)
    BY <1>3, TopLoop DEF CallsSubscriber
  <2>2. i <= Len(top.copy) /\ publishing' = [publishing EXCEPT ![1] = loop]
    BY <1>3, <2>1 DEF CallsSubscriber, Copy
  <2>3. /\ top \in LoopRecord /\ top.copy \in Seq(Subscription)
        /\ top.called \in Seq(Subscription) /\ i \in 1..Len(top.copy)
        /\ top.copy[i] \in Subscription
    BY <2>1, <2>2 DEF GoodLoop, LoopRecord
  <2>4. /\ loop.copy = top.copy /\ loop.before = top.before
        /\ loop.called = Append(top.called, top.copy[i])
        /\ loop \in LoopRecord
    <3>1. Append(top.called, top.copy[i]) \in Seq(Subscription)
      BY <2>3
    <3> QED
      BY <2>3, <3>1 DEF LoopRecord
  <2> HIDE DEF loop
  <2>5. GoodLoop(loop)
    BY <2>1, <2>3, <2>4 DEF GoodLoop
  <2> QED
    BY <1>1, <2>1, <2>2, <2>5, OtherLoops
<1>4. CASE SubscriberReturns
  <2> DEFINE loop == [top EXCEPT !.inside = FALSE]
  <2>1. publishing # <<>> /\ GoodLoop(top)
    BY <1>4, TopLoop DEF SubscriberReturns
  <2>2. publishing' = [publishing EXCEPT ![1] = loop]
    BY <1>4 DEF SubscriberReturns
  <2>3. /\ loop.copy = top.copy /\ loop.before = top.before
        /\ loop.called = top.called /\ loop \in LoopRecord
    BY <2>1 DEF GoodLoop, LoopRecord
  <2> HIDE DEF loop
  <2>4. GoodLoop(loop)
    BY <2>1, <2>3 DEF GoodLoop
  <2> QED
    BY <1>1, <2>1, <2>2, <2>4, OtherLoops
<1>5. CASE SubscriberThrows
  BY <1>1, <1>5, LoopForgotten DEF SubscriberThrows
<1>6. CASE RoundEnds
  <2>1. publishing # <<>> /\ Head(publishing) = top /\ GoodLoop(top)
    BY <1>6, TopLoop DEF RoundEnds
  <2>2. CASE top.of = AnySignal
    <3>1. top.signal \in Signals /\ top.signal \in AllSignals
      BY <2>1 DEF GoodLoop, LoopRecord, AllSignals
    <3>2. GoodLoop(LoopOver(top.signal, top.signal))
      BY <3>1, NewLoopGood
    <3>3. publishing' = <<LoopOver(top.signal, top.signal)>> \o Tail(publishing)
      BY <1>6, <2>1, <2>2 DEF RoundEnds
    <3> QED
      BY <1>1, <2>1, <3>2, <3>3, OtherLoops
  <2>3. CASE top.of # AnySignal
    <3>1. publishing' = Tail(publishing)
      BY <1>6, <2>1, <2>3 DEF RoundEnds
    <3> QED
      BY <1>1, <2>1, <3>1, LoopForgotten
  <2> QED
    BY <2>2, <2>3
<1> QED
  BY <1>2, <1>3, <1>4, <1>5, <1>6

LEMMA SubscribeKeeps ==
  ASSUME PubSubInv, NEW signal \in AllSignals, NEW context \in Contexts,
         Subscribe(signal, context)
  PROVE  PubSubInv'
<1> USE DEF PubSubInv
<1> DEFINE new == [context |-> context, number |-> subscriptions + 1]
<1>1. /\ subscriptions < MaxSubscriptions /\ subscriptions' = subscriptions + 1
      /\ subscribers' = [subscribers EXCEPT ![signal] = Append(@, new)]
      /\ UNCHANGED <<publishing, dropped>>
  BY DEF Subscribe
<1>2. /\ subscribers \in [AllSignals -> Seq(Subscription)]
      /\ subscriptions \in Nat /\ MaxSubscriptions \in Nat
  BY PubSubAssumption DEF PubSubTyped
<1>3. new \in Subscription /\ new.number = subscriptions + 1
  BY <1>1, <1>2 DEF Subscription
<1> HIDE DEF new
<1>4. PubSubTyped'
  <2>1. subscribers' \in [AllSignals -> Seq(Subscription)]
    BY <1>1, <1>2, <1>3
  <2>2. subscriptions' \in 0..MaxSubscriptions /\ dropped' \subseteq 1..subscriptions'
    BY <1>1, <1>2 DEF PubSubTyped
  <2> QED
    BY <1>1, <2>1, <2>2 DEF PubSubTyped
<1>5. \A s \in AllSignals : \A i \in 1..Len(subscribers'[s]) :
        \/ i \in 1..Len(subscribers[s]) /\ subscribers'[s][i] = subscribers[s][i]
        \/ /\ s = signal /\ i = Len(subscribers[signal]) + 1
           /\ subscribers'[s][i] = new
  BY <1>1, <1>2, <1>3
<1>6. \A s \in AllSignals : \A i \in 1..Len(subscribers[s]) :
        /\ subscribers[s][i].number \in 1..subscriptions
        /\ subscribers[s][i].number \notin dropped
  BY DEF NoneDropped
<1>7. NoneDropped'
  <2> SUFFICES ASSUME NEW s \in AllSignals, NEW i \in 1..Len(subscribers'[s])
               PROVE  /\ subscribers'[s][i].number \in 1..subscriptions'
                      /\ subscribers'[s][i].number \notin dropped'
    BY DEF NoneDropped
  <2>1. CASE i \in 1..Len(subscribers[s]) /\ subscribers'[s][i] = subscribers[s][i]
    BY <1>1, <1>2, <1>6, <2>1
  <2>2. CASE subscribers'[s][i] = new
    BY <1>1, <1>2, <1>3, <2>2 DEF PubSubTyped
  <2> QED
    BY <1>5, <2>1, <2>2
<1>8. NumbersDiffer'
  <2> SUFFICES ASSUME NEW s \in AllSignals, NEW t \in AllSignals,
                      NEW i \in 1..Len(subscribers'[s]),
                      NEW j \in 1..Len(subscribers'[t]),
                      subscribers'[s][i].number = subscribers'[t][j].number
               PROVE  s = t /\ i = j
    BY DEF NumbersDiffer
  <2>1. subscriptions + 1 \notin 1..subscriptions
    BY <1>2
  <2>2. CASE /\ i \in 1..Len(subscribers[s])
             /\ subscribers'[s][i] = subscribers[s][i]
    <3>1. subscribers'[t][j] # new
      BY <1>3, <1>6, <2>1, <2>2
    <3>2. /\ j \in 1..Len(subscribers[t])
          /\ subscribers'[t][j] = subscribers[t][j]
      BY <1>5, <3>1
    <3> QED
      BY <2>2, <3>2 DEF NumbersDiffer
  <2>3. CASE subscribers'[s][i] = new /\ s = signal /\ i = Len(subscribers[signal]) + 1
    <3>1. ~(/\ j \in 1..Len(subscribers[t])
            /\ subscribers'[t][j] = subscribers[t][j])
      BY <1>3, <1>6, <2>1, <2>3
    <3> QED
      BY <1>5, <2>3, <3>1
  <2> QED
    BY <1>5, <2>2, <2>3
<1>9. LoopsGood'
  BY <1>1 DEF LoopsGood
<1> QED
  BY <1>4, <1>7, <1>8, <1>9

LEMMA UnsubscribeKeeps ==
  ASSUME PubSubInv, NEW signal \in AllSignals,
         NEW leaving \in SUBSET ToSet(subscribers[signal]),
         Unsubscribe(signal, leaving)
  PROVE  PubSubInv'
<1> USE DEF PubSubInv
<1> DEFINE subs == subscribers[signal]
           places == {i \in 1..Len(subs) : subs[i] \notin leaving}
           left == Sublist(subs, places)
<1>1. /\ subscribers' = [subscribers EXCEPT ![signal] = left]
      /\ dropped' = dropped \cup {c.number : c \in leaving}
      /\ UNCHANGED <<publishing, subscriptions>>
  BY DEF Unsubscribe, Removed
<1>2. /\ subscribers \in [AllSignals -> Seq(Subscription)]
      /\ subs \in Seq(Subscription)
  BY DEF PubSubTyped
<1>3. \A c \in leaving : \E i \in 1..Len(subs) : c = subs[i]
  BY <1>2 DEF ToSet
<1>4. /\ left \in Seq(Subscription)
      /\ \A k \in 1..Len(left) :
           \E i \in places : Rank(places, i) = k /\ left[k] = subs[i]
  <2>1. places \in SUBSET (1..Len(subs))
    OBVIOUS
  <2> HIDE DEF places
  <2> QED
    BY <1>2, <2>1, SublistEntries
<1> HIDE DEF left
<1>5. \A s \in AllSignals : \A i \in 1..Len(subscribers[s]) :
        /\ subscribers[s][i].number \in 1..subscriptions
        /\ subscribers[s][i].number \notin dropped
  BY DEF NoneDropped
<1>6. PubSubTyped'
  <2>1. subscribers' \in [AllSignals -> Seq(Subscription)]
    BY <1>1, <1>2, <1>4
  <2>2. dropped' \subseteq 1..subscriptions
    <3>1. \A c \in leaving : c.number \in 1..subscriptions
      BY <1>3, <1>5
    <3>2. dropped \subseteq 1..subscriptions
      BY DEF PubSubTyped
    <3> QED
      BY <1>1, <3>1, <3>2
  <2> QED
    BY <1>1, <2>1, <2>2 DEF PubSubTyped
<1>7. /\ subscribers'[signal] = left
      /\ \A s \in AllSignals : s # signal => subscribers'[s] = subscribers[s]
  BY <1>1, <1>2
<1>8. \A k \in 1..Len(left) : \E i \in 1..Len(subs) :
        left[k] = subs[i] /\ subs[i] \notin leaving /\ Rank(places, i) = k
  BY <1>4
<1>9. NoneDropped'
  <2> SUFFICES ASSUME NEW s \in AllSignals, NEW k \in 1..Len(subscribers'[s])
               PROVE  /\ subscribers'[s][k].number \in 1..subscriptions
                      /\ subscribers'[s][k].number \notin dropped'
    BY <1>1 DEF NoneDropped
  <2>1. PICK i \in 1..Len(subscribers[s]) :
          /\ subscribers'[s][k] = subscribers[s][i]
          /\ subscribers[s][i] \notin leaving \/ s # signal
    <3>1. CASE s = signal
      BY <1>7, <1>8, <3>1
    <3>2. CASE s # signal
      BY <1>7, <3>2
    <3> QED
      BY <3>1, <3>2
  <2>2. \A c \in leaving : c.number # subscribers[s][i].number
    <3> SUFFICES ASSUME NEW c \in leaving, c.number = subscribers[s][i].number
                 PROVE  FALSE
      OBVIOUS
    <3>1. PICK j \in 1..Len(subs) : c = subs[j]
      BY <1>3
    <3>2. s = signal /\ i = j
      BY <3>1 DEF NumbersDiffer
    <3> QED
      BY <2>1, <3>1, <3>2
  <2> QED
    BY <1>1, <1>5, <2>1, <2>2
<1>10. NumbersDiffer'
  <2> SUFFICES ASSUME NEW s \in AllSignals, NEW t \in AllSignals,
                      NEW k \in 1..Len(subscribers'[s]),
                      NEW l \in 1..Len(subscribers'[t]),
                      subscribers'[s][k].number = subscribers'[t][l].number
               PROVE  s = t /\ k = l
    BY DEF NumbersDiffer
  <2>1. PICK i \in 1..Len(subscribers[s]) :
          /\ subscribers'[s][k] = subscribers[s][i]
          /\ k = IF s = signal THEN Rank(places, i) ELSE i
    BY <1>7, <1>8
  <2>2. PICK j \in 1..Len(subscribers[t]) :
          /\ subscribers'[t][l] = subscribers[t][j]
          /\ l = IF t = signal THEN Rank(places, j) ELSE j
    BY <1>7, <1>8
  <2>3. s = t /\ i = j
    BY <2>1, <2>2 DEF NumbersDiffer
  <2> QED
    BY <2>1, <2>2, <2>3
<1>11. LoopsGood'
  BY <1>1 DEF LoopsGood
<1> QED
  BY <1>6, <1>9, <1>10, <1>11

LEMMA PubSubStep == PubSubInv /\ [PubSubNext]_pubSubVars => PubSubInv'
<1> SUFFICES ASSUME PubSubInv, [PubSubNext]_pubSubVars PROVE PubSubInv'
  OBVIOUS
<1>1. CASE CallsSubscriber \/ SubscriberReturns \/ SubscriberThrows \/ RoundEnds
  BY <1>1, PublishKeeps
     DEF CallsSubscriber, SubscriberReturns, SubscriberThrows, RoundEnds
<1>2. ASSUME NEW signal \in Signals, Publish(signal) PROVE PubSubInv'
  BY <1>2, PublishKeeps DEF Publish
<1>3. ASSUME NEW signal \in AllSignals, NEW context \in Contexts,
             Subscribe(signal, context)
      PROVE  PubSubInv'
  BY <1>3, SubscribeKeeps
<1>4. ASSUME NEW signal \in AllSignals, NEW context \in Contexts,
             UnsubscribeAll(signal, context)
      PROVE  PubSubInv'
  <2> DEFINE leaving == {c \in ToSet(subscribers[signal]) : c.context = context}
  <2>1. leaving \in SUBSET ToSet(subscribers[signal])
    OBVIOUS
  <2>2. Unsubscribe(signal, leaving)
    BY <1>4 DEF UnsubscribeAll
  <2> QED
    BY <2>1, <2>2, UnsubscribeKeeps
<1>5. ASSUME NEW signal \in AllSignals, NEW number \in 1..MaxSubscriptions,
             UnsubscribeOne(signal, number)
      PROVE  PubSubInv'
  <2> DEFINE leaving == {c \in ToSet(subscribers[signal]) : c.number = number}
  <2>1. leaving \in SUBSET ToSet(subscribers[signal])
    OBVIOUS
  <2>2. Unsubscribe(signal, leaving)
    BY <1>5 DEF UnsubscribeOne
  <2> QED
    BY <2>1, <2>2, UnsubscribeKeeps
<1>6. CASE UNCHANGED pubSubVars
  BY <1>6 DEF pubSubVars, PubSubInv, PubSubTyped, NumbersDiffer, NoneDropped,
              LoopsGood
<1> QED
  BY <1>1, <1>2, <1>3, <1>4, <1>5, <1>6 DEF PubSubNext

(* Who stays subscribed while a publish runs is called by it once, and who *)
(* had unsubscribed before is not, for all nestings of publish, subscribe, *)
(* unsubscribe and exceptions (PubSub#publish).                            *)
THEOREM SubscribersAreCalled == PubSubSpec => []SubscribersHear
<1>1. PubSubInv => SubscribersHear
  <2> SUFFICES ASSUME PubSubInv, NEW k \in 1..Len(publishing)
               PROVE  LET loop == publishing[k] IN
                      /\ IsInjective(loop.called)
                      /\ \A c \in ToSet(loop.called) : c.number \notin loop.before
                      /\ Ended(loop) =>
                           ToSet(loop.copy) \cap ToSet(subscribers[loop.of])
                             \subseteq ToSet(loop.called)
    BY DEF SubscribersHear
  <2> DEFINE loop == publishing[k]
  <2>1. GoodLoop(loop)
    BY DEF PubSubInv, LoopsGood
  <2> HIDE DEF loop
  <2>2. /\ loop.copy \in Seq(Subscription) /\ loop.called \in Seq(Subscription)
        /\ Len(loop.called) \in Nat /\ Len(loop.copy) \in Nat
        /\ DOMAIN loop.called = 1..Len(loop.called)
        /\ DOMAIN loop.copy = 1..Len(loop.copy)
    BY <2>1, LenProperties DEF GoodLoop, LoopRecord
  <2>3. IsInjective(loop.called)
    BY <2>1, <2>2 DEF GoodLoop, IsInjective
  <2>4. \A c \in ToSet(loop.called) : c.number \notin loop.before
    BY <2>1, <2>2 DEF GoodLoop, ToSet
  <2>5. Ended(loop) => ToSet(loop.copy) \subseteq ToSet(loop.called)
    BY <2>1, <2>2 DEF GoodLoop, ToSet, Ended, Copy
  <2> QED
    BY <2>3, <2>4, <2>5 DEF loop
<1> QED
  BY <1>1, PubSubBegins, PubSubStep, PTL DEF PubSubSpec
---------------------------------------------------------------------------
(* Later *)

\* Only a replay waits for its next item, and a cancelback is no replay.
CallRecord ==
  {call \in [of : Channels \cup {"cancel"}, at : Nat, inside : BOOLEAN] :
     /\ call.of = "cancel" => call.at = 0
     /\ call.at = 0 => call.inside}

LaterTyped ==
  /\ handler \in [Channels -> Nat]
  /\ waiting \in [Channels -> Seq(Nat)]
  /\ calls \in Seq(CallRecord)
  /\ came \in [Channels -> Nat]
  /\ given \in [Channels -> Seq(Nat \X Nat)]
  /\ disturbed \in [Channels -> BOOLEAN]

(* A call that replays the items of a channel, and the place up to which   *)
(* it has given them.                                                      *)
ReplayOf(call, c) == call.of = c /\ call.at > 0
Reached(call) == IF call.inside THEN call.at ELSE call.at - 1

AllCame == \A c \in Channels : Items(c) \cup Waits(c) = 1..came[c]

(* A replay is only begun when there is a handler: nothing is put into its *)
(* list from then on, so what it has passed has been given.                *)
PassedGiven ==
  \A c \in Channels : \A k \in 1..Len(calls) :
    ReplayOf(calls[k], c) =>
      /\ handler[c] > 0
      /\ \A i \in 1..Len(waiting[c]) :
           i <= Reached(calls[k]) => waiting[c][i] \in Items(c)

(* As long as no replay was disturbed there is one at most, and what waits *)
(* behind the place it has reached was not given.                          *)
OnceEach(c) ==
  /\ \A i, j \in 1..Len(given[c]) : given[c][i][2] = given[c][j][2] => i = j
  /\ \A i, j \in 1..Len(waiting[c]) : waiting[c][i] = waiting[c][j] => i = j
  /\ \A k, l \in 1..Len(calls) :
       ReplayOf(calls[k], c) /\ ReplayOf(calls[l], c) => k = l
  /\ \A i \in 1..Len(waiting[c]) :
       waiting[c][i] \in Items(c) =>
         \E k \in 1..Len(calls) : ReplayOf(calls[k], c) /\ i <= Reached(calls[k])
GivenOnce == \A c \in Channels : ~disturbed[c] => OnceEach(c)

LaterInv == LaterTyped /\ AllCame /\ PassedGiven /\ GivenOnce

LEMMA LaterBegins == LaterInit => LaterInv
<1> SUFFICES ASSUME LaterInit PROVE LaterInv
  OBVIOUS
<1>1. /\ handler = [c \in Channels |-> 0] /\ waiting = [c \in Channels |-> <<>>]
      /\ calls = <<>> /\ came = [c \in Channels |-> 0]
      /\ given = [c \in Channels |-> <<>>]
      /\ disturbed = [c \in Channels |-> FALSE]
  BY DEF LaterInit
<1>2. \A c \in Channels : /\ waiting[c] = <<>> /\ given[c] = <<>> /\ came[c] = 0
                          /\ Len(waiting[c]) = 0 /\ Len(given[c]) = 0
  BY <1>1
<1>3. LaterTyped
  BY <1>1 DEF LaterTyped
<1>4. AllCame
  BY <1>2 DEF AllCame, Items, Waits
<1>5. PassedGiven
  BY <1>1 DEF PassedGiven
<1>6. GivenOnce
  BY <1>1, <1>2 DEF GivenOnce, OnceEach
<1> QED
  BY <1>3, <1>4, <1>5, <1>6 DEF LaterInv

(* One more item is given to a handler, or waits. *)
LEMMA OneMoreGiven ==
  ASSUME LaterTyped, NEW c \in Channels, NEW h \in Nat, NEW item \in Nat,
         given' = [given EXCEPT ![c] = Append(@, <<h, item>>)]
  PROVE  /\ given' \in [Channels -> Seq(Nat \X Nat)]
         /\ Len(given'[c]) = Len(given[c]) + 1
         /\ given'[c][Len(given[c]) + 1][2] = item
         /\ \A i \in 1..Len(given[c]) : given'[c][i] = given[c][i]
         /\ Items(c)' = Items(c) \cup {item}
         /\ \A d \in Channels : d # c => given'[d] = given[d] /\ Items(d)' = Items(d)
<1>1. given \in [Channels -> Seq(Nat \X Nat)] /\ given[c] \in Seq(Nat \X Nat)
  BY DEF LaterTyped
<1>2. /\ given'[c] = Append(given[c], <<h, item>>)
      /\ \A d \in Channels : d # c => given'[d] = given[d]
  BY <1>1
<1>3. <<h, item>> \in Nat \X Nat /\ <<h, item>>[2] = item
  OBVIOUS
<1>4. /\ given'[c] \in Seq(Nat \X Nat) /\ Len(given'[c]) = Len(given[c]) + 1
      /\ given'[c][Len(given[c]) + 1] = <<h, item>>
      /\ \A i \in 1..Len(given[c]) : given'[c][i] = given[c][i]
      /\ Len(given[c]) \in Nat
  BY <1>1, <1>2, <1>3
<1>5. given' \in [Channels -> Seq(Nat \X Nat)]
  BY <1>1, <1>3
<1>6. Items(c)' = Items(c) \cup {item}
  <2>1. \A x \in Items(c) : x \in Items(c)'
    BY <1>4 DEF Items
  <2>2. item \in Items(c)'
    <3>1. Len(given[c]) + 1 \in 1..Len(given'[c])
      BY <1>4
    <3> QED
      BY <1>3, <1>4, <3>1 DEF Items
  <2>3. ASSUME NEW x \in Items(c)' PROVE x \in Items(c) \cup {item}
    <3>1. PICK i \in 1..Len(given'[c]) : x = given'[c][i][2]
      BY DEF Items
    <3>2. i \in 1..Len(given[c]) \/ i = Len(given[c]) + 1
      BY <1>4
    <3> QED
      BY <1>3, <1>4, <3>1, <3>2 DEF Items
  <2> QED
    BY <2>1, <2>2, <2>3
<1>7. \A d \in Channels : d # c => Items(d)' = Items(d)
  BY <1>2 DEF Items
<1> QED
  BY <1>2, <1>3, <1>4, <1>5, <1>6, <1>7

LEMMA OneMoreWaits ==
  ASSUME LaterTyped, NEW c \in Channels, NEW item \in Nat,
         waiting' = [waiting EXCEPT ![c] = Append(@, item)]
  PROVE  /\ waiting' \in [Channels -> Seq(Nat)]
         /\ Len(waiting'[c]) = Len(waiting[c]) + 1
         /\ waiting'[c][Len(waiting[c]) + 1] = item
         /\ \A i \in 1..Len(waiting[c]) : waiting'[c][i] = waiting[c][i]
         /\ Waits(c)' = Waits(c) \cup {item}
         /\ \A d \in Channels : d # c => waiting'[d] = waiting[d] /\ Waits(d)' = Waits(d)
<1>1. waiting \in [Channels -> Seq(Nat)] /\ waiting[c] \in Seq(Nat)
  BY DEF LaterTyped
<1>2. /\ waiting'[c] = Append(waiting[c], item)
      /\ \A d \in Channels : d # c => waiting'[d] = waiting[d]
  BY <1>1
<1>3. /\ waiting'[c] \in Seq(Nat) /\ Len(waiting'[c]) = Len(waiting[c]) + 1
      /\ waiting'[c][Len(waiting[c]) + 1] = item
      /\ \A i \in 1..Len(waiting[c]) : waiting'[c][i] = waiting[c][i]
      /\ Len(waiting[c]) \in Nat
  BY <1>1, <1>2
<1>4. waiting' \in [Channels -> Seq(Nat)]
  BY <1>1
<1>5. Waits(c)' = Waits(c) \cup {item}
  <2>1. \A x \in Waits(c) : x \in Waits(c)'
    BY <1>3 DEF Waits
  <2>2. item \in Waits(c)'
    <3>1. Len(waiting[c]) + 1 \in 1..Len(waiting'[c])
      BY <1>3
    <3> QED
      BY <1>3, <3>1 DEF Waits
  <2>3. ASSUME NEW x \in Waits(c)' PROVE x \in Waits(c) \cup {item}
    <3>1. PICK i \in 1..Len(waiting'[c]) : x = waiting'[c][i]
      BY DEF Waits
    <3>2. i \in 1..Len(waiting[c]) \/ i = Len(waiting[c]) + 1
      BY <1>3
    <3> QED
      BY <1>3, <3>1, <3>2 DEF Waits
  <2> QED
    BY <2>1, <2>2, <2>3
<1>6. \A d \in Channels : d # c => Waits(d)' = Waits(d)
  BY <1>2 DEF Waits
<1> QED
  BY <1>2, <1>3, <1>4, <1>5, <1>6

LEMMA CallPushed ==
  ASSUME calls \in Seq(CallRecord), NEW new \in CallRecord,
         calls' = <<new>> \o calls
  PROVE  /\ calls' \in Seq(CallRecord) /\ Len(calls') = Len(calls) + 1
         /\ calls'[1] = new
         /\ \A k \in 1..Len(calls') :
              k = 1 \/ (k - 1 \in 1..Len(calls) /\ calls'[k] = calls[k - 1])
         /\ \A k \in 1..Len(calls) :
              k + 1 \in 1..Len(calls') /\ calls'[k + 1] = calls[k]
OBVIOUS

LEMMA CallPopped ==
  ASSUME calls \in Seq(CallRecord), calls # <<>>, calls' = Tail(calls)
  PROVE  /\ calls' \in Seq(CallRecord)
         /\ \A k \in 1..Len(calls') :
              k + 1 \in 1..Len(calls) /\ calls'[k] = calls[k + 1]
         /\ \A k \in 1..Len(calls) :
              k = 1 \/ (k - 1 \in 1..Len(calls') /\ calls'[k - 1] = calls[k])
<1>1. /\ calls' \in Seq(CallRecord) /\ Len(calls') = Len(calls) - 1
      /\ \A k \in 1..Len(calls') : calls'[k] = calls[k + 1]
      /\ Len(calls) \in Nat
  OBVIOUS
<1>2. ASSUME NEW k \in 1..Len(calls), k # 1
      PROVE  k - 1 \in 1..Len(calls') /\ calls'[k - 1] = calls[k]
  <2>1. k - 1 \in 1..Len(calls') /\ (k - 1) + 1 = k
    BY <1>1, <1>2
  <2> QED
    BY <1>1, <2>1
<1>3. \A k \in 1..Len(calls') : k + 1 \in 1..Len(calls)
  BY <1>1
<1> QED
  BY <1>1, <1>2, <1>3

LEMMA CallReplaced ==
  ASSUME calls \in Seq(CallRecord), calls # <<>>, NEW new \in CallRecord,
         \/ calls' = <<new>> \o Tail(calls)
         \/ calls' = [calls EXCEPT ![1] = new]
  PROVE  /\ calls' \in Seq(CallRecord) /\ Len(calls') = Len(calls)
         /\ calls'[1] = new /\ 1 \in 1..Len(calls)
         /\ \A k \in 1..Len(calls) : k # 1 => calls'[k] = calls[k]
<1>1. CASE calls' = <<new>> \o Tail(calls)
  BY <1>1
<1>2. CASE calls' = [calls EXCEPT ![1] = new]
  <2>1. 1 \in 1..Len(calls)
    OBVIOUS
  <2> QED
    BY <1>2, <2>1, ExceptSeq
<1> QED
  BY <1>1, <1>2

(* A move among the calls that gives nothing and takes nothing: the calls  *)
(* may be counted otherwise, and a replay that is left is disturbed.       *)
LEMMA QuietMove ==
  ASSUME LaterInv, calls' \in Seq(CallRecord),
         UNCHANGED <<handler, waiting, came, given>>,
         disturbed' \in [Channels -> BOOLEAN],
         \A c \in Channels : disturbed[c] => disturbed'[c],
         NEW shift \in Int,
         \A c \in Channels : \A k \in 1..Len(calls') :
           ReplayOf(calls'[k], c) =>
             /\ k + shift \in 1..Len(calls) /\ ReplayOf(calls[k + shift], c)
             /\ Reached(calls'[k]) = Reached(calls[k + shift]),
         \A c \in Channels : ~disturbed'[c] => \A k \in 1..Len(calls) :
           ReplayOf(calls[k], c) =>
             /\ k - shift \in 1..Len(calls') /\ ReplayOf(calls'[k - shift], c)
             /\ Reached(calls'[k - shift]) = Reached(calls[k])
  PROVE  LaterInv'
<1> USE DEF LaterInv
<1>1. \A c \in Channels : Items(c)' = Items(c) /\ Waits(c)' = Waits(c)
  BY DEF Items, Waits
<1>2. LaterTyped'
  BY DEF LaterTyped
<1>3. AllCame'
  BY <1>1 DEF AllCame
<1>4. PassedGiven'
  <2> SUFFICES ASSUME NEW c \in Channels, NEW k \in 1..Len(calls'),
                      ReplayOf(calls'[k], c)
               PROVE  /\ handler[c] > 0
                      /\ \A i \in 1..Len(waiting[c]) :
                           i <= Reached(calls'[k]) => waiting[c][i] \in Items(c)
    BY <1>1 DEF PassedGiven, ReplayOf, Reached
  <2>1. /\ k + shift \in 1..Len(calls) /\ ReplayOf(calls[k + shift], c)
        /\ Reached(calls'[k]) = Reached(calls[k + shift])
    OBVIOUS
  <2> QED
    BY <2>1 DEF PassedGiven
<1>5. ASSUME NEW c \in Channels, ~disturbed'[c] PROVE OnceEach(c)'
  <2>1. OnceEach(c)
    BY <1>5 DEF GivenOnce
  <2>2. ASSUME NEW k \in 1..Len(calls'), NEW l \in 1..Len(calls'),
               ReplayOf(calls'[k], c), ReplayOf(calls'[l], c)
        PROVE  k = l
    <3>1. /\ k + shift \in 1..Len(calls) /\ ReplayOf(calls[k + shift], c)
          /\ l + shift \in 1..Len(calls) /\ ReplayOf(calls[l + shift], c)
      BY <2>2
    <3>2. k + shift = l + shift
      BY <2>1, <3>1 DEF OnceEach
    <3> QED
      BY <3>2
  <2>3. ASSUME NEW i \in 1..Len(waiting[c]), waiting[c][i] \in Items(c)
        PROVE  \E k \in 1..Len(calls') :
                 ReplayOf(calls'[k], c) /\ i <= Reached(calls'[k])
    <3>1. PICK k \in 1..Len(calls) : ReplayOf(calls[k], c) /\ i <= Reached(calls[k])
      BY <2>1, <2>3 DEF OnceEach
    <3>2. /\ k - shift \in 1..Len(calls') /\ ReplayOf(calls'[k - shift], c)
          /\ Reached(calls'[k - shift]) = Reached(calls[k])
      BY <1>5, <3>1
    <3> QED
      BY <3>1, <3>2
  <2> QED
    BY <1>1, <2>1, <2>2, <2>3 DEF OnceEach, ReplayOf, Reached
<1>6. GivenOnce'
  BY <1>5 DEF GivenOnce
<1> QED
  BY <1>2, <1>3, <1>4, <1>6
(* The item that comes is a new one. *)
LEMMA ComesKeeps ==
  ASSUME LaterInv, NEW c \in Channels, Comes(c)
  PROVE  LaterInv'
<1> USE DEF LaterInv
<1> DEFINE item == came[c] + 1
           new == [of |-> c, at |-> 0, inside |-> TRUE]
<1>1. /\ came' = [came EXCEPT ![c] = item] /\ came'[c] = item
      /\ item \in Nat /\ came[c] \in Nat
      /\ \A d \in Channels : d # c => came'[d] = came[d]
      /\ came' \in [Channels -> Nat]
      /\ UNCHANGED <<handler, disturbed>>
  BY DEF Comes, LaterTyped
<1>2. /\ \A d \in Channels : Items(d) \cup Waits(d) = 1..came[d]
      /\ item \notin Items(c) /\ item \notin Waits(c)
      /\ 1..item = 1..came[c] \cup {item}
  <2>1. Items(c) \cup Waits(c) = 1..came[c]
    BY DEF AllCame
  <2>2. item \notin 1..came[c]
    BY <1>1
  <2>3. 1..item = 1..came[c] \cup {item}
    BY <1>1
  <2> QED
    BY <2>1, <2>2, <2>3 DEF AllCame
<1>3. \A d \in Channels : /\ given[d] \in Seq(Nat \X Nat) /\ Len(given[d]) \in Nat
                          /\ waiting[d] \in Seq(Nat) /\ Len(waiting[d]) \in Nat
  BY LenProperties DEF LaterTyped
<1>4. CASE handler[c] > 0
  <2>1. /\ calls' = <<new>> \o calls /\ waiting' = waiting
        /\ given' = [given EXCEPT ![c] = Append(@, <<handler[c], item>>)]
    BY <1>1, <1>4 DEF Comes, Call
  <2>2. new \in CallRecord /\ ~ReplayOf(new, c) /\ \A d \in Channels : ~ReplayOf(new, d)
    BY DEF CallRecord, ReplayOf
  <2>3. handler[c] \in Nat
    BY DEF LaterTyped
  <2> HIDE DEF new
  <2>4. /\ calls' \in Seq(CallRecord) /\ Len(calls') = Len(calls) + 1
        /\ calls'[1] = new
        /\ \A k \in 1..Len(calls') :
             k = 1 \/ (k - 1 \in 1..Len(calls) /\ calls'[k] = calls[k - 1])
        /\ \A k \in 1..Len(calls) :
             k + 1 \in 1..Len(calls') /\ calls'[k + 1] = calls[k]
    BY <2>1, <2>2, CallPushed DEF LaterTyped
  <2>5. /\ given' \in [Channels -> Seq(Nat \X Nat)]
        /\ Len(given'[c]) = Len(given[c]) + 1
        /\ given'[c][Len(given[c]) + 1][2] = item
        /\ \A i \in 1..Len(given[c]) : given'[c][i] = given[c][i]
        /\ Items(c)' = Items(c) \cup {item}
        /\ \A d \in Channels : d # c => given'[d] = given[d] /\ Items(d)' = Items(d)
    BY <1>1, <2>1, <2>3, OneMoreGiven
  <2>6. \A d \in Channels : Waits(d)' = Waits(d)
    BY <2>1 DEF Waits
  <2>7. LaterTyped'
    BY <1>1, <2>1, <2>4, <2>5 DEF LaterTyped
  <2>8. AllCame'
    BY <1>1, <1>2, <2>5, <2>6 DEF AllCame
  <2>9. PassedGiven'
    <3> SUFFICES ASSUME NEW d \in Channels, NEW k \in 1..Len(calls'),
                        ReplayOf(calls'[k], d)
                 PROVE  /\ handler[d] > 0
                        /\ \A i \in 1..Len(waiting[d]) :
                             i <= Reached(calls'[k]) => waiting[d][i] \in Items(d)'
      BY <1>1, <2>1 DEF PassedGiven, ReplayOf, Reached
    <3>1. k - 1 \in 1..Len(calls) /\ calls'[k] = calls[k - 1]
      BY <2>2, <2>4
    <3>2. /\ handler[d] > 0
          /\ \A i \in 1..Len(waiting[d]) :
               i <= Reached(calls'[k]) => waiting[d][i] \in Items(d)
      BY <3>1 DEF PassedGiven
    <3> QED
      BY <2>5, <3>2
  <2>10. ASSUME NEW d \in Channels, ~disturbed[d] PROVE OnceEach(d)'
    <3>1. OnceEach(d)
      BY <2>10 DEF GivenOnce
    <3>2. \A i, j \in 1..Len(given'[d]) : given'[d][i][2] = given'[d][j][2] => i = j
      <4>1. CASE d # c
        BY <2>5, <3>1, <4>1 DEF OnceEach
      <4>2. CASE d = c
        <5>1. \A i \in 1..Len(given[c]) : given[c][i][2] # item
          BY <1>2 DEF Items
        <5>2. \A i \in 1..Len(given'[c]) : i \in 1..Len(given[c]) \/ i = Len(given[c]) + 1
          BY <1>3, <2>5
        <5>3. \A i, j \in 1..Len(given[c]) : given[c][i][2] = given[c][j][2] => i = j
          BY <3>1, <4>2 DEF OnceEach
        <5>4. \A i \in 1..Len(given'[c]) :
                \/ i = Len(given[c]) + 1 /\ given'[c][i][2] = item
                \/ /\ i \in 1..Len(given[c]) /\ given'[c][i][2] = given[c][i][2]
                   /\ given'[c][i][2] # item
          BY <2>5, <5>1, <5>2
        <5> QED
          BY <4>2, <5>3, <5>4
      <4> QED
        BY <4>1, <4>2
    <3>3. ASSUME NEW k \in 1..Len(calls'), NEW l \in 1..Len(calls'),
                 ReplayOf(calls'[k], d), ReplayOf(calls'[l], d)
          PROVE  k = l
      <4>1. /\ k - 1 \in 1..Len(calls) /\ calls'[k] = calls[k - 1]
            /\ l - 1 \in 1..Len(calls) /\ calls'[l] = calls[l - 1]
        BY <2>2, <2>4, <3>3
      <4>2. k - 1 = l - 1
        BY <3>1, <3>3, <4>1 DEF OnceEach
      <4> QED
        BY <4>2
    <3>4. ASSUME NEW i \in 1..Len(waiting[d]), waiting[d][i] \in Items(d)'
          PROVE  \E k \in 1..Len(calls') :
                   ReplayOf(calls'[k], d) /\ i <= Reached(calls'[k])
      <4>1. waiting[d][i] \in Items(d)
        <5>1. waiting[d][i] \in Waits(d)
          BY DEF Waits
        <5>2. d = c => waiting[d][i] # item
          BY <1>2, <5>1
        <5> QED
          BY <2>5, <3>4, <5>2
      <4>2. PICK k \in 1..Len(calls) : ReplayOf(calls[k], d) /\ i <= Reached(calls[k])
        BY <3>1, <4>1 DEF OnceEach
      <4> QED
        BY <2>4, <4>2
    <3> QED
      BY <2>1, <3>1, <3>2, <3>3, <3>4 DEF OnceEach, ReplayOf, Reached
  <2>11. GivenOnce'
    BY <1>1, <2>10 DEF GivenOnce
  <2> QED
    BY <2>7, <2>8, <2>9, <2>11
<1>5. CASE ~(handler[c] > 0)
  <2>1. /\ waiting' = [waiting EXCEPT ![c] = Append(@, item)]
        /\ UNCHANGED <<calls, given>>
    BY <1>1, <1>5 DEF Comes
  <2>2. /\ waiting' \in [Channels -> Seq(Nat)]
        /\ Len(waiting'[c]) = Len(waiting[c]) + 1
        /\ waiting'[c][Len(waiting[c]) + 1] = item
        /\ \A i \in 1..Len(waiting[c]) : waiting'[c][i] = waiting[c][i]
        /\ Waits(c)' = Waits(c) \cup {item}
        /\ \A d \in Channels : d # c => waiting'[d] = waiting[d] /\ Waits(d)' = Waits(d)
    BY <1>1, <2>1, OneMoreWaits
  <2>3. \A d \in Channels : Items(d)' = Items(d)
    BY <2>1 DEF Items
  <2>4. \A k \in 1..Len(calls) : ~ReplayOf(calls[k], c)
    BY <1>5 DEF PassedGiven
  <2>5. LaterTyped'
    BY <1>1, <2>1, <2>2 DEF LaterTyped
  <2>6. AllCame'
    BY <1>1, <1>2, <2>2, <2>3 DEF AllCame
  <2>7. PassedGiven'
    BY <1>1, <2>1, <2>2, <2>3, <2>4 DEF PassedGiven, ReplayOf, Reached
  <2>8. ASSUME NEW d \in Channels, ~disturbed[d] PROVE OnceEach(d)'
    <3>1. OnceEach(d)
      BY <2>8 DEF GivenOnce
    <3>2. CASE d # c
      <4>1. waiting'[d] = waiting[d] /\ given' = given /\ calls' = calls
        BY <2>1, <2>2, <3>2
      <4>2. Items(d)' = Items(d)
        BY <2>3
      <4> QED
        BY <3>1, <4>1, <4>2 DEF OnceEach
    <3>3. CASE d = c
      <4>1. \A i \in 1..Len(waiting'[c]) : i \in 1..Len(waiting[c]) \/ i = Len(waiting[c]) + 1
        BY <1>3, <2>2
      <4>2. \A i \in 1..Len(waiting[c]) : waiting[c][i] # item
        BY <1>2 DEF Waits
      <4>3. \A i, j \in 1..Len(waiting'[c]) : waiting'[c][i] = waiting'[c][j] => i = j
        <5>1. \A i, j \in 1..Len(waiting[c]) : waiting[c][i] = waiting[c][j] => i = j
          BY <3>1, <3>3 DEF OnceEach
        <5>2. \A i \in 1..Len(waiting'[c]) :
                \/ i = Len(waiting[c]) + 1 /\ waiting'[c][i] = item
                \/ /\ i \in 1..Len(waiting[c]) /\ waiting'[c][i] = waiting[c][i]
                   /\ waiting'[c][i] # item
          BY <2>2, <4>1, <4>2
        <5> QED
          BY <5>1, <5>2
      <4>4. \A i \in 1..Len(waiting'[c]) : waiting'[c][i] \notin Items(c)
        <5>1. \A i \in 1..Len(waiting[c]) : waiting[c][i] \notin Items(c)
          BY <2>4, <3>1, <3>3 DEF OnceEach
        <5> QED
          BY <1>2, <2>2, <4>1, <5>1
      <4> QED
        BY <2>1, <2>3, <3>1, <3>3, <4>3, <4>4 DEF OnceEach, ReplayOf, Reached
    <3> QED
      BY <3>2, <3>3
  <2>9. GivenOnce'
    BY <1>1, <2>8 DEF GivenOnce
  <2> QED
    BY <2>5, <2>6, <2>7, <2>9
<1> QED
  BY <1>4, <1>5

(* A replay begins: it has given nothing yet. *)
LEMMA SetHandlerKeeps ==
  ASSUME LaterInv, NEW c \in Channels, SetHandler(c)
  PROVE  LaterInv'
<1> USE DEF LaterInv
<1> DEFINE new == [of |-> c, at |-> 1, inside |-> FALSE]
<1>1. /\ handler' = [handler EXCEPT ![c] = @ + 1]
      /\ calls' = <<new>> \o calls
      /\ disturbed' = [disturbed EXCEPT ![c] = @ \/ Replaying(c)]
      /\ UNCHANGED <<waiting, came, given>>
  BY DEF SetHandler, Call
<1>2. /\ new \in CallRecord /\ Reached(new) = 0 /\ ReplayOf(new, c)
      /\ \A d \in Channels : d # c => ~ReplayOf(new, d)
  <2>1. /\ new \in [of : Channels \cup {"cancel"}, at : Nat, inside : BOOLEAN]
        /\ new.of = c /\ new.at = 1 /\ new.inside = FALSE
    OBVIOUS
  <2>2. c # "cancel"
    BY DEF Channels
  <2> HIDE DEF new
  <2> QED
    BY <2>1, <2>2 DEF CallRecord, ReplayOf, Reached
<1> HIDE DEF new
<1>3. /\ calls' \in Seq(CallRecord) /\ Len(calls') = Len(calls) + 1
      /\ calls'[1] = new
      /\ \A k \in 1..Len(calls') :
           k = 1 \/ (k - 1 \in 1..Len(calls) /\ calls'[k] = calls[k - 1])
      /\ \A k \in 1..Len(calls) :
           k + 1 \in 1..Len(calls') /\ calls'[k + 1] = calls[k]
  BY <1>1, <1>2, CallPushed DEF LaterTyped
<1>4. /\ handler' \in [Channels -> Nat] /\ handler'[c] > 0
      /\ \A d \in Channels : d # c => handler'[d] = handler[d]
  BY <1>1 DEF LaterTyped
<1>5. /\ disturbed' \in [Channels -> BOOLEAN]
      /\ \A d \in Channels : disturbed[d] => disturbed'[d]
      /\ ~disturbed'[c] => ~Replaying(c)
  <2>1. disturbed \in [Channels -> BOOLEAN] /\ Replaying(c) \in BOOLEAN
    BY DEF LaterTyped, Replaying
  <2> QED
    BY <1>1, <2>1
<1>6. \A d \in Channels : Items(d)' = Items(d) /\ Waits(d)' = Waits(d)
  BY <1>1 DEF Items, Waits
<1>7. LaterTyped'
  BY <1>1, <1>3, <1>4, <1>5 DEF LaterTyped
<1>8. AllCame'
  BY <1>1, <1>6 DEF AllCame
<1>9. PassedGiven'
  <2> SUFFICES ASSUME NEW d \in Channels, NEW k \in 1..Len(calls'),
                      ReplayOf(calls'[k], d)
               PROVE  /\ handler'[d] > 0
                      /\ \A i \in 1..Len(waiting[d]) :
                           i <= Reached(calls'[k]) => waiting[d][i] \in Items(d)
    BY <1>1, <1>6 DEF PassedGiven, ReplayOf, Reached
  <2>1. CASE k = 1
    <3>1. d = c /\ Reached(calls'[k]) = 0
      BY <1>2, <1>3, <2>1
    <3> QED
      BY <1>4, <3>1
  <2>2. CASE k # 1
    <3>1. k - 1 \in 1..Len(calls) /\ calls'[k] = calls[k - 1]
      BY <1>3, <2>2
    <3>2. /\ handler[d] > 0
          /\ \A i \in 1..Len(waiting[d]) :
               i <= Reached(calls'[k]) => waiting[d][i] \in Items(d)
      BY <3>1 DEF PassedGiven
    <3> QED
      BY <1>4, <3>2
  <2> QED
    BY <2>1, <2>2
<1>10. ASSUME NEW d \in Channels, ~disturbed'[d] PROVE OnceEach(d)'
  <2>1. OnceEach(d)
    BY <1>5, <1>10 DEF GivenOnce
  <2>2. d = c => \A k \in 1..Len(calls) : ~ReplayOf(calls[k], c)
    BY <1>5, <1>10 DEF Replaying, ReplayOf
  <2>3. ASSUME NEW k \in 1..Len(calls'), NEW l \in 1..Len(calls'),
               ReplayOf(calls'[k], d), ReplayOf(calls'[l], d)
        PROVE  k = l
    <3>1. CASE d = c
      <4>1. k = 1 /\ l = 1
        BY <1>3, <2>2, <2>3, <3>1
      <4> QED
        BY <4>1
    <3>2. CASE d # c
      <4>1. /\ k - 1 \in 1..Len(calls) /\ calls'[k] = calls[k - 1]
            /\ l - 1 \in 1..Len(calls) /\ calls'[l] = calls[l - 1]
        BY <1>2, <1>3, <2>3, <3>2
      <4>2. k - 1 = l - 1
        BY <2>1, <2>3, <4>1 DEF OnceEach
      <4> QED
        BY <4>2
    <3> QED
      BY <3>1, <3>2
  <2>4. ASSUME NEW i \in 1..Len(waiting[d]), waiting[d][i] \in Items(d)
        PROVE  \E k \in 1..Len(calls') :
                 ReplayOf(calls'[k], d) /\ i <= Reached(calls'[k])
    <3>1. PICK k \in 1..Len(calls) : ReplayOf(calls[k], d) /\ i <= Reached(calls[k])
      BY <2>1, <2>4 DEF OnceEach
    <3> QED
      BY <1>3, <3>1
  <2> QED
    BY <1>1, <1>6, <2>1, <2>3, <2>4 DEF OnceEach, ReplayOf, Reached
<1>11. GivenOnce'
  BY <1>10 DEF GivenOnce
<1> QED
  BY <1>7, <1>8, <1>9, <1>11

(* A replay gives the next item, which was not given, if it is the first.  *)
LEMMA ReplaysKeeps == LaterInv /\ Replays => LaterInv'
<1> SUFFICES ASSUME LaterInv, Replays PROVE LaterInv'
  OBVIOUS
<1> USE DEF LaterInv
<1>1. calls # <<>> /\ Head(calls) = calls[1] /\ ~calls[1].inside
  BY DEF Replays, LaterTyped
<1>2. PICK top \in CallRecord : top = calls[1] /\ 1 \in 1..Len(calls)
  BY <1>1 DEF LaterTyped
<1>3. PICK c \in Channels, n \in Nat : c = top.of /\ n = top.at /\ n > 0
  BY <1>1, <1>2 DEF CallRecord
<1>4. /\ n <= Len(waiting[c])
      /\ given' = [given EXCEPT ![c] = Append(@, <<handler[c], waiting[c][n]>>)]
      /\ calls' = [calls EXCEPT ![1] = [top EXCEPT !.inside = TRUE]]
      /\ UNCHANGED <<handler, waiting, came, disturbed>>
  BY <1>1, <1>2, <1>3 DEF Replays
<1>5. /\ waiting[c] \in Seq(Nat) /\ n \in 1..Len(waiting[c])
      /\ waiting[c][n] \in Nat /\ handler[c] \in Nat
  <2>1. waiting[c] \in Seq(Nat) /\ handler[c] \in Nat
    BY DEF LaterTyped
  <2>2. n \in 1..Len(waiting[c])
    BY <1>3, <1>4, <2>1, LenProperties
  <2> QED
    BY <2>1, <2>2, ElementOfSeq
<1>6. PICK item \in Nat, h \in Nat : item = waiting[c][n] /\ h = handler[c]
  BY <1>5
<1>7. PICK new \in CallRecord : /\ new = [top EXCEPT !.inside = TRUE]
                                /\ Reached(new) = n /\ ReplayOf(new, c)
                                /\ \A d \in Channels : ReplayOf(new, d) => d = c
                                /\ Reached(top) = n - 1 /\ ReplayOf(top, c)
  <2> DEFINE new == [top EXCEPT !.inside = TRUE]
  <2>1. /\ new \in [of : Channels \cup {"cancel"}, at : Nat, inside : BOOLEAN]
        /\ new.of = c /\ new.at = n /\ new.inside = TRUE
    BY <1>2, <1>3 DEF CallRecord
  <2> HIDE DEF new
  <2>2. new \in CallRecord
    BY <1>2, <1>3, <2>1 DEF CallRecord
  <2>3. /\ Reached(new) = n /\ ReplayOf(new, c)
        /\ \A d \in Channels : ReplayOf(new, d) => d = c
        /\ Reached(top) = n - 1 /\ ReplayOf(top, c)
    BY <1>1, <1>2, <1>3, <2>1 DEF Reached, ReplayOf
  <2>4. new = [top EXCEPT !.inside = TRUE]
    BY DEF new
  <2> QED
    BY <2>2, <2>3, <2>4
<1>8. /\ calls' \in Seq(CallRecord) /\ Len(calls') = Len(calls)
      /\ calls'[1] = new
      /\ \A k \in 1..Len(calls) : k # 1 => calls'[k] = calls[k]
  BY <1>1, <1>4, <1>7, CallReplaced DEF LaterTyped
<1>9. /\ given' \in [Channels -> Seq(Nat \X Nat)]
      /\ Len(given'[c]) = Len(given[c]) + 1
      /\ given'[c][Len(given[c]) + 1][2] = item
      /\ \A i \in 1..Len(given[c]) : given'[c][i] = given[c][i]
      /\ Items(c)' = Items(c) \cup {item}
      /\ \A d \in Channels : d # c => given'[d] = given[d] /\ Items(d)' = Items(d)
  <2>1. given' = [given EXCEPT ![c] = Append(@, <<h, item>>)]
    BY <1>4, <1>6
  <2> QED
    BY <2>1, OneMoreGiven
<1>10. /\ Waits(c)' = Waits(c) /\ \A d \in Channels : Waits(d)' = Waits(d)
       /\ item \in Waits(c)
  BY <1>4, <1>5, <1>6 DEF Waits
<1>11. LaterTyped'
  BY <1>4, <1>8, <1>9 DEF LaterTyped
<1>12. AllCame'
  <2> SUFFICES ASSUME NEW d \in Channels PROVE Items(d)' \cup Waits(d)' = 1..came[d]
    BY <1>4 DEF AllCame
  <2>1. Items(d) \cup Waits(d) = 1..came[d] /\ Waits(d)' = Waits(d)
    BY <1>10 DEF AllCame
  <2>2. CASE d # c
    <3>1. Items(d)' = Items(d)
      BY <1>9, <2>2
    <3> QED
      BY <2>1, <3>1
  <2>3. CASE d = c
    <3>1. Items(d)' = Items(d) \cup {item} /\ item \in Waits(d)
      BY <1>9, <1>10, <2>3
    <3> QED
      BY <2>1, <3>1
  <2> QED
    BY <2>2, <2>3
<1>13. PassedGiven'
  <2> SUFFICES ASSUME NEW d \in Channels, NEW k \in 1..Len(calls),
                      ReplayOf(calls'[k], d)
               PROVE  /\ handler[d] > 0
                      /\ \A i \in 1..Len(waiting[d]) :
                           i <= Reached(calls'[k]) => waiting[d][i] \in Items(d)'
    BY <1>4, <1>8 DEF PassedGiven, ReplayOf, Reached
  <2>1. CASE k = 1
    <3>1. d = c /\ Reached(calls'[k]) = n
      BY <1>7, <1>8, <2>1
    <3>2. /\ handler[c] > 0
          /\ \A i \in 1..Len(waiting[c]) : i <= n - 1 => waiting[c][i] \in Items(c)
      BY <1>2, <1>7 DEF PassedGiven
    <3>3. \A i \in 1..Len(waiting[c]) : i <= n => i <= n - 1 \/ i = n
      BY <1>5
    <3> QED
      BY <1>6, <1>9, <3>1, <3>2, <3>3
  <2>2. CASE k # 1
    <3>1. calls'[k] = calls[k]
      BY <1>8, <2>2
    <3>2. /\ handler[d] > 0
          /\ \A i \in 1..Len(waiting[d]) :
               i <= Reached(calls'[k]) => waiting[d][i] \in Items(d)
      BY <3>1 DEF PassedGiven
    <3> QED
      BY <1>9, <3>2
  <2> QED
    BY <2>1, <2>2
<1>14. ASSUME NEW d \in Channels, ~disturbed[d] PROVE OnceEach(d)'
  <2>1. OnceEach(d)
    BY <1>14 DEF GivenOnce
  <2>2. \A k \in 1..Len(calls) : ReplayOf(calls'[k], d) <=> ReplayOf(calls[k], d)
    BY <1>2, <1>3, <1>7, <1>8 DEF ReplayOf
  <2>3. \A k \in 1..Len(calls) : Reached(calls[k]) <= Reached(calls'[k])
    <3>1. \A k \in 1..Len(calls) : calls[k] \in CallRecord
      BY DEF LaterTyped
    <3>2. \A call \in CallRecord : Reached(call) \in Int
      BY DEF CallRecord, Reached
    <3> QED
      <4> SUFFICES ASSUME NEW k \in 1..Len(calls)
                   PROVE  Reached(calls[k]) <= Reached(calls'[k])
        OBVIOUS
      <4>1. CASE k = 1
        BY <1>2, <1>7, <1>8, <4>1
      <4>2. CASE k # 1
        BY <1>8, <3>1, <3>2, <4>2
      <4> QED
        BY <4>1, <4>2
  <2>4. d = c => item \notin Items(c)
    <3> SUFFICES ASSUME d = c, item \in Items(c) PROVE FALSE
      OBVIOUS
    <3>1. PICK k \in 1..Len(calls) : ReplayOf(calls[k], c) /\ n <= Reached(calls[k])
      BY <1>5, <1>6, <2>1 DEF OnceEach
    <3>2. k = 1
      BY <1>2, <1>7, <2>1, <3>1 DEF OnceEach
    <3> QED
      BY <1>2, <1>5, <1>7, <3>1, <3>2
  <2>5. \A i, j \in 1..Len(given'[d]) : given'[d][i][2] = given'[d][j][2] => i = j
    <3>1. CASE d # c
      BY <1>9, <2>1, <3>1 DEF OnceEach
    <3>2. CASE d = c
      <4>1. \A i \in 1..Len(given[c]) : given[c][i][2] # item
        BY <2>4, <3>2 DEF Items
      <4>2. Len(given[c]) \in Nat
        BY LenProperties DEF LaterTyped
      <4>3. \A i \in 1..Len(given'[c]) : i \in 1..Len(given[c]) \/ i = Len(given[c]) + 1
        BY <1>9, <4>2
      <4>4. \A i, j \in 1..Len(given[c]) : given[c][i][2] = given[c][j][2] => i = j
        BY <2>1, <3>2 DEF OnceEach
      <4>5. \A i \in 1..Len(given'[c]) :
              \/ i = Len(given[c]) + 1 /\ given'[c][i][2] = item
              \/ /\ i \in 1..Len(given[c]) /\ given'[c][i][2] = given[c][i][2]
                 /\ given'[c][i][2] # item
        BY <1>9, <4>1, <4>3
      <4> QED
        BY <3>2, <4>4, <4>5
    <3> QED
      BY <3>1, <3>2
  <2>6. ASSUME NEW i \in 1..Len(waiting[d]), waiting[d][i] \in Items(d)'
        PROVE  \E k \in 1..Len(calls) :
                 ReplayOf(calls'[k], d) /\ i <= Reached(calls'[k])
    <3>1. CASE waiting[d][i] \in Items(d)
      <4>1. PICK k \in 1..Len(calls) : ReplayOf(calls[k], d) /\ i <= Reached(calls[k])
        BY <2>1, <3>1 DEF OnceEach
      <4>2. calls[k] \in CallRecord /\ calls'[k] \in CallRecord
        BY <1>8 DEF LaterTyped
      <4>3. Reached(calls[k]) \in Int /\ Reached(calls'[k]) \in Int
        BY <4>2 DEF CallRecord, Reached
      <4>4. i <= Reached(calls'[k])
        BY <2>3, <4>1, <4>3
      <4> QED
        BY <2>2, <4>1, <4>4
    <3>2. CASE waiting[d][i] \notin Items(d)
      <4>1. d = c /\ waiting[d][i] = item
        BY <1>9, <2>6, <3>2
      <4>2. i = n
        BY <1>5, <1>6, <2>1, <4>1 DEF OnceEach
      <4> QED
        <5>1. 1 \in 1..Len(calls) /\ calls'[1] = new
          BY <1>2, <1>8
        <5>2. ReplayOf(calls'[1], d) /\ i <= Reached(calls'[1])
          BY <1>7, <4>1, <4>2, <5>1
        <5> QED
          BY <5>1, <5>2
    <3> QED
      BY <3>1, <3>2
  <2> QED
    BY <1>4, <1>8, <2>1, <2>2, <2>5, <2>6, SMTT(20) DEF OnceEach, ReplayOf, Reached
<1>15. GivenOnce'
  BY <1>4, <1>14 DEF GivenOnce
<1> QED
  BY <1>11, <1>12, <1>13, <1>15
(* A replay that ends has given all that waited. *)
LEMMA ReplayEndsKeeps == LaterInv /\ ReplayEnds => LaterInv'
<1> SUFFICES ASSUME LaterInv, ReplayEnds PROVE LaterInv'
  OBVIOUS
<1> USE DEF LaterInv
<1>1. calls # <<>> /\ Head(calls) = calls[1] /\ ~calls[1].inside
  BY DEF ReplayEnds, LaterTyped
<1>2. PICK top \in CallRecord : top = calls[1] /\ 1 \in 1..Len(calls)
  BY <1>1 DEF LaterTyped
<1>3. PICK c \in Channels : /\ c = top.of /\ ReplayOf(top, c)
                            /\ Reached(top) = top.at - 1 /\ top.at \in Nat
                            /\ \A d \in Channels : ReplayOf(top, d) => d = c
  BY <1>1, <1>2 DEF CallRecord, ReplayOf, Reached
<1>4. /\ top.at > Len(waiting[c]) /\ waiting' = [waiting EXCEPT ![c] = <<>>]
      /\ calls' = Tail(calls)
      /\ UNCHANGED <<handler, came, given, disturbed>>
  BY <1>1, <1>2, <1>3 DEF ReplayEnds, Emptied
<1>5. /\ calls' \in Seq(CallRecord)
      /\ \A k \in 1..Len(calls') :
           k + 1 \in 1..Len(calls) /\ calls'[k] = calls[k + 1]
      /\ \A k \in 1..Len(calls) :
           k = 1 \/ (k - 1 \in 1..Len(calls') /\ calls'[k - 1] = calls[k])
  BY <1>1, <1>4, CallPopped DEF LaterTyped
<1>6. /\ waiting' \in [Channels -> Seq(Nat)] /\ waiting'[c] = <<>> /\ Waits(c)' = {}
      /\ \A d \in Channels : d # c => waiting'[d] = waiting[d] /\ Waits(d)' = Waits(d)
  <2>1. waiting \in [Channels -> Seq(Nat)] /\ <<>> \in Seq(Nat)
    BY DEF LaterTyped
  <2>2. /\ waiting' \in [Channels -> Seq(Nat)] /\ waiting'[c] = <<>>
        /\ \A d \in Channels : d # c => waiting'[d] = waiting[d]
    BY <1>4, <2>1
  <2> QED
    BY <2>2 DEF Waits
<1>7. \A d \in Channels : Items(d)' = Items(d)
  BY <1>4 DEF Items
<1>8. LaterTyped'
  BY <1>4, <1>5, <1>6 DEF LaterTyped
<1>9. AllCame'
  <2> SUFFICES ASSUME NEW d \in Channels PROVE Items(d)' \cup Waits(d)' = 1..came[d]
    BY <1>4 DEF AllCame
  <2>1. Items(d) \cup Waits(d) = 1..came[d]
    BY DEF AllCame
  <2>2. CASE d = c
    <3>1. \A i \in 1..Len(waiting[c]) : waiting[c][i] \in Items(c)
      <4>1. \A i \in 1..Len(waiting[c]) :
              i <= Reached(top) => waiting[c][i] \in Items(c)
        BY <1>2, <1>3 DEF PassedGiven
      <4>2. Len(waiting[c]) \in Nat
        BY LenProperties DEF LaterTyped
      <4> QED
        BY <1>3, <1>4, <4>1, <4>2
    <3>2. Waits(c) \subseteq Items(c)
      BY <3>1 DEF Waits
    <3> QED
      BY <1>6, <1>7, <2>1, <2>2, <3>2
  <2>3. CASE d # c
    BY <1>6, <1>7, <2>1, <2>3
  <2> QED
    BY <2>2, <2>3
<1>10. PassedGiven'
  <2> SUFFICES ASSUME NEW d \in Channels, NEW k \in 1..Len(calls'),
                      ReplayOf(calls'[k], d)
               PROVE  /\ handler[d] > 0
                      /\ \A i \in 1..Len(waiting'[d]) :
                           i <= Reached(calls'[k]) => waiting'[d][i] \in Items(d)
    BY <1>4, <1>7 DEF PassedGiven, ReplayOf, Reached
  <2>1. k + 1 \in 1..Len(calls) /\ calls'[k] = calls[k + 1]
    BY <1>5
  <2>2. /\ handler[d] > 0
        /\ \A i \in 1..Len(waiting[d]) :
             i <= Reached(calls'[k]) => waiting[d][i] \in Items(d)
    BY <2>1 DEF PassedGiven
  <2>3. CASE d = c
    <3>1. \A i \in 1..Len(waiting'[d]) : FALSE
      BY <1>6, <2>3
    <3> QED
      BY <2>2, <3>1
  <2>4. CASE d # c
    BY <1>6, <1>7, <2>2, <2>4
  <2> QED
    BY <2>3, <2>4
<1>11. ASSUME NEW d \in Channels, ~disturbed[d] PROVE OnceEach(d)'
  <2>1. OnceEach(d)
    BY <1>11 DEF GivenOnce
  <2>2. ASSUME NEW k \in 1..Len(calls'), NEW l \in 1..Len(calls'),
               ReplayOf(calls'[k], d), ReplayOf(calls'[l], d)
        PROVE  k = l
    <3>1. /\ k + 1 \in 1..Len(calls) /\ calls'[k] = calls[k + 1]
          /\ l + 1 \in 1..Len(calls) /\ calls'[l] = calls[l + 1]
      BY <1>5
    <3>2. k + 1 = l + 1
      BY <2>1, <2>2, <3>1 DEF OnceEach
    <3> QED
      BY <3>2
  <2>3. \A i, j \in 1..Len(waiting'[d]) : waiting'[d][i] = waiting'[d][j] => i = j
    BY <1>6, <2>1 DEF OnceEach
  <2>4. ASSUME NEW i \in 1..Len(waiting'[d]), waiting'[d][i] \in Items(d)
        PROVE  \E k \in 1..Len(calls') :
                 ReplayOf(calls'[k], d) /\ i <= Reached(calls'[k])
    <3>1. d # c /\ waiting'[d] = waiting[d]
      BY <1>6
    <3>2. PICK k \in 1..Len(calls) : ReplayOf(calls[k], d) /\ i <= Reached(calls[k])
      BY <2>1, <2>4, <3>1 DEF OnceEach
    <3>3. k # 1
      BY <1>2, <1>3, <3>1, <3>2
    <3> QED
      BY <1>5, <3>2, <3>3
  <2> QED
    BY <1>4, <1>7, <2>1, <2>2, <2>3, <2>4 DEF OnceEach, ReplayOf, Reached
<1>12. GivenOnce'
  BY <1>4, <1>11 DEF GivenOnce
<1> QED
  BY <1>8, <1>9, <1>10, <1>12

(* The moves that give nothing. *)
LEMMA CancelKeeps == LaterInv /\ (Cancel \/ ReturnsFalse) => LaterInv'
<1> SUFFICES ASSUME LaterInv, Cancel \/ ReturnsFalse PROVE LaterInv'
  OBVIOUS
<1> USE DEF LaterInv
<1> DEFINE new == [of |-> "cancel", at |-> 0, inside |-> TRUE]
<1>1. /\ UNCHANGED <<handler, waiting, came, given, disturbed>>
      /\ disturbed' \in [Channels -> BOOLEAN]
  BY DEF Cancel, ReturnsFalse, LaterTyped
<1>2. new \in CallRecord /\ \A d \in Channels : ~ReplayOf(new, d)
  BY DEF CallRecord, ReplayOf
<1>3. CASE Cancel
  <2>1. calls' = <<new>> \o calls
    BY <1>3 DEF Cancel, Cancelled
  <2> HIDE DEF new
  <2>2. /\ calls' \in Seq(CallRecord) /\ Len(calls') = Len(calls) + 1
        /\ calls'[1] = new
        /\ \A k \in 1..Len(calls') :
             k = 1 \/ (k - 1 \in 1..Len(calls) /\ calls'[k] = calls[k - 1])
        /\ \A k \in 1..Len(calls) :
             k + 1 \in 1..Len(calls') /\ calls'[k + 1] = calls[k]
    BY <1>2, <2>1, CallPushed DEF LaterTyped
  <2> DEFINE shift == -1
  <2>3. /\ shift \in Int
        /\ \A k \in 1..Len(calls') : k + shift = k - 1
        /\ \A k \in 1..Len(calls) : k - shift = k + 1
    OBVIOUS
  <2> HIDE DEF shift
  <2>4. \A c \in Channels : \A k \in 1..Len(calls') :
          ReplayOf(calls'[k], c) =>
            /\ k + shift \in 1..Len(calls) /\ ReplayOf(calls[k + shift], c)
            /\ Reached(calls'[k]) = Reached(calls[k + shift])
    BY <1>2, <2>2, <2>3
  <2>5. \A c \in Channels : ~disturbed'[c] => \A k \in 1..Len(calls) :
          ReplayOf(calls[k], c) =>
            /\ k - shift \in 1..Len(calls') /\ ReplayOf(calls'[k - shift], c)
            /\ Reached(calls'[k - shift]) = Reached(calls[k])
    BY <2>2, <2>3
  <2> QED
    BY <1>1, <2>2, <2>3, <2>4, <2>5, QuietMove
<1>4. CASE ReturnsFalse
  <2>1. calls # <<>> /\ Head(calls).at = 0 /\ calls' = <<new>> \o Tail(calls)
    BY <1>4 DEF ReturnsFalse, Cancelled
  <2>2. \A d \in Channels : ~ReplayOf(calls[1], d)
    BY <2>1 DEF ReplayOf, LaterTyped
  <2> HIDE DEF new
  <2>3. /\ calls' \in Seq(CallRecord) /\ Len(calls') = Len(calls)
        /\ calls'[1] = new /\ 1 \in 1..Len(calls)
        /\ \A k \in 1..Len(calls) : k # 1 => calls'[k] = calls[k]
    BY <1>2, <2>1, CallReplaced DEF LaterTyped
  <2> DEFINE shift == 0
  <2>4. /\ shift \in Int
        /\ \A k \in 1..Len(calls) : k + shift = k /\ k - shift = k
    OBVIOUS
  <2> HIDE DEF shift
  <2>5. \A c \in Channels : \A k \in 1..Len(calls') :
          ReplayOf(calls'[k], c) =>
            /\ k + shift \in 1..Len(calls) /\ ReplayOf(calls[k + shift], c)
            /\ Reached(calls'[k]) = Reached(calls[k + shift])
    BY <1>2, <2>3, <2>4
  <2>6. \A c \in Channels : ~disturbed'[c] => \A k \in 1..Len(calls) :
          ReplayOf(calls[k], c) =>
            /\ k - shift \in 1..Len(calls') /\ ReplayOf(calls'[k - shift], c)
            /\ Reached(calls'[k - shift]) = Reached(calls[k])
    BY <2>2, <2>3, <2>4
  <2> QED
    BY <1>1, <2>3, <2>4, <2>5, <2>6, QuietMove
<1> QED
  BY <1>3, <1>4

(* A replay goes on at another place. *)
LEMMA CallMovedOn ==
  ASSUME NEW S, NEW call \in [of : S, at : Nat, inside : BOOLEAN], NEW n \in Nat
  PROVE  /\ [call EXCEPT !.at = n, !.inside = FALSE]
              \in [of : S, at : Nat, inside : BOOLEAN]
         /\ [call EXCEPT !.at = n, !.inside = FALSE].of = call.of
         /\ [call EXCEPT !.at = n, !.inside = FALSE].at = n
         /\ [call EXCEPT !.at = n, !.inside = FALSE].inside = FALSE
<1>1. [call EXCEPT !.at = n, !.inside = FALSE] \in [of : S, at : Nat, inside : BOOLEAN]
  OBVIOUS
<1>2. /\ [call EXCEPT !.at = n, !.inside = FALSE].of = call.of
      /\ [call EXCEPT !.at = n, !.inside = FALSE].at = n
      /\ [call EXCEPT !.at = n, !.inside = FALSE].inside = FALSE
  OBVIOUS
<1> QED
  BY <1>1, <1>2

(* A handler returns into a replay, which has given its item, or a call of *)
(* no replay is gone; or it throws, and a replay that is gone with it is   *)
(* disturbed.                                                              *)
LEMMA HandlerEndsKeeps == LaterInv /\ (HandlerReturns \/ HandlerThrows) => LaterInv'
<1> SUFFICES ASSUME LaterInv, HandlerReturns \/ HandlerThrows PROVE LaterInv'
  OBVIOUS
<1> USE DEF LaterInv
<1>1. calls # <<>> /\ Head(calls) = calls[1] /\ calls[1].inside
  BY DEF HandlerReturns, HandlerThrows, LaterTyped
<1>2. PICK top \in CallRecord : top = calls[1] /\ 1 \in 1..Len(calls)
  BY <1>1 DEF LaterTyped
<1>3. UNCHANGED <<handler, waiting, came, given>>
  BY DEF HandlerReturns, HandlerThrows, KeptWaiting
<1>4. top.at \in Nat /\ Reached(top) = top.at
  BY <1>1, <1>2 DEF CallRecord, Reached
<1>5. CASE HandlerReturns /\ top.at > 0
  <2> DEFINE new == [top EXCEPT !.at = @ + 1, !.inside = FALSE]
  <2>1. calls' = [calls EXCEPT ![1] = new] /\ disturbed' = disturbed
    BY <1>1, <1>2, <1>5 DEF HandlerReturns
  <2>2. /\ new \in CallRecord /\ Reached(new) = Reached(top)
        /\ \A d \in Channels : ReplayOf(new, d) <=> ReplayOf(top, d)
    <3>1. /\ new \in [of : Channels \cup {"cancel"}, at : Nat, inside : BOOLEAN]
          /\ new.of = top.of /\ new.at = top.at + 1 /\ new.inside = FALSE
      <4>1. top \in [of : Channels \cup {"cancel"}, at : Nat, inside : BOOLEAN]
        BY <1>2 DEF CallRecord
      <4>2. top.at + 1 \in Nat
        BY <1>4
      <4> QED
        BY <4>1, <4>2, CallMovedOn
    <3> HIDE DEF new
    <3>2. top.of # "cancel"
      BY <1>2, <1>5 DEF CallRecord
    <3> QED
      BY <1>4, <1>5, <3>1, <3>2 DEF CallRecord, Reached, ReplayOf
  <2> HIDE DEF new
  <2>3. /\ calls' \in Seq(CallRecord) /\ Len(calls') = Len(calls)
        /\ calls'[1] = new
        /\ \A k \in 1..Len(calls) : k # 1 => calls'[k] = calls[k]
    BY <1>1, <2>1, <2>2, CallReplaced DEF LaterTyped
  <2> DEFINE shift == 0
  <2>4. /\ shift \in Int
        /\ \A k \in 1..Len(calls) : k + shift = k /\ k - shift = k
    OBVIOUS
  <2> HIDE DEF shift
  <2>5. \A c \in Channels : \A k \in 1..Len(calls') :
          ReplayOf(calls'[k], c) =>
            /\ k + shift \in 1..Len(calls) /\ ReplayOf(calls[k + shift], c)
            /\ Reached(calls'[k]) = Reached(calls[k + shift])
    BY <1>2, <2>2, <2>3, <2>4
  <2>6. \A c \in Channels : ~disturbed'[c] => \A k \in 1..Len(calls) :
          ReplayOf(calls[k], c) =>
            /\ k - shift \in 1..Len(calls') /\ ReplayOf(calls'[k - shift], c)
            /\ Reached(calls'[k - shift]) = Reached(calls[k])
    BY <1>2, <2>2, <2>3, <2>4
  <2>7. disturbed' \in [Channels -> BOOLEAN]
    BY <2>1 DEF LaterTyped
  <2> QED
    BY <1>3, <2>1, <2>3, <2>4, <2>5, <2>6, <2>7, QuietMove
<1>6. CASE HandlerThrows \/ ~(top.at > 0)
  <2>1. /\ calls' = Tail(calls) /\ disturbed' \in [Channels -> BOOLEAN]
        /\ \A d \in Channels : disturbed[d] => disturbed'[d]
        /\ \A d \in Channels : ReplayOf(top, d) => disturbed'[d]
    <3>1. CASE HandlerReturns /\ ~(top.at > 0)
      BY <1>1, <1>2, <1>4, <3>1 DEF HandlerReturns, LaterTyped, ReplayOf
    <3>2. CASE HandlerThrows
      <4>1. /\ calls' = Tail(calls)
            /\ disturbed' = IF top.at > 0 THEN [disturbed EXCEPT ![top.of] = TRUE]
                            ELSE disturbed
        BY <1>1, <1>2, <3>2 DEF HandlerThrows
      <4> QED
        BY <4>1 DEF LaterTyped, ReplayOf
    <3> QED
      BY <1>6, <3>1, <3>2
  <2>2. /\ calls' \in Seq(CallRecord)
        /\ \A k \in 1..Len(calls') :
             k + 1 \in 1..Len(calls) /\ calls'[k] = calls[k + 1]
        /\ \A k \in 1..Len(calls) :
             k = 1 \/ (k - 1 \in 1..Len(calls') /\ calls'[k - 1] = calls[k])
    BY <1>1, <2>1, CallPopped DEF LaterTyped
  <2> DEFINE shift == 1
  <2>3. /\ shift \in Int
        /\ \A k \in 1..Len(calls') : k + shift = k + 1
        /\ \A k \in 1..Len(calls) : k - shift = k - 1
    OBVIOUS
  <2> HIDE DEF shift
  <2>4. \A c \in Channels : \A k \in 1..Len(calls') :
          ReplayOf(calls'[k], c) =>
            /\ k + shift \in 1..Len(calls) /\ ReplayOf(calls[k + shift], c)
            /\ Reached(calls'[k]) = Reached(calls[k + shift])
    BY <2>2, <2>3
  <2>5. \A c \in Channels : ~disturbed'[c] => \A k \in 1..Len(calls) :
          ReplayOf(calls[k], c) =>
            /\ k - shift \in 1..Len(calls') /\ ReplayOf(calls'[k - shift], c)
            /\ Reached(calls'[k - shift]) = Reached(calls[k])
    BY <1>2, <2>1, <2>2, <2>3
  <2> QED
    BY <1>3, <2>1, <2>2, <2>3, <2>4, <2>5, QuietMove
<1> QED
  BY <1>5, <1>6

LEMMA LaterStep == LaterInv /\ [LaterNext]_laterVars => LaterInv'
<1> SUFFICES ASSUME LaterInv, [LaterNext]_laterVars PROVE LaterInv'
  OBVIOUS
<1>1. ASSUME UNCHANGED <<handler, waiting, calls, came, given, disturbed>>
      PROVE  LaterInv'
  <2>1. \A c \in Channels : Items(c)' = Items(c) /\ Waits(c)' = Waits(c)
    BY <1>1 DEF Items, Waits
  <2>2. LaterTyped'
    BY <1>1 DEF LaterInv, LaterTyped
  <2>3. AllCame'
    BY <1>1, <2>1 DEF LaterInv, AllCame
  <2>4. PassedGiven'
    <3> SUFFICES ASSUME NEW c \in Channels, NEW k \in 1..Len(calls),
                        ReplayOf(calls[k], c)
                 PROVE  /\ handler[c] > 0
                        /\ \A i \in 1..Len(waiting[c]) :
                             i <= Reached(calls[k]) => waiting[c][i] \in Items(c)
      BY <1>1, <2>1 DEF PassedGiven, ReplayOf, Reached
    <3> QED
      BY DEF LaterInv, PassedGiven
  <2>5. GivenOnce'
    BY <1>1, <2>1 DEF LaterInv, GivenOnce, OnceEach, ReplayOf, Reached
  <2> QED
    BY <2>2, <2>3, <2>4, <2>5 DEF LaterInv
<1>2. CASE SetCancelback \/ UNCHANGED laterVars
  BY <1>1, <1>2 DEF SetCancelback, laterVars
<1> QED
  BY <1>2, ComesKeeps, SetHandlerKeeps, ReplaysKeeps, ReplayEndsKeeps, CancelKeeps,
     HandlerEndsKeeps DEF LaterNext

(* Every value and every error that came is given to a handler or waits,   *)
(* and none is given twice unless a replay was disturbed (Later#callback,  *)
(* setCallback).                                                           *)
THEOREM NothingIsLost == LaterSpec => []NeverLost
<1>1. LaterInv => NeverLost
  <2> SUFFICES ASSUME LaterInv, NEW c \in Channels
               PROVE  /\ Items(c) \cup Waits(c) = 1..came[c]
                      /\ disturbed[c] \/ Cardinality(Items(c)) = Len(given[c])
    BY DEF NeverLost
  <2>1. Items(c) \cup Waits(c) = 1..came[c]
    BY DEF LaterInv, AllCame
  <2>2. ASSUME ~disturbed[c] PROVE Cardinality(Items(c)) = Len(given[c])
    <3> DEFINE n == Len(given[c])
               item == [k \in 1..n |-> given[c][k][2]]
    <3>1. n \in Nat
      BY LenProperties DEF LaterInv, LaterTyped
    <3>2. \A i, j \in 1..n : given[c][i][2] = given[c][j][2] => i = j
      BY <2>2 DEF LaterInv, GivenOnce, OnceEach
    <3>3. item \in Bijection(1..n, Items(c))
      <4>1. item \in [1..n -> Items(c)]
        BY DEF Items
      <4>2. \A i, j \in 1..n : item[i] = item[j] => i = j
        BY <3>2
      <4>3. \A x \in Items(c) : \E i \in 1..n : item[i] = x
        BY DEF Items
      <4> HIDE DEF item, n
      <4> QED
        BY <4>1, <4>2, <4>3 DEF Bijection, Injection, Surjection, IsInjective
    <3>4. ExistsBijection(1..n, Items(c))
      BY <3>3 DEF ExistsBijection
    <3>5. IsFiniteSet(1..n) /\ Cardinality(1..n) = n
      BY <3>1, FS_Interval
    <3> HIDE DEF n, item
    <3>6. Cardinality(Items(c)) = n
      BY <3>4, <3>5, FS_Bijection
    <3> QED
      BY <3>6 DEF n
  <2> QED
    BY <2>1, <2>2
<1> QED
  BY <1>1, LaterBegins, LaterStep, PTL DEF LaterSpec
---------------------------------------------------------------------------
(* Callback: what was chained *)

TokenRecord == [id : ChosenIds \cup Nat, reported : BOOLEAN]

JoinTyped ==
  /\ tokens \in Seq(TokenRecord) /\ nextId \in Nat /\ pending \in Nat
  /\ fired \in BOOLEAN /\ IsFiniteSet(stat)

(* What is pending is what was chained without the ids that have reported, *)
(* and an id has reported if and only if one of its results has come.      *)
JoinCounted ==
  /\ pending + Cardinality(stat) = Len(tokens)
  /\ \A x \in stat : \E t \in 1..Len(tokens) : tokens[t].id = x /\ tokens[t].reported
  /\ \A t \in 1..Len(tokens) : tokens[t].reported => tokens[t].id \in stat

(* The object is only fired by its results while none is pending, and when *)
(* none is any more it is fired.                                           *)
JoinFires ==
  /\ fired /\ cause = "join" => pending = 0
  /\ pending = 0 /\ tokens # <<>> /\ ~resetSince => fired

JoinInv == JoinTyped /\ JoinCounted /\ JoinFires

TokenIds == {tokens[t].id : t \in 1..Len(tokens)}

LEMMA TokensCounted ==
  ASSUME JoinInv
  PROVE  /\ stat \subseteq TokenIds /\ IsFiniteSet(TokenIds)
         /\ Cardinality(stat) \in Nat /\ Cardinality(TokenIds) \in Nat
         /\ Len(tokens) \in Nat /\ Cardinality(TokenIds) <= Len(tokens)
         /\ Cardinality(TokenIds) = Len(tokens) <=>
              \A t, u \in 1..Len(tokens) : tokens[t].id = tokens[u].id => t = u
<1> DEFINE n == Len(tokens)
           name == [t \in 1..n |-> tokens[t].id]
<1>1. n \in Nat /\ IsFiniteSet(stat) /\ Cardinality(stat) \in Nat
  BY LenProperties, FS_CardinalityType DEF JoinInv, JoinTyped
<1>2. stat \subseteq TokenIds
  BY DEF JoinInv, JoinCounted, TokenIds
<1>3. IsFiniteSet(1..n) /\ Cardinality(1..n) = n
  <2> HIDE DEF n
  <2> QED
    BY <1>1, FS_Interval, SMTT(20)
<1>4. name \in Surjection(1..n, TokenIds)
  BY DEF TokenIds, Surjection
<1>5. name \in Injection(1..n, TokenIds)
        <=> \A t, u \in 1..n : tokens[t].id = tokens[u].id => t = u
  BY DEF TokenIds, Injection, IsInjective
<1> HIDE DEF name, n
<1>6. /\ IsFiniteSet(TokenIds) /\ Cardinality(TokenIds) <= Cardinality(1..n)
      /\ Cardinality(TokenIds) = Cardinality(1..n)
           <=> name \in Injection(1..n, TokenIds)
  BY <1>3, <1>4, FS_Surjection
<1>7. Cardinality(TokenIds) \in Nat
  BY <1>6, FS_CardinalityType
<1> QED
  BY <1>1, <1>2, <1>3, <1>5, <1>6, <1>7 DEF n

LEMMA JoinBegins == CallbackInit => JoinInv
<1> SUFFICES ASSUME CallbackInit PROVE JoinInv
  OBVIOUS
<1>1. IsFiniteSet(stat) /\ Cardinality(stat) = 0
  BY FS_EmptySet DEF CallbackInit
<1>2. /\ tokens = <<>> /\ stat = {} /\ nextId = 0 /\ pending = 0
      /\ fired = FALSE /\ cause = "none" /\ Len(tokens) = 0
  BY DEF CallbackInit
<1>3. tokens \in Seq(TokenRecord)
  BY <1>2
<1>4. JoinTyped
  BY <1>1, <1>2, <1>3 DEF JoinTyped
<1>5. JoinCounted
  BY <1>1, <1>2 DEF JoinCounted
<1> QED
  BY <1>2, <1>4, <1>5 DEF JoinInv, JoinFires

(* A chain that is begun is one more that is pending. *)
LEMMA ChainKeepsJoin ==
  ASSUME JoinInv, ChainCounted \/ ChainNamed
  PROVE  JoinInv'
<1>1. PICK id \in ChosenIds \cup Nat : Chain(id) /\ nextId' \in Nat
  BY DEF ChainCounted, ChainNamed, JoinInv, JoinTyped
<1>2. /\ pending' = pending + 1 /\ fired' = FALSE
      /\ tokens' = Append(tokens, [id |-> id, reported |-> FALSE])
      /\ UNCHANGED <<stat, cause, resetSince>>
  BY <1>1 DEF Chain, ChainResets
<1>3. /\ tokens \in Seq(TokenRecord) /\ Len(tokens) \in Nat /\ pending \in Nat
      /\ IsFiniteSet(stat) /\ Cardinality(stat) \in Nat
  BY LenProperties, FS_CardinalityType DEF JoinInv, JoinTyped
<1>4. [id |-> id, reported |-> FALSE] \in TokenRecord
  BY DEF TokenRecord
<1>5. /\ tokens' \in Seq(TokenRecord) /\ Len(tokens') = Len(tokens) + 1
      /\ tokens'[Len(tokens) + 1] = [id |-> id, reported |-> FALSE]
      /\ \A t \in 1..Len(tokens) : tokens'[t] = tokens[t]
  BY <1>2, <1>3, <1>4
<1>6. \A t \in 1..Len(tokens') : t \in 1..Len(tokens) \/ t = Len(tokens) + 1
  BY <1>3, <1>5
<1>7. \A t \in 1..Len(tokens) : t \in 1..Len(tokens')
  BY <1>3, <1>5
<1>8. JoinTyped'
  <2>1. pending \in Nat /\ pending' = pending + 1 /\ fired' = FALSE
    BY <1>2, <1>3
  <2>2. pending' \in Nat /\ fired' \in BOOLEAN
    <3>1. pending' \in Nat
      BY <2>1
    <3>2. fired' \in BOOLEAN
      BY <2>1
    <3> QED
      BY <3>1, <3>2
  <2>3. IsFiniteSet(stat')
    BY <1>2, <1>3
  <2> QED
    BY <1>1, <1>5, <2>2, <2>3 DEF JoinTyped
<1>9. JoinCounted'
  <2>1. pending' + Cardinality(stat') = Len(tokens')
    <3>1. pending + Cardinality(stat) = Len(tokens)
      BY DEF JoinInv, JoinCounted
    <3>2. Cardinality(stat') = Cardinality(stat)
      BY <1>2
    <3>3. /\ pending' = pending + 1 /\ Len(tokens') = Len(tokens) + 1
          /\ pending \in Nat /\ Len(tokens) \in Nat /\ Cardinality(stat) \in Nat
      BY <1>2, <1>3, <1>5
    <3> QED
      BY <3>1, <3>2, <3>3
  <2>2. \A x \in stat' : \E t \in 1..Len(tokens') :
          tokens'[t].id = x /\ tokens'[t].reported
    BY <1>2, <1>5, <1>7 DEF JoinInv, JoinCounted
  <2>3. \A t \in 1..Len(tokens') : tokens'[t].reported => tokens'[t].id \in stat'
    BY <1>2, <1>5, <1>6 DEF JoinInv, JoinCounted
  <2> QED
    BY <2>1, <2>2, <2>3 DEF JoinCounted
<1>10. JoinFires'
  BY <1>2, <1>3 DEF JoinFires
<1> QED
  BY <1>8, <1>9, <1>10 DEF JoinInv

(* A result that comes is counted if it is the first of its id. *)
LEMMA DeferredKeepsJoin ==
  ASSUME JoinInv, NEW t \in 1..MaxChains, Deferred(t)
  PROVE  JoinInv'
<1>1. /\ tokens \in Seq(TokenRecord) /\ Len(tokens) \in Nat /\ pending \in Nat
      /\ IsFiniteSet(stat) /\ Cardinality(stat) \in Nat
      /\ t \in 1..Len(tokens) /\ fired \in BOOLEAN /\ nextId \in Nat
  BY LenProperties, FS_CardinalityType DEF JoinInv, JoinTyped, Deferred
<1>2. /\ tokens' = [tokens EXCEPT ![t].reported = TRUE] /\ nextId' = nextId
  BY DEF Deferred
<1>3. PICK token \in TokenRecord : token = tokens[t]
  BY <1>1, ElementOfSeq
<1>4. /\ [token EXCEPT !.reported = TRUE] \in TokenRecord
      /\ [token EXCEPT !.reported = TRUE].id = token.id
      /\ [token EXCEPT !.reported = TRUE].reported
  BY DEF TokenRecord
<1>5. /\ tokens' \in Seq(TokenRecord) /\ Len(tokens') = Len(tokens)
      /\ \A u \in 1..Len(tokens) :
           /\ tokens'[u].id = tokens[u].id
           /\ u # t => tokens'[u].reported = tokens[u].reported
      /\ tokens'[t].id = token.id /\ tokens'[t].reported
  <2>1. tokens' = [tokens EXCEPT ![t] = [token EXCEPT !.reported = TRUE]]
    BY <1>2, <1>3
  <2>2. /\ tokens' \in Seq(TokenRecord) /\ Len(tokens') = Len(tokens)
        /\ tokens'[t] = [token EXCEPT !.reported = TRUE]
        /\ \A u \in 1..Len(tokens) : u # t => tokens'[u] = tokens[u]
    BY <1>1, <1>4, <2>1, ExceptSeq
  <2> QED
    BY <1>3, <1>4, <2>2
<1>6. /\ \A x \in stat : \E u \in 1..Len(tokens) :
           tokens'[u].id = x /\ tokens'[u].reported
      /\ \A u \in 1..Len(tokens) :
           tokens'[u].reported => tokens'[u].id \in stat \cup {token.id}
  BY <1>3, <1>5 DEF JoinInv, JoinCounted
<1>7. CASE ~FirstReport(t)
  <2>1. /\ token.id \in stat
        /\ UNCHANGED <<stat, pending, resetSince, fired, cause>>
    BY <1>3, <1>7 DEF Deferred, FirstReport
  <2>2. JoinTyped'
    BY <1>1, <1>2, <1>5, <2>1 DEF JoinTyped
  <2>3. stat \cup {token.id} = stat
    BY <2>1
  <2>4. JoinCounted'
    BY <1>5, <1>6, <2>1, <2>3 DEF JoinInv, JoinCounted
  <2>5. tokens # <<>>
    BY <1>1
  <2>6. JoinFires'
    BY <2>1, <2>5 DEF JoinInv, JoinFires
  <2> QED
    BY <2>2, <2>4, <2>6 DEF JoinInv
<1>8. CASE FirstReport(t)
  <2>1. /\ token.id \notin stat /\ stat' = stat \cup {token.id}
        /\ pending' = IF pending = 0 THEN 0 ELSE pending - 1
        /\ IF pending <= 1 THEN Fired("results", "join") ELSE UNCHANGED <<fired, cause>>
    BY <1>3, <1>8 DEF Deferred, FirstReport, AllReported
  <2>2. IsFiniteSet(stat') /\ Cardinality(stat') = Cardinality(stat) + 1
    BY <1>1, <2>1, FS_AddElement
  <2>3. stat' \subseteq TokenIds
    BY <1>1, <1>3, <2>1, TokensCounted DEF TokenIds
  <2>4. Cardinality(stat') <= Cardinality(TokenIds)
    BY <2>3, TokensCounted, FS_Subset
  <2>5. pending > 0 /\ pending' = pending - 1
    BY <1>1, <2>1, <2>2, <2>4, TokensCounted DEF JoinInv, JoinCounted
  <2>6. fired' \in BOOLEAN /\ (pending' = 0 => fired')
        /\ (fired' /\ cause' = "join" => pending' = 0)
    <3>1. CASE pending <= 1
      <4>1. pending' = 0 /\ Fired("results", "join")
        BY <1>1, <2>1, <2>5, <3>1
      <4>2. fired'
        BY <4>1 DEF Fired
      <4>3. fired' \in BOOLEAN
        BY <1>1, <4>1 DEF Fired
      <4> QED
        BY <4>1, <4>2, <4>3
    <3>2. CASE ~(pending <= 1)
      BY <1>1, <2>1, <2>5, <3>2 DEF JoinInv, JoinFires
    <3> QED
      BY <3>1, <3>2
  <2>7. JoinTyped'
    BY <1>1, <1>2, <1>5, <2>2, <2>5, <2>6 DEF JoinTyped
  <2>8. JoinCounted'
    <3>1. pending' + Cardinality(stat') = Len(tokens')
      BY <1>1, <1>5, <2>2, <2>5 DEF JoinInv, JoinCounted
    <3> QED
      BY <1>1, <1>5, <1>6, <2>1, <3>1 DEF JoinCounted
  <2> QED
    BY <2>6, <2>7, <2>8 DEF JoinInv, JoinFires
<1> QED
  BY <1>7, <1>8

LEMMA JoinStep == JoinInv /\ [CallbackNext]_callbackVars => JoinInv'
<1> SUFFICES ASSUME JoinInv, [CallbackNext]_callbackVars PROVE JoinInv'
  OBVIOUS
<1> USE DEF JoinInv, JoinTyped, JoinCounted, JoinFires
<1>1. ASSUME UNCHANGED <<tokens, nextId, pending, stat>>, fired' \in BOOLEAN,
             fired' /\ cause' = "join" => fired /\ cause = "join",
             resetSince => resetSince', fired => fired' \/ resetSince'
      PROVE  JoinInv'
  BY <1>1
<1>2. CASE UNCHANGED callbackVars \/ Run \/ CallsNext \/ FunctionReturns \/ LoopEnds
           \/ FunctionThrows
  BY <1>1, <1>2 DEF callbackVars, Run, CallsNext, FunctionReturns, LoopEnds,
     FunctionThrows
<1>3. CASE Fire
  BY <1>1, <1>3 DEF Fire, Fired
<1>4. CASE Reset
  BY <1>1, <1>4 DEF Reset
<1> QED
  BY <1>2, <1>3, <1>4, ChainKeepsJoin, DeferredKeepsJoin DEF CallbackNext

(* The results of chain fire the object when the last has come, not before *)
(* (lib/Callback.js, chain and _deferred).                                 *)
THEOREM LastResultFires == CallbackSpec => []JoinWaits
<1>1. JoinInv => JoinWaits
  <2> SUFFICES ASSUME JoinInv PROVE JoinWaits
    OBVIOUS
  <2>1. ASSUME fired, cause = "join", NEW t \in 1..Len(tokens)
        PROVE  tokens[t].reported
    <3>1. pending = 0 /\ Cardinality(stat) = Len(tokens)
      BY <2>1, TokensCounted DEF JoinInv, JoinCounted, JoinFires
    <3>2. Cardinality(stat) <= Cardinality(TokenIds)
      BY TokensCounted, FS_Subset
    <3>3. Cardinality(TokenIds) = Len(tokens)
      BY <3>1, <3>2, TokensCounted
    <3>4. stat = TokenIds
      BY <3>1, <3>3, TokensCounted, FS_Subset
    <3>5. PICK u \in 1..Len(tokens) : tokens[u].id = tokens[t].id /\ tokens[u].reported
      BY <3>4 DEF JoinInv, JoinCounted, TokenIds
    <3> QED
      BY <3>3, <3>5, TokensCounted
  <2>2. ASSUME tokens # <<>>, ~resetSince,
               \A t \in 1..Len(tokens) : tokens[t].reported,
               \A t, u \in 1..Len(tokens) : tokens[t].id = tokens[u].id => t = u
        PROVE  fired
    <3>1. Cardinality(TokenIds) = Len(tokens)
      BY <2>2, TokensCounted
    <3>2. stat = TokenIds
      BY <2>2, TokensCounted DEF JoinInv, JoinCounted, TokenIds
    <3>3. pending = 0
      BY <3>1, <3>2, TokensCounted DEF JoinInv, JoinTyped, JoinCounted
    <3> QED
      BY <2>2, <3>3 DEF JoinInv, JoinFires
  <2> QED
    BY <2>1, <2>2 DEF JoinWaits
<1> QED
  BY <1>1, JoinBegins, JoinStep, PTL DEF CallbackSpec
---------------------------------------------------------------------------
(* Callback: the functions it is given *)

FireArgs == {"none", "fired", "results"}
FiringRecord == [rest : Seq(Nat), args : FireArgs, inside : BOOLEAN]

Once(list) == \A i, j \in 1..Len(list) : list[i] = list[j] => i = j

CallsTyped ==
  /\ called \in Seq(Nat \X FireArgs) /\ queue \in Seq(Nat)
  /\ loops \in Seq(FiringRecord) /\ fireArgs \in FireArgs

\* A function is once in one list of functions to be called.
LoopsOnce ==
  /\ \A k \in 1..Len(loops) : Once(loops[k].rest)
  /\ \A k, l \in 1..Len(loops) : \A f \in ToSet(loops[k].rest) :
       f \in ToSet(loops[l].rest) => k = l

ListedOnce ==
  /\ \A i, j \in 1..Len(called) : called[i][1] = called[j][1] => i = j
  /\ Once(queue)
  /\ LoopsOnce

(* A function is at one of four places: it was called, it was lost, it is  *)
(* about to be called, or it waits.                                        *)
PlacesApart ==
  /\ Called \cap lost = {} /\ Called \cap InLoops = {} /\ Called \cap ToSet(queue) = {}
  /\ lost \cap InLoops = {} /\ lost \cap ToSet(queue) = {}
  /\ InLoops \cap ToSet(queue) = {}

NamedInOrder == \E n \in Nat : Given = 1..n

CallsInv == CallsTyped /\ ListedOnce /\ PlacesApart /\ NamedInOrder

LEMMA ListSets ==
  ASSUME NEW S, NEW list \in Seq(S)
  PROVE  /\ \A f : f \in ToSet(list) <=> \E i \in 1..Len(list) : list[i] = f
         /\ \A f \in S : ToSet(Append(list, f)) = ToSet(list) \cup {f}
         /\ list # <<>> => /\ ToSet(list) = ToSet(Tail(list)) \cup {Head(list)}
                           /\ Tail(list) \in Seq(S) /\ Head(list) \in S
<1>1. DOMAIN list = 1..Len(list) /\ Len(list) \in Nat
  BY LenProperties
<1>2. \A f : f \in ToSet(list) <=> \E i \in 1..Len(list) : list[i] = f
  BY <1>1 DEF ToSet
<1>3. ASSUME NEW f \in S PROVE ToSet(Append(list, f)) = ToSet(list) \cup {f}
  <2>1. /\ DOMAIN Append(list, f) = 1..(Len(list) + 1)
        /\ \A i \in 1..Len(list) : Append(list, f)[i] = list[i]
        /\ Append(list, f)[Len(list) + 1] = f
    BY <1>1
  <2>2. \A i \in 1..(Len(list) + 1) : i \in 1..Len(list) \/ i = Len(list) + 1
    BY <1>1
  <2>3. \A i \in 1..Len(list) : i \in 1..(Len(list) + 1)
    BY <1>1
  <2>4. Len(list) + 1 \in 1..(Len(list) + 1)
    BY <1>1
  <2> QED
    BY <1>1, <2>1, <2>2, <2>3, <2>4 DEF ToSet
<1>4. ASSUME list # <<>>
      PROVE  /\ ToSet(list) = ToSet(Tail(list)) \cup {Head(list)}
             /\ Tail(list) \in Seq(S) /\ Head(list) \in S
  <2>1. /\ Tail(list) \in Seq(S) /\ Head(list) \in S /\ Head(list) = list[1]
        /\ Len(Tail(list)) = Len(list) - 1 /\ 1 \in 1..Len(list)
        /\ \A i \in 1..(Len(list) - 1) : Tail(list)[i] = list[i + 1]
    BY <1>1, <1>4
  <2>2. DOMAIN Tail(list) = 1..(Len(list) - 1)
    BY <2>1, LenProperties
  <2>3. \A i \in 1..(Len(list) - 1) : i + 1 \in 1..Len(list)
    BY <1>1
  <2>4. ToSet(Tail(list)) \cup {Head(list)} \subseteq ToSet(list)
    BY <1>1, <2>1, <2>2, <2>3 DEF ToSet
  <2>5. ASSUME NEW i \in 1..Len(list)
        PROVE  list[i] \in ToSet(Tail(list)) \cup {Head(list)}
    <3>1. CASE i = 1
      BY <2>1, <3>1
    <3>2. CASE i # 1
      <4>1. i - 1 \in 1..(Len(list) - 1) /\ (i - 1) + 1 = i
        BY <1>1, <3>2
      <4>2. Tail(list)[i - 1] = list[i]
        BY <2>1, <4>1
      <4> QED
        BY <2>2, <4>1, <4>2 DEF ToSet
    <3> QED
      BY <3>1, <3>2
  <2>6. ToSet(list) \subseteq ToSet(Tail(list)) \cup {Head(list)}
    BY <1>1, <2>5 DEF ToSet
  <2> QED
    BY <2>1, <2>4, <2>6
<1> QED
  BY <1>2, <1>3, <1>4

\* The rest of a list without repetitions has none, and not its first entry.
LEMMA TailOnce ==
  ASSUME NEW S, NEW list \in Seq(S), list # <<>>, Once(list)
  PROVE  Once(Tail(list)) /\ Head(list) \notin ToSet(Tail(list))
<1>1. /\ Tail(list) \in Seq(S) /\ Head(list) = list[1] /\ Len(list) \in Nat
      /\ Len(Tail(list)) = Len(list) - 1 /\ 1 \in 1..Len(list)
      /\ \A i \in 1..(Len(list) - 1) : Tail(list)[i] = list[i + 1]
  BY LenProperties
<1>2. \A i \in 1..(Len(list) - 1) : i + 1 \in 1..Len(list) /\ i + 1 # 1
  BY <1>1
<1>3. \A i, j \in 1..(Len(list) - 1) : i + 1 = j + 1 => i = j
  BY <1>1
<1>4. Once(Tail(list))
  BY <1>1, <1>2, <1>3 DEF Once
<1>5. \A i \in 1..Len(Tail(list)) : Tail(list)[i] # Head(list)
  BY <1>1, <1>2 DEF Once
<1>6. \A rest \in Seq(S) : \A f : f \in ToSet(rest) <=> \E i \in 1..Len(rest) : rest[i] = f
  BY ListSets
<1> QED
  BY <1>1, <1>4, <1>5, <1>6

LEMMA InLoopsHere ==
  \A f : f \in InLoops <=> \E k \in 1..Len(loops) : f \in ToSet(loops[k].rest)
BY DEF InLoops

(* A loop over functions that no other loop is about to call. *)
LEMMA FiringBegins ==
  ASSUME CallsTyped, LoopsOnce, NEW list \in Seq(Nat), NEW args \in FireArgs,
         Once(list), ToSet(list) \cap InLoops = {}, loops' = Loop(list, args)
  PROVE  /\ loops' \in Seq(FiringRecord) /\ LoopsOnce'
         /\ InLoops' = InLoops \cup ToSet(list)
<1> DEFINE new == [rest |-> list, args |-> args, inside |-> FALSE]
<1>1. new \in FiringRecord /\ new.rest = list
  BY DEF FiringRecord
<1>2. loops' = <<new>> \o loops
  BY DEF Loop
<1> HIDE DEF new
<1>3. loops \in Seq(FiringRecord) /\ Len(loops) \in Nat
  BY LenProperties DEF CallsTyped
<1>4. /\ loops' \in Seq(FiringRecord) /\ Len(loops') = Len(loops) + 1
      /\ loops'[1] = new
      /\ \A k \in 2..(Len(loops) + 1) : loops'[k] = loops[k - 1]
  BY <1>1, <1>2, <1>3
<1>5. \A k \in 1..Len(loops') :
        \/ k = 1 /\ loops'[k].rest = list
        \/ /\ k # 1 /\ k - 1 \in 1..Len(loops)
           /\ loops'[k].rest = loops[k - 1].rest
  BY <1>1, <1>3, <1>4
<1>6. \A k \in 1..Len(loops) :
        k + 1 \in 1..Len(loops') /\ loops'[k + 1].rest = loops[k].rest
  BY <1>3, <1>4
<1>7. 1 \in 1..Len(loops') /\ loops'[1].rest = list
  BY <1>1, <1>3, <1>4
<1>8. \A f \in ToSet(list) : \A k \in 1..Len(loops) : f \notin ToSet(loops[k].rest)
  BY InLoopsHere
<1>9. LoopsOnce'
  <2>1. ASSUME NEW k \in 1..Len(loops') PROVE Once(loops'[k].rest)
    BY <1>5 DEF LoopsOnce
  <2>2. ASSUME NEW k \in 1..Len(loops'), NEW l \in 1..Len(loops'),
               NEW f \in ToSet(loops'[k].rest), f \in ToSet(loops'[l].rest)
        PROVE  k = l
    <3>1. CASE k = 1 \/ l = 1
      BY <1>5, <1>8, <2>2, <3>1
    <3>2. CASE k # 1 /\ l # 1
      <4>1. k - 1 = l - 1
        BY <1>5, <2>2, <3>2 DEF LoopsOnce
      <4> QED
        BY <4>1
    <3> QED
      BY <3>1, <3>2
  <2> QED
    BY <2>1, <2>2 DEF LoopsOnce, Once
<1>10. InLoops' = InLoops \cup ToSet(list)
  <2>1. \A f : f \in InLoops' <=> \E k \in 1..Len(loops') : f \in ToSet(loops'[k].rest)
    BY DEF InLoops
  <2>2. \A f : f \in InLoops' => f \in InLoops \cup ToSet(list)
    BY <1>5, <2>1, InLoopsHere
  <2>3. \A f : f \in InLoops \cup ToSet(list) => f \in InLoops'
    BY <1>6, <1>7, <2>1, InLoopsHere
  <2> QED
    BY <2>2, <2>3
<1> QED
  BY <1>4, <1>9, <1>10
(* The innermost loop goes on with a shorter list. *)
LEMMA FiringGoesOn ==
  ASSUME CallsTyped, LoopsOnce, loops # <<>>, NEW new \in FiringRecord,
         loops' = [loops EXCEPT ![1] = new], Once(new.rest),
         NEW out, out \cap ToSet(new.rest) = {},
         ToSet(Head(loops).rest) = ToSet(new.rest) \cup out
  PROVE  /\ loops' \in Seq(FiringRecord) /\ LoopsOnce'
         /\ InLoops = InLoops' \cup out /\ out \cap InLoops' = {}
<1>1. /\ loops \in Seq(FiringRecord) /\ 1 \in 1..Len(loops) /\ Head(loops) = loops[1]
      /\ ToSet(loops[1].rest) = ToSet(new.rest) \cup out
  BY DEF CallsTyped
<1>2. /\ loops' \in Seq(FiringRecord) /\ Len(loops') = Len(loops) /\ loops'[1] = new
      /\ \A k \in 1..Len(loops) : k # 1 => loops'[k] = loops[k]
  BY <1>1, ExceptSeq
<1>3. \A k \in 1..Len(loops) :
        /\ Once(loops'[k].rest)
        /\ ToSet(loops'[k].rest) \subseteq ToSet(loops[k].rest)
        /\ k # 1 => ToSet(loops'[k].rest) = ToSet(loops[k].rest)
  <2> SUFFICES ASSUME NEW k \in 1..Len(loops)
               PROVE  /\ Once(loops'[k].rest)
                      /\ ToSet(loops'[k].rest) \subseteq ToSet(loops[k].rest)
                      /\ k # 1 => ToSet(loops'[k].rest) = ToSet(loops[k].rest)
    OBVIOUS
  <2>1. CASE k = 1
    BY <1>1, <1>2, <2>1
  <2>2. CASE k # 1
    BY <1>2, <2>2 DEF LoopsOnce
  <2> QED
    BY <2>1, <2>2
<1>4. LoopsOnce'
  <2>1. \A k, l \in 1..Len(loops) : \A f \in ToSet(loops'[k].rest) :
          f \in ToSet(loops'[l].rest) => k = l
    BY <1>3 DEF LoopsOnce
  <2> QED
    BY <1>2, <1>3, <2>1 DEF LoopsOnce, Once
<1>5. \A f : f \in InLoops' <=> \E k \in 1..Len(loops) : f \in ToSet(loops'[k].rest)
  BY <1>2 DEF InLoops
<1>6. \A f \in out : \A k \in 1..Len(loops) : f \notin ToSet(loops'[k].rest)
  <2> SUFFICES ASSUME NEW f \in out, NEW k \in 1..Len(loops), f \in ToSet(loops'[k].rest)
               PROVE  FALSE
    OBVIOUS
  <2>1. f \in ToSet(loops[1].rest) /\ f \in ToSet(loops[k].rest)
    BY <1>1, <1>3
  <2>2. k = 1
    BY <1>1, <2>1 DEF LoopsOnce
  <2> QED
    BY <1>2, <2>2
<1>7. \A f : f \in InLoops <=> f \in InLoops' \cup out
  <2>1. ASSUME NEW f \in InLoops PROVE f \in InLoops' \cup out
    <3>1. PICK k \in 1..Len(loops) : f \in ToSet(loops[k].rest)
      BY InLoopsHere
    <3>2. CASE k = 1
      BY <1>1, <1>2, <1>5, <3>1, <3>2
    <3>3. CASE k # 1
      BY <1>3, <1>5, <3>1, <3>3
    <3> QED
      BY <3>2, <3>3
  <2>2. ASSUME NEW f \in InLoops' \cup out PROVE f \in InLoops
    BY <1>1, <1>3, <1>5, InLoopsHere
  <2> QED
    BY <2>1, <2>2
<1> QED
  BY <1>2, <1>4, <1>5, <1>6, <1>7

(* The innermost loop is gone. *)
LEMMA FiringGone ==
  ASSUME CallsTyped, LoopsOnce, loops # <<>>, loops' = Tail(loops)
  PROVE  /\ loops' \in Seq(FiringRecord) /\ LoopsOnce'
         /\ InLoops = InLoops' \cup ToSet(Head(loops).rest)
         /\ ToSet(Head(loops).rest) \cap InLoops' = {}
<1>1. /\ loops \in Seq(FiringRecord) /\ 1 \in 1..Len(loops) /\ Head(loops) = loops[1]
      /\ Len(loops) \in Nat
  BY LenProperties DEF CallsTyped
<1>2. /\ loops' \in Seq(FiringRecord) /\ Len(loops') = Len(loops) - 1
      /\ \A k \in 1..Len(loops') : loops'[k] = loops[k + 1]
  BY <1>1
<1>3. \A k \in 1..Len(loops') : k + 1 \in 1..Len(loops) /\ k + 1 # 1
  BY <1>1, <1>2
<1>4. \A k \in 1..Len(loops) :
        k # 1 => k - 1 \in 1..Len(loops') /\ loops'[k - 1] = loops[k]
  <2> SUFFICES ASSUME NEW k \in 1..Len(loops), k # 1
               PROVE  k - 1 \in 1..Len(loops') /\ loops'[k - 1] = loops[k]
    OBVIOUS
  <2>1. k - 1 \in 1..Len(loops') /\ (k - 1) + 1 = k
    BY <1>1, <1>2
  <2> QED
    BY <1>2, <2>1
<1>5. LoopsOnce'
  <2>1. \A k \in 1..Len(loops') : Once(loops'[k].rest)
    BY <1>2, <1>3 DEF LoopsOnce
  <2>2. ASSUME NEW k \in 1..Len(loops'), NEW l \in 1..Len(loops'),
               NEW f \in ToSet(loops'[k].rest), f \in ToSet(loops'[l].rest)
        PROVE  k = l
    <3>1. k + 1 = l + 1
      BY <1>2, <1>3, <2>2 DEF LoopsOnce
    <3> QED
      BY <3>1
  <2> QED
    BY <2>1, <2>2 DEF LoopsOnce, Once
<1>6. \A f : f \in InLoops' <=> \E k \in 1..Len(loops') : f \in ToSet(loops'[k].rest)
  BY DEF InLoops
<1>7. ASSUME NEW f \in InLoops PROVE f \in InLoops' \/ f \in ToSet(loops[1].rest)
  <2>1. PICK k \in 1..Len(loops) : f \in ToSet(loops[k].rest)
    BY <1>7, InLoopsHere
  <2> QED
    BY <1>4, <1>6, <2>1
<1>8. ASSUME NEW f \in InLoops' PROVE f \in InLoops /\ f \notin ToSet(loops[1].rest)
  <2>1. PICK k \in 1..Len(loops') : f \in ToSet(loops'[k].rest)
    BY <1>6, <1>8
  <2>2. k + 1 \in 1..Len(loops) /\ k + 1 # 1 /\ f \in ToSet(loops[k + 1].rest)
    BY <1>2, <1>3, <2>1
  <2> QED
    BY <1>1, <2>2, InLoopsHere DEF LoopsOnce
<1>9. \A f \in ToSet(loops[1].rest) : f \in InLoops
  BY <1>1, InLoopsHere
<1> QED
  BY <1>1, <1>2, <1>5, <1>7, <1>8, <1>9

LEMMA CallsBegin == CallbackInit => CallsInv
<1> SUFFICES ASSUME CallbackInit PROVE CallsInv
  OBVIOUS
<1>1. /\ called = <<>> /\ queue = <<>> /\ loops = <<>> /\ lost = {}
      /\ fireArgs = "none" /\ Len(called) = 0 /\ Len(queue) = 0 /\ Len(loops) = 0
      /\ ToSet(<<>>) = {}
  BY DEF CallbackInit, ToSet
<1>2. CallsTyped
  BY <1>1 DEF CallsTyped, FireArgs
<1>3. ListedOnce
  BY <1>1 DEF ListedOnce, LoopsOnce, Once
<1>4. Called = {} /\ InLoops = {} /\ ToSet(queue) = {}
  BY <1>1 DEF Called, InLoops
<1>5. PlacesApart
  BY <1>1, <1>4 DEF PlacesApart
<1>6. Given = 1..0
  BY <1>1, <1>4 DEF Given
<1> QED
  BY <1>2, <1>3, <1>5, <1>6 DEF CallsInv, NamedInOrder

(* What was called is not in any list again. *)
LEMMA CalledGrows ==
  ASSUME CallsTyped, NEW f \in Nat, NEW args \in FireArgs, f \notin Called,
         \A i, j \in 1..Len(called) : called[i][1] = called[j][1] => i = j,
         called' = Append(called, <<f, args>>)
  PROVE  /\ called' \in Seq(Nat \X FireArgs) /\ Called' = Called \cup {f}
         /\ \A i, j \in 1..Len(called') : called'[i][1] = called'[j][1] => i = j
<1>1. called \in Seq(Nat \X FireArgs) /\ <<f, args>> \in Nat \X FireArgs
  BY DEF CallsTyped
<1>2. Len(called) \in Nat
  BY <1>1, LenProperties
<1>3. /\ called' \in Seq(Nat \X FireArgs) /\ Len(called') = Len(called) + 1
      /\ called'[Len(called) + 1] = <<f, args>>
      /\ \A i \in 1..Len(called) : called'[i] = called[i]
  BY <1>1, <1>2
<1>4. \A x : x \in Called <=> \E i \in 1..Len(called) : called[i][1] = x
  <2>1. \A call : call \in ToSet(called) <=> \E i \in 1..Len(called) : called[i] = call
    BY <1>1, ListSets
  <2>2. \A x : x \in Called <=> \E call \in ToSet(called) : call[1] = x
    BY DEF Called
  <2> QED
    BY <2>1, <2>2
<1>5. ToSet(called') = ToSet(called) \cup {<<f, args>>}
  <2>1. PICK call \in Nat \X FireArgs : call = <<f, args>>
    BY <1>1
  <2>2. called' = Append(called, call)
    BY <2>1
  <2>3. ToSet(called') = ToSet(called) \cup {call}
    BY <1>1, <2>2, ListSets
  <2> QED
    BY <2>1, <2>3
<1>6. Called' = Called \cup {f}
  <2>1. Called' = {call[1] : call \in ToSet(called')}
    BY DEF Called
  <2>2. <<f, args>>[1] = f
    OBVIOUS
  <2> QED
    BY <1>5, <2>1, <2>2 DEF Called
<1>7. \A i \in 1..Len(called') :
        \/ i = Len(called) + 1 /\ called'[i][1] = f
        \/ /\ i \in 1..Len(called) /\ called'[i][1] = called[i][1]
           /\ called'[i][1] # f
  <2>1. \A i \in 1..Len(called') : i \in 1..Len(called) \/ i = Len(called) + 1
    BY <1>2, <1>3
  <2>2. \A i \in 1..Len(called) : called[i][1] # f
    BY <1>4
  <2> QED
    BY <1>3, <2>1, <2>2
<1>8. \A i, j \in 1..Len(called') : called'[i][1] = called'[j][1] => i = j
  BY <1>7
<1> QED
  BY <1>3, <1>6, <1>8

(* run: a function that is new waits, or is called at once. *)
LEMMA RunKeeps == CallsInv /\ Run => CallsInv'
<1> SUFFICES ASSUME CallsInv, Run PROVE CallsInv'
  OBVIOUS
<1>1. PICK n \in Nat : Given = 1..n
  BY DEF CallsInv, NamedInOrder
<1>2. Cardinality(Given) = n
  BY <1>1, FS_Interval
<1>3. PICK f \in Nat : f = n + 1
  OBVIOUS
<1>4. /\ UNCHANGED <<called, lost, fireArgs>>
      /\ \/ loops' = Loop(<<f>>, fireArgs) /\ UNCHANGED queue
         \/ queue' = Append(queue, f) /\ UNCHANGED loops
  BY <1>2, <1>3 DEF Run
<1>5. f \notin Given /\ Given \cup {f} = 1..f
  BY <1>1, <1>3
<1>6. f \notin Called /\ f \notin lost /\ f \notin InLoops /\ f \notin ToSet(queue)
  BY <1>5 DEF Given
<1>7. CallsTyped /\ ListedOnce /\ PlacesApart
  BY DEF CallsInv
<1>8. Called' = Called
  BY <1>4 DEF Called
<1>9. CASE loops' = Loop(<<f>>, fireArgs) /\ UNCHANGED queue
  <2>1. PICK list \in Seq(Nat) : list = <<f>>
    <3>1. <<f>> \in Seq(Nat)
      OBVIOUS
    <3> QED
      BY <3>1
  <2>2. Once(list) /\ ToSet(list) = {f}
    <3>1. Len(list) = 1 /\ list[1] = f /\ 1..1 = {1}
      BY <2>1
    <3>2. \A i \in 1..Len(list) : i = 1
      BY <3>1
    <3>3. Once(list)
      BY <3>2 DEF Once
    <3>4. \A x : x \in ToSet(list) <=> \E i \in 1..Len(list) : list[i] = x
      BY ListSets
    <3> QED
      BY <3>1, <3>3, <3>4
  <2>3. /\ loops' \in Seq(FiringRecord) /\ LoopsOnce'
        /\ InLoops' = InLoops \cup {f}
    <3>1. ToSet(list) \cap InLoops = {} /\ fireArgs \in FireArgs /\ LoopsOnce
      BY <1>6, <1>7, <2>2 DEF CallsTyped, ListedOnce
    <3>2. loops' = Loop(list, fireArgs)
      BY <1>9, <2>1
    <3> QED
      BY <1>7, <2>2, <3>1, <3>2, FiringBegins
  <2>4. CallsTyped'
    BY <1>4, <1>7, <1>9, <2>3 DEF CallsTyped
  <2>5. ListedOnce'
    BY <1>4, <1>7, <1>9, <2>3 DEF ListedOnce, Once
  <2>6. PlacesApart'
    BY <1>4, <1>6, <1>7, <1>8, <1>9, <2>3 DEF PlacesApart
  <2>7. Given' = Given \cup {f}
    BY <1>4, <1>8, <1>9, <2>3 DEF Given
  <2> QED
    BY <1>5, <2>4, <2>5, <2>6, <2>7 DEF CallsInv, NamedInOrder
<1>10. CASE queue' = Append(queue, f) /\ UNCHANGED loops
  <2>1. queue \in Seq(Nat) /\ Len(queue) \in Nat
    BY <1>7, LenProperties DEF CallsTyped
  <2>2. /\ queue' \in Seq(Nat) /\ Len(queue') = Len(queue) + 1
        /\ queue'[Len(queue) + 1] = f
        /\ \A i \in 1..Len(queue) : queue'[i] = queue[i]
    BY <1>10, <2>1
  <2>3. ToSet(queue') = ToSet(queue) \cup {f}
    BY <1>10, <2>1, ListSets
  <2>4. \A i \in 1..Len(queue') :
          \/ i = Len(queue) + 1 /\ queue'[i] = f
          \/ i \in 1..Len(queue) /\ queue'[i] = queue[i] /\ queue'[i] # f
    <3>1. \A i \in 1..Len(queue') : i \in 1..Len(queue) \/ i = Len(queue) + 1
      BY <2>1, <2>2
    <3>2. \A i \in 1..Len(queue) : queue[i] # f
      BY <1>6, <2>1, ListSets
    <3> QED
      BY <2>2, <3>1, <3>2
  <2>5. Once(queue)'
    BY <1>7, <2>4 DEF ListedOnce, Once
  <2>6. LoopsOnce' /\ InLoops' = InLoops
    <3>1. InLoops' = InLoops
      BY <1>10 DEF InLoops
    <3> QED
      BY <1>7, <1>10, <3>1 DEF ListedOnce, LoopsOnce, Once
  <2>7. CallsTyped'
    BY <1>4, <1>7, <1>10, <2>2 DEF CallsTyped
  <2>8. ListedOnce'
    BY <1>4, <1>7, <2>5, <2>6 DEF ListedOnce
  <2>9. PlacesApart'
    BY <1>4, <1>6, <1>7, <1>8, <2>3, <2>6 DEF PlacesApart
  <2>10. Given' = Given \cup {f}
    BY <1>4, <1>8, <2>3, <2>6 DEF Given
  <2> QED
    BY <1>5, <2>7, <2>8, <2>9, <2>10 DEF CallsInv, NamedInOrder
<1> QED
  BY <1>4, <1>9, <1>10

(* fire: what waited is about to be called. *)
LEMMA FiredKeeps ==
  ASSUME CallsInv, NEW args \in FireArgs, NEW by, Fired(args, by), UNCHANGED <<called, lost>>
  PROVE  CallsInv'
<1>1. CallsTyped /\ ListedOnce /\ PlacesApart /\ NamedInOrder
  BY DEF CallsInv
<1>2. Called' = Called
  BY DEF Called
<1>3. CASE fired
  <2>1. UNCHANGED <<called, lost, queue, fireArgs, loops>>
    BY <1>3 DEF Fired
  <2>2. InLoops' = InLoops /\ Given' = Given
    BY <1>2, <2>1 DEF InLoops, Given
  <2>3. CallsTyped' /\ ListedOnce'
    BY <1>1, <2>1 DEF CallsTyped, ListedOnce, LoopsOnce, Once
  <2>4. PlacesApart' /\ NamedInOrder'
    BY <1>1, <1>2, <2>1, <2>2 DEF PlacesApart, NamedInOrder
  <2> QED
    BY <2>3, <2>4 DEF CallsInv
<1>4. CASE ~fired
  <2>1. fireArgs' = args /\ loops' = Loop(queue, args) /\ queue' = <<>>
    BY <1>4 DEF Fired
  <2>2. /\ loops' \in Seq(FiringRecord) /\ LoopsOnce'
        /\ InLoops' = InLoops \cup ToSet(queue)
    <3>1. queue \in Seq(Nat) /\ Once(queue) /\ LoopsOnce
          /\ ToSet(queue) \cap InLoops = {}
      BY <1>1 DEF CallsTyped, ListedOnce, PlacesApart
    <3> QED
      BY <1>1, <2>1, <3>1, FiringBegins
  <2>3. ToSet(queue') = {} /\ Len(queue') = 0 /\ queue' \in Seq(Nat)
    BY <2>1 DEF ToSet
  <2>4. CallsTyped'
    BY <1>1, <2>1, <2>2, <2>3 DEF CallsTyped
  <2>5. ListedOnce'
    BY <1>1, <2>2, <2>3 DEF ListedOnce, Once
  <2>6. PlacesApart' /\ Given' = Given
    BY <1>1, <1>2, <2>2, <2>3 DEF PlacesApart, Given
  <2> QED
    BY <1>1, <2>4, <2>5, <2>6 DEF CallsInv, NamedInOrder
<1> QED
  BY <1>3, <1>4

(* The loop calls the next of its list. *)
LEMMA CallsNextKeeps == CallsInv /\ CallsNext => CallsInv'
<1> SUFFICES ASSUME CallsInv, CallsNext PROVE CallsInv'
  OBVIOUS
<1>1. CallsTyped /\ ListedOnce /\ PlacesApart /\ NamedInOrder
  BY DEF CallsInv
<1>2. /\ loops \in Seq(FiringRecord) /\ loops # <<>> /\ Head(loops) = loops[1]
      /\ 1 \in 1..Len(loops)
  BY <1>1 DEF CallsTyped, CallsNext
<1>3. PICK top \in FiringRecord : top = loops[1] /\ top.rest # <<>>
  BY <1>2, ElementOfSeq DEF CallsNext
<1>4. PICK rest \in Seq(Nat) : rest = top.rest
  BY DEF FiringRecord
<1>5. PICK f \in Nat : f = Head(rest)
  BY <1>3, <1>4
<1>6. PICK left \in Seq(Nat) : left = Tail(rest)
  <2>1. Tail(rest) \in Seq(Nat)
    BY <1>3, <1>4, ListSets
  <2> QED
    BY <2>1
<1>7. ToSet(rest) = ToSet(left) \cup {f} /\ Once(left) /\ f \notin ToSet(left)
  <2>1. rest # <<>> /\ Once(rest)
    BY <1>1, <1>2, <1>3, <1>4 DEF ListedOnce, LoopsOnce
  <2> QED
    BY <1>5, <1>6, <2>1, ListSets, TailOnce
<1>8. PICK new \in FiringRecord : /\ new.rest = left
                                  /\ loops' = [loops EXCEPT ![1] = new]
  <2> DEFINE new == [top EXCEPT !.rest = left, !.inside = TRUE]
  <2>1. new \in FiringRecord /\ new.rest = left
    BY DEF FiringRecord
  <2>2. loops' = [loops EXCEPT ![1].rest = Tail(@), ![1].inside = TRUE]
    BY DEF CallsNext
  <2>3. loops' = [loops EXCEPT ![1] = new]
    BY <1>2, <1>3, <1>4, <1>6, <2>2
  <2> QED
    BY <2>1, <2>3
<1>9. PICK args \in FireArgs : called' = Append(called, <<f, args>>)
  BY <1>2, <1>3, <1>4, <1>5 DEF CallsNext, FiringRecord
<1>10. UNCHANGED <<queue, fireArgs, lost>>
  BY DEF CallsNext
<1>11. /\ loops' \in Seq(FiringRecord) /\ LoopsOnce'
       /\ InLoops = InLoops' \cup {f} /\ {f} \cap InLoops' = {}
  <2>1. ToSet(Head(loops).rest) = ToSet(new.rest) \cup {f}
    BY <1>2, <1>3, <1>4, <1>7, <1>8
  <2>2. Once(new.rest) /\ {f} \cap ToSet(new.rest) = {}
    BY <1>7, <1>8
  <2> QED
    BY <1>1, <1>2, <1>8, <2>1, <2>2, FiringGoesOn DEF ListedOnce
<1>12. f \notin Called
  BY <1>1, <1>11 DEF PlacesApart
<1>13. /\ called' \in Seq(Nat \X FireArgs) /\ Called' = Called \cup {f}
       /\ \A i, j \in 1..Len(called') : called'[i][1] = called'[j][1] => i = j
  BY <1>1, <1>9, <1>12, CalledGrows DEF ListedOnce
<1>14. CallsTyped'
  BY <1>1, <1>10, <1>11, <1>13 DEF CallsTyped
<1>15. ListedOnce'
  BY <1>1, <1>10, <1>11, <1>13 DEF ListedOnce, Once
<1>16. PlacesApart' /\ Given' = Given
  BY <1>1, <1>10, <1>11, <1>13 DEF PlacesApart, Given
<1> QED
  BY <1>1, <1>14, <1>15, <1>16 DEF CallsInv, NamedInOrder

LEMMA FunctionReturnsKeeps == CallsInv /\ FunctionReturns => CallsInv'
<1> SUFFICES ASSUME CallsInv, FunctionReturns PROVE CallsInv'
  OBVIOUS
<1>1. CallsTyped /\ ListedOnce /\ PlacesApart /\ NamedInOrder
  BY DEF CallsInv
<1>2. /\ loops \in Seq(FiringRecord) /\ loops # <<>> /\ Head(loops) = loops[1]
      /\ 1 \in 1..Len(loops)
  BY <1>1 DEF CallsTyped, FunctionReturns
<1>3. PICK top \in FiringRecord : top = loops[1]
  BY <1>2, ElementOfSeq
<1>4. PICK new \in FiringRecord : /\ new.rest = top.rest
                                  /\ loops' = [loops EXCEPT ![1] = new]
  <2> DEFINE new == [top EXCEPT !.inside = FALSE]
  <2>1. new \in FiringRecord /\ new.rest = top.rest
    BY DEF FiringRecord
  <2>2. loops' = [loops EXCEPT ![1] = new]
    BY <1>2, <1>3 DEF FunctionReturns
  <2> QED
    BY <2>1, <2>2
<1>5. UNCHANGED <<called, queue, fireArgs, lost>>
  BY DEF FunctionReturns
<1>6. loops' \in Seq(FiringRecord) /\ LoopsOnce' /\ InLoops = InLoops'
  <2>1. PICK out : out = {}
    OBVIOUS
  <2>2. ToSet(Head(loops).rest) = ToSet(new.rest) \cup out
    BY <1>2, <1>3, <1>4, <2>1
  <2>3. Once(new.rest) /\ out \cap ToSet(new.rest) = {}
    BY <1>1, <1>2, <1>3, <1>4, <2>1 DEF ListedOnce, LoopsOnce
  <2>4. /\ loops' \in Seq(FiringRecord) /\ LoopsOnce'
        /\ InLoops = InLoops' \cup out /\ out \cap InLoops' = {}
    BY <1>1, <1>2, <1>4, <2>2, <2>3, FiringGoesOn DEF ListedOnce
  <2> QED
    BY <2>1, <2>4
<1>7. Called' = Called
  BY <1>5 DEF Called
<1>8. CallsTyped'
  BY <1>1, <1>5, <1>6 DEF CallsTyped
<1>9. ListedOnce'
  BY <1>1, <1>5, <1>6 DEF ListedOnce, Once
<1>10. PlacesApart' /\ Given' = Given
  BY <1>1, <1>5, <1>6, <1>7 DEF PlacesApart, Given
<1> QED
  BY <1>1, <1>8, <1>9, <1>10 DEF CallsInv, NamedInOrder

(* A loop ends, or an exception leaves it: what it had to call is lost. *)
LEMMA LoopGoneKeeps == CallsInv /\ (LoopEnds \/ FunctionThrows) => CallsInv'
<1> SUFFICES ASSUME CallsInv, LoopEnds \/ FunctionThrows PROVE CallsInv'
  OBVIOUS
<1>1. CallsTyped /\ ListedOnce /\ PlacesApart /\ NamedInOrder
  BY DEF CallsInv
<1>2. /\ loops # <<>> /\ loops' = Tail(loops)
      /\ UNCHANGED <<called, queue, fireArgs>>
  BY DEF LoopEnds, FunctionThrows
<1>3. lost' = lost \cup ToSet(Head(loops).rest)
  <2>1. ToSet(<<>>) = {}
    BY DEF ToSet
  <2> QED
    BY <2>1 DEF LoopEnds, FunctionThrows
<1>4. /\ loops' \in Seq(FiringRecord) /\ LoopsOnce'
      /\ InLoops = InLoops' \cup ToSet(Head(loops).rest)
      /\ ToSet(Head(loops).rest) \cap InLoops' = {}
  BY <1>1, <1>2, FiringGone DEF ListedOnce
<1>5. Called' = Called
  BY <1>2 DEF Called
<1>6. CallsTyped'
  BY <1>1, <1>2, <1>4 DEF CallsTyped
<1>7. ListedOnce'
  BY <1>1, <1>2, <1>4 DEF ListedOnce, Once
<1>8. PlacesApart' /\ Given' = Given
  BY <1>1, <1>2, <1>3, <1>4, <1>5 DEF PlacesApart, Given
<1> QED
  BY <1>1, <1>6, <1>7, <1>8 DEF CallsInv, NamedInOrder

LEMMA CallsStep == CallsInv /\ [CallbackNext]_callbackVars => CallsInv'
<1> SUFFICES ASSUME CallsInv, [CallbackNext]_callbackVars PROVE CallsInv'
  OBVIOUS
<1>1. ASSUME UNCHANGED <<called, queue, loops, lost>>, fireArgs' \in FireArgs
      PROVE  CallsInv'
  <2>1. CallsTyped /\ ListedOnce /\ PlacesApart /\ NamedInOrder
    BY DEF CallsInv
  <2>2. Called' = Called /\ InLoops' = InLoops
    BY <1>1 DEF Called, InLoops
  <2>3. CallsTyped'
    BY <1>1, <2>1 DEF CallsTyped
  <2>4. ListedOnce'
    BY <1>1, <2>1 DEF ListedOnce, LoopsOnce, Once
  <2>5. PlacesApart' /\ Given' = Given
    BY <1>1, <2>1, <2>2 DEF PlacesApart, Given
  <2> QED
    BY <2>1, <2>3, <2>4, <2>5 DEF CallsInv, NamedInOrder
<1>2. fireArgs \in FireArgs /\ "none" \in FireArgs /\ "fired" \in FireArgs
      /\ "results" \in FireArgs
  BY DEF CallsInv, CallsTyped, FireArgs
<1>3. CASE UNCHANGED callbackVars
  BY <1>1, <1>2, <1>3 DEF callbackVars
<1>4. CASE Reset \/ ChainCounted \/ ChainNamed
  BY <1>1, <1>2, <1>4 DEF Reset, ChainCounted, ChainNamed, Chain, ChainResets
<1>5. CASE Fire
  BY <1>2, <1>5, FiredKeeps DEF Fire
<1>6. ASSUME NEW t \in 1..MaxChains, Deferred(t) PROVE CallsInv'
  <2>1. UNCHANGED <<called, lost>>
        /\ (Fired("results", "join") \/ UNCHANGED <<queue, fireArgs, loops>>)
    BY <1>6 DEF Deferred
  <2> QED
    BY <1>1, <1>2, <2>1, FiredKeeps
<1> QED
  BY <1>3, <1>4, <1>5, <1>6, RunKeeps, CallsNextKeeps, FunctionReturnsKeeps,
     LoopGoneKeeps DEF CallbackNext

(* A list without repetitions has as many entries as its set has elements. *)
LEMMA CountOnce ==
  ASSUME NEW S, NEW list \in Seq(S), Once(list)
  PROVE  IsFiniteSet(ToSet(list)) /\ Cardinality(ToSet(list)) = Len(list)
<1> DEFINE n == Len(list)
           entry == [i \in 1..n |-> list[i]]
<1>1. n \in Nat
  BY LenProperties
<1>2. entry \in Bijection(1..n, ToSet(list))
  <2>1. \A x \in ToSet(list) : \E i \in 1..n : entry[i] = x
    BY ListSets
  <2>2. entry \in [1..n -> ToSet(list)]
    BY ListSets
  <2>3. \A i, j \in 1..n : entry[i] = entry[j] => i = j
    BY DEF Once
  <2> HIDE DEF entry, n
  <2> QED
    BY <2>1, <2>2, <2>3 DEF Bijection, Injection, Surjection, IsInjective
<1>3. ExistsBijection(1..n, ToSet(list))
  BY <1>2 DEF ExistsBijection
<1> HIDE DEF n, entry
<1>4. IsFiniteSet(1..n) /\ Cardinality(1..n) = n
  BY <1>1, FS_Interval
<1>5. IsFiniteSet(ToSet(list)) /\ Cardinality(ToSet(list)) = n
  BY <1>3, <1>4, FS_Bijection
<1> QED
  BY <1>5 DEF n

(* No function is called twice, and none is forgotten but by an exception  *)
(* of another (lib/Callback.js, run and fire).                             *)
THEOREM FunctionsAreCalled == CallbackSpec => []CalledOnce
<1>1. CallsInv => CalledOnce
  <2> SUFFICES ASSUME CallsInv PROVE CalledOnce
    OBVIOUS
  <2>1. CallsTyped /\ ListedOnce /\ PlacesApart
    BY DEF CallsInv
  <2>2. PICK total \in Nat : Given = 1..total
    BY DEF CallsInv, NamedInOrder
  <2>3. IsFiniteSet(Given)
    BY <2>2, FS_Interval
  <2>4. /\ IsFiniteSet(Called) /\ IsFiniteSet(InLoops) /\ IsFiniteSet(ToSet(queue))
    BY <2>3, FS_Subset DEF Given
  <2>5. Cardinality(ToSet(queue)) = Len(queue)
    BY <2>1, CountOnce DEF CallsTyped, ListedOnce
  <2>6. Cardinality(Called) = Len(called) /\ Len(called) \in Nat
    <3> DEFINE n == Len(called)
               number == [i \in 1..n |-> called[i][1]]
    <3>1. called \in Seq(Nat \X FireArgs) /\ n \in Nat
      BY <2>1, LenProperties DEF CallsTyped
    <3>2. number \in Bijection(1..n, Called)
      <4>1. \A x : x \in Called <=> \E i \in 1..n : called[i][1] = x
        <5>1. \A call : call \in ToSet(called) <=> \E i \in 1..n : called[i] = call
          BY <3>1, ListSets
        <5>2. \A x : x \in Called <=> \E call \in ToSet(called) : call[1] = x
          BY DEF Called
        <5> QED
          BY <5>1, <5>2
      <4>2. number \in [1..n -> Called]
        BY <4>1
      <4>3. \A i, j \in 1..n : number[i] = number[j] => i = j
        BY <2>1 DEF ListedOnce
      <4>4. \A x \in Called : \E i \in 1..n : number[i] = x
        BY <4>1
      <4> HIDE DEF number, n
      <4> QED
        BY <4>2, <4>3, <4>4 DEF Bijection, Injection, Surjection, IsInjective
    <3>3. ExistsBijection(1..n, Called)
      BY <3>2 DEF ExistsBijection
    <3> HIDE DEF number, n
    <3>4. IsFiniteSet(1..n) /\ Cardinality(1..n) = n
      BY <3>1, FS_Interval
    <3>5. Cardinality(Called) = n
      BY <3>3, <3>4, FS_Bijection
    <3> QED
      BY <3>1, <3>5 DEF n
  <2>7. ASSUME lost = {}
        PROVE  Cardinality(Given) = Len(called) + Cardinality(InLoops) + Len(queue)
    <3>1. PICK queued : queued = ToSet(queue)
      OBVIOUS
    <3>2. PICK both : both = Called \cup InLoops
      OBVIOUS
    <3>3. Given = both \cup queued /\ both \cap queued = {} /\ Called \cap InLoops = {}
      BY <2>1, <2>7, <3>1, <3>2 DEF Given, PlacesApart
    <3>4. /\ IsFiniteSet(both)
          /\ Cardinality(both) = Cardinality(Called) + Cardinality(InLoops)
      <4>1. /\ IsFiniteSet(Called \cup InLoops)
            /\ Cardinality(Called \cup InLoops)
                 = Cardinality(Called) + Cardinality(InLoops) - Cardinality(Called \cap InLoops)
        BY <2>4, FS_Union
      <4>2. Cardinality(Called \cap InLoops) = 0
        BY <3>3, FS_EmptySet
      <4>3. Cardinality(Called) \in Nat /\ Cardinality(InLoops) \in Nat
        BY <2>4, FS_CardinalityType
      <4> QED
        BY <3>2, <4>1, <4>2, <4>3
    <3>5. Cardinality(Given) = Cardinality(both) + Cardinality(queued)
      <4>1. Cardinality(both \cup queued)
              = Cardinality(both) + Cardinality(queued) - Cardinality(both \cap queued)
        BY <2>4, <3>1, <3>4, FS_Union
      <4>2. Cardinality(both \cap queued) = 0
        BY <3>3, FS_EmptySet
      <4>3. Cardinality(both) \in Nat /\ Cardinality(queued) \in Nat
        BY <2>4, <3>1, <3>4, FS_CardinalityType
      <4> QED
        BY <3>3, <4>1, <4>2, <4>3
    <3> QED
      BY <2>5, <2>6, <3>1, <3>4, <3>5
  <2>8. Called \cap (lost \cup InLoops \cup ToSet(queue)) = {}
    BY <2>1 DEF PlacesApart
  <2> QED
    BY <2>1, <2>7, <2>8 DEF CalledOnce, ListedOnce
<1> QED
  BY <1>1, CallsBegin, CallsStep, PTL DEF CallbackSpec
=============================================================================
