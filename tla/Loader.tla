------------------------------- MODULE Loader -------------------------------
(***************************************************************************)
(* The module loader jsio (src/lib/static/jsio/jsio.js): what a request    *)
(* jsio('import ...') does, from the search for the file to the bindings   *)
(* of the importer.  A module is a file, named by the root directory it is *)
(* under and its dotted name; what its code imports, and whether it throws *)
(* or replaces its exports, is left open.  base.js, which every module     *)
(* imports first, imports nothing itself: it is left out, and so are the   *)
(* preprocessors.                                                          *)
(***************************************************************************)
EXTENDS Naturals, Sequences, SequencesExt, FiniteSets, Sublist

CONSTANTS Roots,        \* directories that can be in jsio.path
          Packages,     \* first segments of a dotted name
          Leaves,       \* the rest of a dotted name
          App,          \* the page's own code, which is no module
          NoRoot,       \* a package that is not in jsio.path.cache
          MaxRequests,  \* bound: requests of the application
          MaxImports,   \* bound: import statements in one module
          MaxChanges,   \* bound: changes of the files and of the paths
          MaxRoots      \* bound: length of jsio.path

ASSUME LoaderAssumption ==
  /\ App \notin Roots \X Packages \X Leaves
  /\ NoRoot \notin Roots
  /\ {MaxRequests, MaxImports, MaxChanges, MaxRoots} \subseteq Nat

VARIABLES files,        \* the paths ENV.fetch would find
          sourceCache,  \* the paths jsio.__srcCache has
          failedFetch,  \* the paths a fetch failed for
          modules,      \* jsio.__modules: path -> "unknown", "first" or "final"
          cache,        \* jsio.path.cache: package -> root
          roots,        \* jsio.path.value
          stack,        \* the modules whose code is running, innermost first
          raised,       \* an exception is on its way to the innermost of them
          ran,          \* the paths in the order their code was started
          done, threw,  \* the paths whose code returned, and threw
          held,         \* <<importer, path, exports>>: the bindings made
          fetched,      \* the paths that an absolute name was searched for and got
          requests, changes

loaderVars == <<files, sourceCache, failedFetch, modules, cache, roots, stack, raised,
          ran, done, threw, held, fetched, requests, changes>>
searchVars == <<files, sourceCache, roots, changes>>

Path == Roots \X Packages \X Leaves
Root(path) == path[1]
Package(path) == path[2]

(* The code that issues the next request, and where it is: the innermost   *)
(* running module, or the page.                                            *)
Importer == IF stack = <<>> THEN App ELSE Head(stack).path
Started == {ran[i] : i \in 1..Len(ran)}
Running == {stack[i].path : i \in 1..Len(stack)}
StartedBefore(p, q) ==
  \E i, j \in 1..Len(ran) : i < j /\ ran[i] = p /\ ran[j] = q

LoaderInit ==
  /\ files \in SUBSET Path /\ roots \in {<<r>> : r \in Roots}
  /\ sourceCache = {} /\ failedFetch = {}
  /\ modules = [p \in Path |-> "unknown"]
  /\ cache = [b \in Packages |-> NoRoot]
  /\ stack = <<>> /\ raised = FALSE
  /\ ran = <<>> /\ done = {} /\ threw = {} /\ held = {} /\ fetched = {}
  /\ requests = 0 /\ changes = 0

---------------------------------------------------------------------------
(* The search.  A request is [name, relative, reload, suppress]: `name` a  *)
(* package and a leaf, `relative` when it starts with a dot.               *)

Request == [name : Packages \X Leaves, relative : BOOLEAN,
            reload : BOOLEAN, suppress : BOOLEAN]

PathUnder(root, name) == <<root, name[1], name[2]>>

Absolute(request) == ~request.relative /\ cache[request.name[1]] = NoRoot

(* resolveModulePath: a relative name has one place, beside the importer; *)
(* a package that has been found once has one root from then on.           *)
Possibilities(request) ==
  IF request.relative THEN <<PathUnder(Root(Importer), request.name)>>
  ELSE IF cache[request.name[1]] # NoRoot
       THEN <<PathUnder(cache[request.name[1]], request.name)>>
       ELSE [i \in 1..Len(roots) |-> PathUnder(roots[i], request.name)]

(* The first of the paths whose module is registered, 0 if there is none. *)
FirstRegistered(paths) == SelectInSeq(paths, LAMBDA p : modules[p] # "unknown")

(* A path whose fetch failed once is not tried again. *)
Untried(path) == path \notin failedFetch

(* findModule: the first of the paths that has a source. *)
FirstFound(paths) ==
  SelectInSeq(paths, LAMBDA p : Untried(p) /\ p \in sourceCache \cup files)

Frame(path) == [path |-> path, own |-> "first", left |-> MaxImports]

(* The statement that is being executed is one of the importer's. *)
Spend ==
  IF stack = <<>> THEN stack
  ELSE [stack EXCEPT ![1].left = @ - 1]

(* makeContext and the call of the module's function: the exports are      *)
(* registered before the code runs.                                        *)
RegisterLate(path) ==  \* mutated form
  /\ stack' = <<Frame(path)>> \o Spend
  /\ ran' = Append(ran, path)
  /\ UNCHANGED <<modules, held, done>>

Execute(path) ==
  /\ modules' = [modules EXCEPT ![path] = "first"]
  /\ stack' = <<Frame(path)>> \o Spend
  /\ ran' = Append(ran, path)
  /\ UNCHANGED <<held, done>>

Bind(path) ==
  /\ held' = held \cup {<<Importer, path, modules[path]>>}
  /\ stack' = Spend
  /\ UNCHANGED <<modules, ran, done>>

(* Nothing is found: false for a request that suppresses errors, and an    *)
(* exception in the importer otherwise (the page's own is gone at once).   *)
Miss(request) ==
  /\ raised' = (~request.suppress /\ stack # <<>>)
  /\ stack' = Spend
  /\ UNCHANGED <<modules, ran, done, held, cache, fetched>>

RootNotKept(request, path) == UNCHANGED cache  \* mutated form

RootKept(request, path) ==
  cache' = IF Absolute(request)
           THEN [cache EXCEPT ![Package(path)] = Root(path)] ELSE cache

Search(request, paths) ==
  LET n == FirstFound(paths)
      missed == IF n = 0 THEN ToSet(paths) ELSE {paths[i] : i \in 1..(n - 1)}
  IN  /\ failedFetch' = failedFetch \cup missed
      /\ IF n = 0 THEN Miss(request)
         ELSE /\ RootKept(request, paths[n])
              /\ fetched' = IF request.relative THEN fetched
                            ELSE fetched \cup {paths[n]}
              /\ IF modules[paths[n]] = "unknown" THEN Execute(paths[n])
                 ELSE Bind(paths[n])
              /\ UNCHANGED raised

(* importer: a module that is registered is bound as it is; `reload` only  *)
(* fetches it again.                                                       *)
Import(request) ==
  LET paths == Possibilities(request)
      known == FirstRegistered(paths)
  IN  /\ IF ~request.reload /\ known # 0
         THEN /\ Bind(paths[known])
              /\ UNCHANGED <<failedFetch, cache, fetched, raised>>
         ELSE Search(request, paths)
      /\ UNCHANGED <<threw, searchVars>>

(* A request of the page, whose own directory is no root. *)
AppImports(request) ==
  /\ stack = <<>> /\ requests < MaxRequests
  /\ ~request.relative
  /\ requests' = requests + 1
  /\ Import(request)

(* An import statement of the innermost module; its imports with reload    *)
(* are left to the page.                                                   *)
ModuleImports(request) ==
  /\ stack # <<>> /\ ~raised /\ Head(stack).left > 0
  /\ ~request.reload
  /\ Import(request)
  /\ UNCHANGED requests

---------------------------------------------------------------------------
(* The running code *)

(* `exports = ...` in the module's code. *)
ReplacesExports ==
  /\ stack # <<>> /\ ~raised /\ Head(stack).own = "first"
  /\ stack' = [stack EXCEPT ![1].own = "final"]
  /\ UNCHANGED <<failedFetch, modules, cache, raised, ran, done, threw, held,
                 fetched, requests, searchVars>>

(* execModuleDef throws on: what the module had exported stays registered, *)
(* and the exception is the importer's.                                    *)
Unwinds ==
  /\ threw' = threw \cup {Head(stack).path}
  /\ stack' = Tail(stack)
  /\ raised' = (Len(stack) > 1)
  /\ UNCHANGED <<failedFetch, modules, cache, ran, done, held, fetched, requests,
                 searchVars>>

(* An exception of the module's own code, or of an import statement in it. *)
Throws == stack # <<>> /\ Unwinds

(* The module's code has a handler around the import statement. *)
Catches ==
  /\ raised /\ raised' = FALSE
  /\ UNCHANGED <<failedFetch, modules, cache, stack, ran, done, threw, held,
                 fetched, requests, searchVars>>

Below == IF Len(stack) > 1 THEN stack[2].path ELSE App

BoundBefore ==  \* mutated form
  LET top == Head(stack) IN
  /\ modules' = [modules EXCEPT ![top.path] = top.own]
  /\ held' = held \cup {<<Below, top.path, "first">>}

(* The code returned: its exports are registered again, and bound. *)
Exported ==
  LET top == Head(stack) IN
  /\ modules' = [modules EXCEPT ![top.path] = top.own]
  /\ held' = held \cup {<<Below, top.path, top.own>>}

ModuleReturns ==
  /\ stack # <<>> /\ ~raised
  /\ Exported
  /\ done' = done \cup {Head(stack).path}
  /\ stack' = Tail(stack)
  /\ UNCHANGED <<failedFetch, cache, raised, ran, threw, fetched, requests,
                 searchVars>>

---------------------------------------------------------------------------
(* What changes around the loader, between two requests of the page *)

Changing ==
  /\ stack = <<>> /\ changes < MaxChanges /\ changes' = changes + 1
  /\ UNCHANGED <<failedFetch, modules, cache, stack, raised, ran, done, threw,
                 held, fetched, requests>>

(* A file is put where there was none. *)
FileAppears(path) ==
  /\ path \notin files /\ files' = files \cup {path}
  /\ UNCHANGED <<sourceCache, roots>> /\ Changing

(* jsio.setCachedSrc *)
SetCachedSrc(path) ==
  /\ path \notin sourceCache /\ sourceCache' = sourceCache \cup {path}
  /\ UNCHANGED <<files, roots>> /\ Changing

(* jsio.path.add *)
AddPath(root) ==
  /\ Len(roots) < MaxRoots /\ roots' = Append(roots, root)
  /\ UNCHANGED <<files, sourceCache>> /\ Changing

(* jsio.path.remove: the loop goes on with the next index after a splice,  *)
(* so it skips the entry behind one it removed.                            *)
Spliced(root) ==
  CHOOSE gone \in SUBSET (1..Len(roots)) :
    \A i \in 1..Len(roots) : i \in gone <=> roots[i] = root /\ (i - 1) \notin gone

RemovePath(root) ==
  /\ \E i \in 1..Len(roots) : roots[i] = root
  /\ roots' = Sublist(roots, (1..Len(roots)) \ Spliced(root))
  /\ UNCHANGED <<files, sourceCache>> /\ Changing

LoaderNext ==
  \/ \E request \in Request : AppImports(request) \/ ModuleImports(request)
  \/ ReplacesExports \/ Throws \/ Catches \/ ModuleReturns
  \/ \E path \in Path : FileAppears(path) \/ SetCachedSrc(path)
  \/ \E root \in Roots : AddPath(root) \/ RemovePath(root)

LoaderSpec == LoaderInit /\ [][LoaderNext]_loaderVars

---------------------------------------------------------------------------
(* Properties *)

(* The code of a file runs at most once, also when modules import each     *)
(* other in a circle, when an import with `reload` asks for it again, and  *)
(* when it threw the first time.                                           *)
RunsOnce == \A i, j \in 1..Len(ran) : ran[i] = ran[j] => i = j

(* When the code of a module has returned, and when the page has its       *)
(* result, everything imported has run to its end, by a return or by an    *)
(* exception -- except what was itself running around the importer.  Only  *)
(* such an importer, inside a circle, can be bound to exports the imported *)
(* code replaced before it ended.                                          *)
FinalExports ==
  \A h \in held :
    /\ h[1] \in done \cup {App} =>
         \/ h[2] \in done \cup threw
         \/ h[2] \in Running /\ StartedBefore(h[2], h[1])
    /\ h[2] \in done /\ (h[1] = App \/ StartedBefore(h[1], h[2]))
         => h[3] = modules[h[2]]

(* All files of a package that its absolute name was searched for come     *)
(* from one root, whatever is done to jsio.path in between; that root is   *)
(* the one that is remembered.                                             *)
PackageFromOneRoot == \A p \in fetched : Root(p) = cache[Package(p)]

=============================================================================
