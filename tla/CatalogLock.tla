---------------------------- MODULE CatalogLock ----------------------------
(***************************************************************************)
(* registry.py: load_catalog, expected_catalog_lock, _read_lock and the    *)
(* command "harnessctl catalog lock --check", with validate_catalog around *)
(* the cycle search.  The command reads the catalog twice, once for the    *)
(* resources it validates and once for the lock it expects, file by file,  *)
(* while the files can be edited.  verify_determinism_command takes the    *)
(* same steps in another order (module DeterminismCheck).                  *)
(*                                                                         *)
(* A catalog file is a record: readable (it holds a catalog document),     *)
(* flawed (it has a fault that validate_catalog reports without a search), *)
(* harnesses and modules (dependency edges, self edges included) and notes *)
(* (what the compiler does not look at).  A digest is what it is taken of. *)
(***************************************************************************)
EXTENDS CycleSearch

CONSTANTS
    Trees,          \* [catalog, lock] at the beginning
    CatalogFiles    \* what an edited catalog file may hold

Document ==
    [readable : BOOLEAN, flawed : BOOLEAN, notes : STRING,
     harnesses : SUBSET (Node \X Node), modules : SUBSET (Node \X Node)]
ASSUME CatalogFilesAssumption == CatalogFiles \subseteq Document
ASSUME TreesAssumption ==
    \A t \in Trees :
        /\ t.catalog \in Seq(Document)
        /\ t.lock \in [readable : BOOLEAN, entries : Seq(Document)]

VARIABLES
    catalog,    \* the files of the catalog in the order of their paths
    lock,       \* contracts/catalog.lock.json: [readable, entries]
    command,    \* the command of harnessctl that reads them
    place,      \* the number of its next step, 0 when no command runs
    resources,  \* the documents of load_catalog
    relisted,   \* the documents behind expected_catalog_lock
    lockRead,   \* the entries of the lock that was read
    issues,     \* the issues of validate_catalog
    result,     \* the exit status of the last command
    touched     \* catalog or lock were edited since the command began

tree == <<catalog, lock, touched>>
reading == <<resources, relisted, lockRead>>
lockVars == <<tree, command, place, reading, issues, result>>

-----------------------------------------------------------------------------
CatalogCommands == {"catalog-lock-check", "verify-determinism"}
Steps(c) ==
    IF c = "catalog-lock-check"
    THEN <<"load", "harnesses", "search", "modules", "search", "validated",
           "list", "lock", "compare", "accept">>
    ELSE <<"fixture", "load", "lock", "list", "compare",
           "harnesses", "search", "modules", "search", "validated", "compile",
           "harnesses", "search", "modules", "search", "validated", "compile",
           "write", "write", "read-back", "golden", "accept">>

AtStep(s) == place # 0 /\ Steps(command)[place] = s
Proceed == place' = place + 1 /\ UNCHANGED <<command, result>>
Stop(code) == place' = 0 /\ result' = code /\ UNCHANGED command

\* What is no CompilationError has a status of its own in
\* verify_determinism_command.
ErrorStatus == IF command = "catalog-lock-check" THEN 1 ELSE 2

LockInit ==
    /\ [catalog |-> catalog, lock |-> lock] \in Trees
    /\ command = "none" /\ place = 0
    /\ resources = <<>> /\ relisted = <<>> /\ lockRead = <<>>
    /\ issues = {} /\ result = 0 /\ touched = FALSE
    /\ edges = [n \in Node |-> {}]
    /\ candidates = {} /\ visiting = {} /\ visited = {}
    /\ stack = <<>> /\ pending = <<>> /\ answer = <<>> /\ phase = "returned"

BeginCommand(c) ==
    /\ place = 0
    /\ command' = c /\ place' = 1
    /\ resources' = <<>> /\ relisted' = <<>> /\ lockRead' = <<>>
    /\ issues' = {} /\ touched' = FALSE
    /\ UNCHANGED <<catalog, lock, result, vars>>

\* load_catalog and expected_catalog_lock, one file at a time.
Readable(documents) ==
    Len(documents) < Len(catalog) /\ catalog[Len(documents) + 1].readable
OneMore(documents) == Append(documents, catalog[Len(documents) + 1])

LoadFile ==
    /\ AtStep("load") /\ Readable(resources)
    /\ resources' = OneMore(resources)
    /\ UNCHANGED <<tree, command, place, relisted, lockRead, issues, result, vars>>

ListFile ==
    /\ AtStep("list") /\ Readable(relisted)
    /\ relisted' = OneMore(relisted)
    /\ UNCHANGED <<tree, command, place, resources, lockRead, issues, result, vars>>

EndReading ==
    /\ \/ AtStep("load") /\ Len(resources) = Len(catalog)
       \/ AtStep("list") /\ Len(relisted) = Len(catalog)
    /\ Proceed
    /\ UNCHANGED <<tree, reading, issues, vars>>

RefuseDocument ==
    /\ \/ AtStep("load") /\ Len(resources) < Len(catalog) /\ ~Readable(resources)
       \/ AtStep("list") /\ Len(relisted) < Len(catalog) /\ ~Readable(relisted)
    /\ Stop(ErrorStatus)
    /\ UNCHANGED <<tree, reading, issues, vars>>

\* validate_catalog joins the edges of all documents; an edge of a node to
\* itself is an issue and stays out of the search.
EdgesIn(documents, kind) == UNION {documents[i][kind] : i \in DOMAIN documents}
SelfDependent(documents, kind) == \E n \in Node : <<n, n>> \in EdgesIn(documents, kind)
Flawed(documents) == \E i \in DOMAIN documents : documents[i].flawed
Graph(documents, kind) ==
    [n \in Node |-> {m \in Node \ {n} : <<n, m>> \in EdgesIn(documents, kind)}]

\* Mutant: the faults of single resources are collected, then forgotten.
BeginSearchAfresh(kind) ==
    /\ AtStep(kind)
    /\ issues' = {c \in {"SELF_DEPENDENCY"} : SelfDependent(resources, kind)}
    /\ edges' = Graph(resources, kind)
    /\ candidates' = {n \in Node : edges'[n] # {}}
    /\ visiting' = {} /\ visited' = {} /\ stack' = <<>> /\ pending' = <<>>
    /\ answer' = <<>> /\ phase' = "searching"
    /\ Proceed
    /\ UNCHANGED <<tree, reading>>

BeginSearch(kind) ==
    /\ AtStep(kind)
    /\ issues' = issues
        \union {c \in {"SELF_DEPENDENCY"} : SelfDependent(resources, kind)}
        \union {c \in {"OTHER"} : Flawed(resources)}
    /\ edges' = Graph(resources, kind)
    /\ candidates' = {n \in Node : edges'[n] # {}}
    /\ visiting' = {} /\ visited' = {} /\ stack' = <<>> /\ pending' = <<>>
    /\ answer' = <<>> /\ phase' = "searching"
    /\ Proceed
    /\ UNCHANGED <<tree, reading>>

SearchStep ==
    /\ AtStep("search") /\ Next
    /\ UNCHANGED <<tree, command, place, reading, issues, result>>

EndSearch ==
    /\ AtStep("search") /\ phase = "returned"
    /\ issues' = issues \union {c \in {"DEPENDENCY_CYCLE"} : answer # <<>>}
    /\ Proceed
    /\ UNCHANGED <<tree, reading, vars>>

EndValidation ==
    /\ AtStep("validated")
    /\ IF issues = {} THEN Proceed ELSE Stop(1)
    /\ UNCHANGED <<tree, reading, issues, vars>>

ReadLock ==
    /\ AtStep("lock") /\ lock.readable
    /\ lockRead' = lock.entries
    /\ Proceed
    /\ UNCHANGED <<tree, resources, relisted, issues, vars>>

RefuseLock ==
    /\ AtStep("lock") /\ ~lock.readable
    /\ Stop(1)
    /\ UNCHANGED <<tree, reading, issues, vars>>

Compare ==
    /\ AtStep("compare")
    /\ IF lockRead = relisted THEN Proceed ELSE Stop(1)
    /\ UNCHANGED <<tree, reading, issues, vars>>

Accept ==
    /\ AtStep("accept")
    /\ Stop(0)
    /\ UNCHANGED <<tree, reading, issues, vars>>

LockStep ==
    \/ LoadFile \/ ListFile \/ EndReading \/ RefuseDocument
    \/ (\E kind \in {"harnesses", "modules"} : BeginSearch(kind))
    \/ SearchStep \/ EndSearch \/ EndValidation
    \/ ReadLock \/ RefuseLock \/ Compare \/ Accept

\* A developer edits a catalog file, updates the lock, or damages it.
EditCatalogFile ==
    /\ \E i \in DOMAIN catalog, f \in CatalogFiles :
        catalog[i] # f /\ catalog' = [catalog EXCEPT ![i] = f]
    /\ touched' = TRUE
    /\ UNCHANGED <<lock, command, place, reading, issues, result, vars>>

UpdateLock ==
    /\ lock' \in {[readable |-> TRUE, entries |-> catalog], [lock EXCEPT !.readable = FALSE]}
    /\ lock' # lock
    /\ touched' = TRUE
    /\ UNCHANGED <<catalog, command, place, reading, issues, result, vars>>
-----------------------------------------------------------------------------
Installable(documents) ==
    /\ ~Flawed(documents)
    /\ \A kind \in {"harnesses", "modules"} :
        ~SelfDependent(documents, kind) /\ Residue(Node, Graph(documents, kind)) = {}

(* The lock command accepts a catalog and a lock nobody edited meanwhile   *)
(* exactly when every file is a document, all dependencies can be          *)
(* installed, nothing else is at fault and the lock is the one of these    *)
(* files.  With edits in between it still accepts only documents that can  *)
(* be installed as load_catalog read them, and a lock of the documents as  *)
(* expected_catalog_lock read them.                                        *)
LockVerdictExact ==
    command = "catalog-lock-check" /\ place = 0 =>
        /\ ~touched =>
            (result = 0 <=>
                /\ \A i \in DOMAIN catalog : catalog[i].readable
                /\ Installable(catalog)
                /\ lock = [readable |-> TRUE, entries |-> catalog])
        /\ result = 0 => Installable(resources) /\ lockRead = relisted
=============================================================================
