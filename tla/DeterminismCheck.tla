-------------------------- MODULE DeterminismCheck --------------------------
(***************************************************************************)
(* compiler.verify_determinism_command: the fixture is read, the catalog   *)
(* twice and its lock once; the profile is compiled twice, the second time *)
(* from the resources in reverse order, written into two new directories   *)
(* file by file, read back and compared with the digests of the fixture.   *)
(* The fixture is [readable, admitted, expected]: its request may be one   *)
(* compile_profile refuses (module Compiler), expected are the digests.    *)
(***************************************************************************)
EXTENDS CatalogLock

VARIABLES
    fixture,        \* the fixture directory
    fixtureRead,    \* the fixture as the command read it
    compiled,       \* the first and the second compilation
    directories     \* how many of the outputs are in compiler-a and compiler-b

determinismVars == <<fixture, fixtureRead, compiled, directories>>

-----------------------------------------------------------------------------
OutputNames == <<"profile.json", "bom.json", "install-plan.json", "evidence-plan.json",
                 "explanation.md", "profile.sha256">>

\* What the compiler looks at, whatever the order of the resources.
Visible(documents) ==
    [kind \in {"harnesses", "modules"} |-> EdgesIn(documents, kind)]

\* A compilation, and its outputs, four of which name the digest of the catalog.
Compiled(documents, digest) == [shows |-> Visible(documents), digest |-> digest]
OutputFile(i, compilation) ==
    IF OutputNames[i] \in {"install-plan.json", "evidence-plan.json"}
    THEN <<compilation.shows>> ELSE <<compilation.shows, compilation.digest>>
SameOutputs(one, other) ==
    \A i \in DOMAIN OutputNames : OutputFile(i, one) = OutputFile(i, other)

Golden(documents) ==
    [readable |-> TRUE, admitted |-> TRUE, expected |-> Compiled(documents, documents)]

\* A fixture can be recorded when the catalog compiles.
Compiles(documents) ==
    (\A i \in DOMAIN documents : documents[i].readable) /\ Installable(documents)

DeterminismInit ==
    /\ LockInit
    /\ fixture = IF Compiles(catalog) THEN Golden(catalog)
                 ELSE [Golden(<<>>) EXCEPT !.readable = FALSE]
    /\ fixtureRead = fixture
    /\ compiled = <<>> /\ directories = <<0, 0>>

ReadFixture ==
    /\ AtStep("fixture")
    /\ fixtureRead' = fixture
    /\ compiled' = <<>> /\ directories' = <<0, 0>>
    /\ IF fixture.readable THEN Proceed ELSE Stop(1)
    /\ UNCHANGED <<tree, reading, issues, fixture, vars>>

Compile ==
    /\ AtStep("compile")
    /\ IF fixtureRead.admitted
       THEN compiled' = Append(compiled, Compiled(resources, lockRead)) /\ Proceed
       ELSE Stop(1) /\ UNCHANGED compiled
    /\ UNCHANGED <<tree, reading, issues, fixture, fixtureRead, directories, vars>>

\* write_compilation_outputs: the first directory is filled, then the second.
Directory == IF directories[1] < Len(OutputNames) THEN 1 ELSE 2

WriteFile ==
    /\ AtStep("write")
    /\ directories' = [directories EXCEPT ![Directory] = @ + 1]
    /\ IF directories'[Directory] = Len(OutputNames) THEN Proceed
       ELSE UNCHANGED <<command, place, result>>
    /\ UNCHANGED <<tree, reading, issues, fixture, fixtureRead, compiled, vars>>

\* An OSError, with what was written before still in the directories.
FailToWrite ==
    /\ AtStep("write") \/ AtStep("read-back")
    /\ Stop(2)
    /\ UNCHANGED <<tree, reading, issues, determinismVars, vars>>

ReadBack ==
    /\ AtStep("read-back")
    /\ IF SameOutputs(compiled[1], compiled[2])
       THEN Proceed ELSE Stop(1)
    /\ UNCHANGED <<tree, reading, issues, determinismVars, vars>>

\* Mutant: only what is installed is compared.
CompareGoldenPlans ==
    /\ AtStep("golden")
    /\ IF OutputFile(3, compiled[1]) = OutputFile(3, fixtureRead.expected) THEN Proceed ELSE Stop(1)
    /\ UNCHANGED <<tree, reading, issues, determinismVars, vars>>

CompareGolden ==
    /\ AtStep("golden")
    /\ IF SameOutputs(compiled[1], fixtureRead.expected) THEN Proceed ELSE Stop(1)
    /\ UNCHANGED <<tree, reading, issues, determinismVars, vars>>

DeterminismStep ==
    \/ LockStep /\ UNCHANGED determinismVars
    \/ ReadFixture \/ Compile \/ WriteFile \/ FailToWrite \/ ReadBack \/ CompareGolden

\* A developer records the fixture again, or spoils it.
EditFixture ==
    /\ \/ Compiles(catalog) /\ fixture' = Golden(catalog)
       \/ fixture' \in {[fixture EXCEPT !.readable = FALSE], [fixture EXCEPT !.admitted = FALSE]}
    /\ fixture' # fixture
    /\ UNCHANGED <<lockVars, fixtureRead, compiled, directories, vars>>

DeterminismNext ==
    \/ (\E c \in CatalogCommands : BeginCommand(c)) /\ UNCHANGED determinismVars
    \/ DeterminismStep
    \/ (EditCatalogFile \/ UpdateLock) /\ UNCHANGED determinismVars
    \/ EditFixture
DeterminismSpec == DeterminismInit /\ [][DeterminismNext]_<<lockVars, determinismVars, vars>>
-----------------------------------------------------------------------------
(* What the command accepts was compiled from the locked catalog, even     *)
(* when the catalog, the lock and the fixture are edited between its two   *)
(* readings of the catalog: the documents of the first reading show the    *)
(* compiler what the locked ones do, these can be installed, and both      *)
(* directories held all six outputs.                                       *)
CompiledIsLocked ==
    command = "verify-determinism" /\ place = 0 /\ result = 0 =>
        /\ Visible(resources) = Visible(lockRead)
        /\ \A kind \in {"harnesses", "modules"} : Residue(Node, Graph(lockRead, kind)) = {}
        /\ \A d \in {1, 2} :
            directories[d] = Len(OutputNames) /\ compiled[d] = Compiled(lockRead, lockRead)
=============================================================================
