------------------------- MODULE ContractGeneration -------------------------
(***************************************************************************)
(* scripts/generate_contracts.py, in its writing and its --check mode, as  *)
(* processes that read sources and generated files piece by piece while    *)
(* developers edit sources and files, and that may be killed.              *)
(* A source is its revision, and Broken when the script refuses it; what   *)
(* a target holds is the record of everything that entered it, so that     *)
(* equal contents are equal files and a digest is what it was taken of.    *)
(***************************************************************************)
EXTENDS Sequences, Naturals

CONSTANTS
    Checker, Writer,    \* processes with and without --check
    Revision,           \* revisions of a source other than Broken
    InitialTrees        \* [files, strays, author] found at the beginning

Broken == 0
ASSUME RevisionAssumption == Revision \subseteq Nat \ {Broken} /\ 1 \in Revision
\* A process has --check or it has not.
ASSUME ModesAssumption == Checker \cap Writer = {}

VARIABLES
    sources,    \* the sources in the working tree
    files,      \* target -> [kind, content]
    strays,     \* undeclared entries of the two output directories
    generator,  \* process -> place in main
    basis,      \* process -> the revisions it has looked at
    position,   \* process -> the target it compares or writes next
    disturbed,  \* process -> the tree changed since it started
    author      \* basis of the process that wrote the manifest last

generationVars ==
    <<sources, files, strays, generator, basis, position, disturbed, author>>

-----------------------------------------------------------------------------
\* machine: state_machine.py; mapping: compatibility_data_harness_v1.py; inputs:
\* the locked model inputs, vectors and documents; contracts: the JSON contracts;
\* documents: the other files of release_sources.
Source == {"machine", "mapping", "inputs", "contracts", "documents"}
Generator == Checker \cup Writer

\* The keys of outputs, in the order they were put in.
Targets == <<"lifecycle", "status", "mappings", "deprecation", "index", "manifest">>
Target == {Targets[i] : i \in DOMAIN Targets}

\* A module is imported when the process starts and hashed for the manifest
\* later: imported and read are these two looks at the sources.
MachineOutput(b) == [machine |-> b.imported["machine"]]
MappingOutput(b) == [mapping |-> b.imported["mapping"]]
IndexOutput(b) ==
    [contracts |-> b.read["contracts"], lifecycle |-> MachineOutput(b), status |-> MachineOutput(b)]

\* Mutant: the compatibility documents are missing from the manifest.
ManifestUnlisted(b) ==
    [releaseSources |-> b.read, index |-> IndexOutput(b),
     lifecycle |-> MachineOutput(b), status |-> MachineOutput(b)]

ManifestOutput(b) ==
    [releaseSources |-> b.read, index |-> IndexOutput(b),
     lifecycle |-> MachineOutput(b), status |-> MachineOutput(b),
     mappings |-> MappingOutput(b), deprecation |-> MappingOutput(b)]

Output(target, b) ==
    CASE target \in {"lifecycle", "status"} -> MachineOutput(b)
      [] target \in {"mappings", "deprecation"} -> MappingOutput(b)
      [] target = "index" -> IndexOutput(b)
      [] target = "manifest" -> ManifestOutput(b)

Truncated == [truncated |-> TRUE]
Regular(content) == [kind |-> "regular", content |-> content]
Linked(content) == [kind |-> "linked", content |-> content]
Absent == [kind |-> "absent", content |-> Truncated]

Basis(imported, read) == [imported |-> imported, read |-> read]
Fresh(tree) == Basis(tree, tree)

\* What is found at the beginning is a manifest of one run, or none.
ASSUME InitialTreesAssumption ==
    \A tree \in InitialTrees :
        /\ tree.files = [t \in Target |-> tree.files[t]]
        /\ tree.files["manifest"].content \in {Truncated, ManifestOutput(tree.author)}

FirstTree == [s \in Source |-> 1]
Unseen == [s \in Source |-> Broken]

GenerationInit ==
    /\ sources = FirstTree
    /\ \E tree \in InitialTrees :
        files = tree.files /\ strays = tree.strays /\ author = tree.author
    /\ generator = [g \in Generator |-> "idle"]
    /\ basis = [g \in Generator |-> Fresh(Unseen)]
    /\ position = [g \in Generator |-> 1]
    /\ disturbed = [g \in Generator |-> FALSE]

At(g, place) == generator[g] = place
Go(g, place) == generator' = [generator EXCEPT ![g] = place]
Expected(g) == Output(Targets[position[g]], basis[g])
Actual(g) == files[Targets[position[g]]]

\* The tree changes under every process that has started, but for the causes.
Disturb(causes) ==
    disturbed' = [g \in Generator |-> disturbed[g] \/ (g \notin causes /\ ~At(g, "idle"))]

-----------------------------------------------------------------------------
\* A process starts and imports the code; broken code ends it.
StartGeneration(g) ==
    /\ generator[g] \in {"idle", "accepted", "refused"}
    /\ basis' = [basis EXCEPT ![g] = Basis(sources, Unseen)]
    /\ position' = [position EXCEPT ![g] = 1]
    /\ disturbed' = [disturbed EXCEPT ![g] = FALSE]
    /\ Go(g, IF Broken \in {sources["machine"], sources["mapping"]} THEN "refused" ELSE "inputs")
    /\ UNCHANGED <<sources, files, strays, author>>

\* _model_release_sources checks the inputs; what it has read is not kept.
ReadInputs(g) ==
    /\ At(g, "inputs")
    /\ Go(g, IF sources["inputs"] = Broken THEN "refused" ELSE "contracts")
    /\ UNCHANGED <<sources, files, strays, basis, position, disturbed, author>>

\* The JSON contracts, for the index.
ReadContracts(g) ==
    /\ At(g, "contracts")
    /\ basis' = [basis EXCEPT ![g] =
        Basis(@.imported, [Unseen EXCEPT !["contracts"] = sources["contracts"]])]
    /\ Go(g, IF sources["contracts"] = Broken THEN "refused" ELSE "release")
    /\ UNCHANGED <<sources, files, strays, position, disturbed, author>>

\* The loop over release_sources.  It refuses what is missing or linked; other
\* faults of code and inputs are hashed like anything else.
ReadReleaseSources(g) ==
    /\ At(g, "release")
    /\ basis' = [basis EXCEPT ![g] =
        Basis(@.imported, [sources EXCEPT !["contracts"] = basis[g].read["contracts"]])]
    /\ \/ sources["documents"] # Broken /\ Go(g, IF g \in Checker THEN "check" ELSE "write")
       \/ Broken \in {sources[s] : s \in Source \ {"contracts"}} /\ Go(g, "refused")
    /\ UNCHANGED <<sources, files, strays, position, disturbed, author>>

\* Mutant: what a link leads to is compared.
CheckTargetThroughLinks(g) ==
    /\ At(g, "check") /\ position[g] <= Len(Targets)
    /\ IF Actual(g).content = Expected(g)
       THEN position' = [position EXCEPT ![g] = @ + 1] /\ UNCHANGED generator
       ELSE Go(g, "refused") /\ UNCHANGED position
    /\ UNCHANGED <<sources, files, strays, basis, disturbed, author>>

\* _check, one target after the other, and then the two directories as they are
\* by now.  In generated/ directories are passed over and links taken for the
\* file they lead to, beside the compatibility documents neither is; the
\* manifest lies elsewhere.
CheckTarget(g) ==
    /\ At(g, "check") /\ position[g] <= Len(Targets)
    /\ IF Actual(g) = Regular(Expected(g))
       THEN position' = [position EXCEPT ![g] = @ + 1] /\ UNCHANGED generator
       ELSE Go(g, "refused") /\ UNCHANGED position
    /\ UNCHANGED <<sources, files, strays, basis, disturbed, author>>

DirectoriesComplete ==
    /\ strays \subseteq {"generated directory"}
    /\ \A t \in {"lifecycle", "status", "index"} : files[t].kind # "absent"
    /\ \A t \in {"mappings", "deprecation"} : files[t].kind = "regular"

CheckDirectories(g) ==
    /\ At(g, "check") /\ position[g] > Len(Targets)
    /\ Go(g, IF DirectoriesComplete THEN "accepted" ELSE "refused")
    /\ UNCHANGED <<sources, files, strays, basis, position, disturbed, author>>

\* Mutant: a file that is there is not written again.
WriteTargetOnce(g) ==
    /\ At(g, "write") /\ position[g] <= Len(Targets)
    /\ files' = [files EXCEPT ![Targets[position[g]]] =
        IF @.kind = "absent" THEN Regular(Expected(g)) ELSE @]
    /\ author' = IF Targets[position[g]] = "manifest" THEN basis[g] ELSE author
    /\ Disturb({g})
    /\ position' = [position EXCEPT ![g] = @ + 1]
    /\ UNCHANGED <<sources, strays, generator, basis>>

\* _write: an equal regular file is left alone; a link is written through.
WriteTarget(g) ==
    /\ At(g, "write") /\ position[g] <= Len(Targets)
    /\ files' = [files EXCEPT ![Targets[position[g]]] =
        IF @.kind = "linked" THEN Linked(Expected(g)) ELSE Regular(Expected(g))]
    /\ author' = IF Targets[position[g]] = "manifest" THEN basis[g] ELSE author
    /\ IF files' = files THEN UNCHANGED disturbed ELSE Disturb({g})
    /\ position' = [position EXCEPT ![g] = @ + 1]
    /\ UNCHANGED <<sources, strays, generator, basis>>

FinishWriting(g) ==
    /\ At(g, "write") /\ position[g] > Len(Targets)
    /\ Go(g, "accepted")
    /\ UNCHANGED <<sources, files, strays, basis, position, disturbed, author>>

GenerationStep(g) ==
    \/ ReadInputs(g) \/ ReadContracts(g) \/ ReadReleaseSources(g)
    \/ CheckTarget(g) \/ CheckDirectories(g)
    \/ WriteTarget(g) \/ FinishWriting(g)

\* A writer is killed, between two files or half-way through one.
KillWriter(g) ==
    /\ generator[g] \in {"inputs", "contracts", "release", "write"}
    /\ Go(g, "idle")
    /\ \/ UNCHANGED <<files, disturbed>>
       \/ /\ At(g, "write") /\ position[g] <= Len(Targets)
          /\ Actual(g) # Regular(Expected(g))
          /\ files' = [files EXCEPT ![Targets[position[g]]] =
                IF @.kind = "linked" THEN Linked(Truncated) ELSE Regular(Truncated)]
          /\ Disturb({g})
    /\ UNCHANGED <<sources, strays, basis, position, author>>

\* Developers edit a source, put something beside the outputs, or replace or
\* remove an output by hand.
EditSource(s) ==
    /\ \E r \in Revision \cup {Broken} : r # sources[s] /\ sources' = [sources EXCEPT ![s] = r]
    /\ Disturb({})
    /\ UNCHANGED <<files, strays, generator, basis, position, author>>

StrayKinds ==
    {"generated file", "generated directory", "compatibility file", "compatibility directory"}
AddStray(kind) ==
    /\ kind \notin strays
    /\ strays' = strays \cup {kind}
    /\ Disturb({})
    /\ UNCHANGED <<sources, files, generator, basis, position, author>>

ReplaceOutput(target) ==
    /\ files' \in {[files EXCEPT ![target] = f] : f \in {Absent, Linked(files[target].content)}}
    /\ files' # files
    /\ Disturb({})
    /\ UNCHANGED <<sources, strays, generator, basis, position, author>>

GenerationNext ==
    \/ \E g \in Generator : StartGeneration(g) \/ GenerationStep(g)
    \/ \E g \in Writer : KillWriter(g)
    \/ \E s \in Source : EditSource(s)
    \/ \E kind \in StrayKinds : AddStray(kind)
    \/ \E target \in Target : ReplaceOutput(target)
GenerationSpec == GenerationInit /\ [][GenerationNext]_generationVars
-----------------------------------------------------------------------------
NoStrays == strays \subseteq {"generated directory"}
NoLinks == \A t \in Target : files[t].kind # "linked"
NothingBroken == \A s \in Source : sources[s] # Broken
UpToDate ==
    /\ \A t \in Target : files[t] = Regular(Output(t, Fresh(sources)))
    /\ NothingBroken /\ NoStrays

(* A check that accepts a tree nobody changed meanwhile vouches for all of *)
(* it: every output is what the sources give, as a file of its own, and    *)
(* nothing undeclared lies beside them.                                    *)
CheckVouches ==
    \A g \in Checker : At(g, "accepted") /\ ~disturbed[g] => UpToDate

(* Whatever was interrupted or overtaken, a reader who finds every output  *)
(* the manifest lists as listed holds the outputs of one single run, the   *)
(* one that wrote the manifest.                                            *)
ManifestFits ==
    LET manifest == files["manifest"].content
    IN  \A t \in DOMAIN manifest : t \in Target => files[t].content = manifest[t]
MixturesAreVisible ==
    files["manifest"].content # Truncated /\ ManifestFits =>
        \A t \in Target \ {"manifest"} : files[t].content = Output(t, author)

(* Once the edits stop, repeating the writing mode brings the tree up to   *)
(* date, however often it was killed, unless the developers left broken    *)
(* sources, undeclared files or a link in place of an output.              *)
Recovers == <>[](UpToDate \/ ~NothingBroken \/ ~NoStrays \/ ~NoLinks)
=============================================================================
