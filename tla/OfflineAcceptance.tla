------------------------- MODULE OfflineAcceptance -------------------------
(***************************************************************************)
(* An offline acceptance run as a whole: the packet runner starts make,    *)
(* the generator's --check and the catalog commands as its children and    *)
(* goes by their exit statuses, while developers edit the working tree     *)
(* under them, call make and run the generator's writing mode.  A scenario *)
(* says what is found at the beginning and what the developers may do.     *)
(***************************************************************************)
EXTENDS PacketRunner, MakeDispatch, ContractGeneration, DeterminismCheck

CONSTANT Scenarios  \* [packets, environments, directories, generations, trees, allowance]

VARIABLES
    child,      \* the part the runner's child plays, "none" when there is none
    allowance   \* kind of interference -> how often it may still happen

allVars == <<runnerVars, dispatchVars, generationVars, lockVars, determinismVars, vars,
             child, allowance>>

-----------------------------------------------------------------------------
\* What the commands of a packet start.
UvRun == <<"uv", "run", "--offline", "--frozen", "--no-sync">>
GeneratorCheck == UvRun \o <<"python", "scripts/generate_contracts.py", "--check">>
LockCheck == UvRun \o <<"harnessctl", "catalog", "lock", "--check">>
Determinism == UvRun \o <<"harnessctl", "verify-determinism", "fixture">>

Part(c) ==
    CASE c = PrefetchCommand -> "make"
      [] c = GeneratorCheck -> "generator"
      [] c = LockCheck -> "catalog-lock-check"
      [] c = Determinism -> "verify-determinism"
      [] OTHER -> "other"

\* The environment of a child holds none of make's variables.
PrefetchCall == [target |-> "prefetch", explicit |-> <<>>, inherited |-> <<>>]
ASSUME CallsOfDevelopers == PrefetchCall \notin Calls

OfflineInit ==
    \E s \in Scenarios :
        /\ packet \in s.packets /\ environment \in s.environments /\ RunnerInit
        /\ descriptors \in s.directories /\ DispatchInit
        /\ \E g \in s.generations : files = g.files /\ strays = g.strays /\ author = g.author
        /\ GenerationInit
        /\ \E t \in s.trees : catalog = t.catalog /\ lock = t.lock
        /\ DeterminismInit
        /\ child = "none" /\ allowance = s.allowance

\* Only the part with these variables moves.
OnlyRunner == UNCHANGED <<dispatchVars, generationVars, lockVars, determinismVars, vars>>
OnlyDispatch == UNCHANGED <<runnerVars, generationVars, lockVars, determinismVars, vars>>
OnlyGeneration == UNCHANGED <<runnerVars, dispatchVars, lockVars, determinismVars, vars>>
OnlyCommand == UNCHANGED <<runnerVars, dispatchVars, generationVars>>

-----------------------------------------------------------------------------
RunnerMoves == RunnerStep /\ OnlyRunner /\ UNCHANGED <<child, allowance>>

\* The process the runner has started begins.
RunnersPart == Part(started[Len(started)])
BeginChild ==
    /\ runner = "running" /\ child = "none"
    /\ \/ RunnersPart = "make" /\ CallDispatch(PrefetchCall) /\ OnlyDispatch
       \/ /\ RunnersPart = "generator" /\ OnlyGeneration
          /\ \E g \in Checker : StartGeneration(g)
       \/ /\ RunnersPart \in CatalogCommands /\ OnlyCommand
          /\ BeginCommand(RunnersPart) /\ UNCHANGED determinismVars
    /\ child' = RunnersPart
    /\ UNCHANGED allowance

ChildMoves ==
    /\ \/ child = "make" /\ DispatchStep(ExitCodes) /\ OnlyDispatch
       \/ child = "generator" /\ (\E g \in Checker : GenerationStep(g)) /\ OnlyGeneration
       \/ child \in CatalogCommands /\ DeterminismStep /\ OnlyCommand
    /\ UNCHANGED <<child, allowance>>

\* It ends, and the runner gets its exit status; that of make is 2 for a recipe
\* that failed, however it failed.
Ended(code) ==
    \/ child = "make" /\ dispatch = "ended" /\ code = (IF dispatchExit = 0 THEN 0 ELSE 2)
    \/ child = "generator" /\ \E g \in Checker :
          \/ At(g, "accepted") /\ code = 0
          \/ At(g, "refused") /\ code = 1
    \/ child \in CatalogCommands /\ place = 0 /\ code = result
    \/ child = "none" /\ RunnersPart = "other" /\ code \in ExitCodes

EndChild ==
    /\ runner = "running"
    /\ \E code \in ExitCodes : Ended(code) /\ CommandEnds(code)
    /\ child' = "none"
    /\ OnlyRunner /\ UNCHANGED allowance

-----------------------------------------------------------------------------
\* Developers; each kind of interference, and all of them together, a
\* limited number of times.
Spend(kind) ==
    /\ allowance[kind] > 0 /\ allowance["all"] > 0
    /\ allowance' = [allowance EXCEPT ![kind] = @ - 1, !["all"] = @ - 1]

PacketChanges == Spend("packet") /\ ChangePacket /\ packet' # packet /\ OnlyRunner

CatalogChanges ==
    /\ OnlyCommand
    /\ \/ Spend("catalog") /\ EditCatalogFile /\ UNCHANGED determinismVars
       \/ Spend("lock") /\ UpdateLock /\ UNCHANGED determinismVars
       \/ Spend("fixture") /\ EditFixture

GenerationChanges ==
    /\ OnlyGeneration
    /\ \/ Spend("source") /\ \E s \in Source : EditSource(s)
       \/ Spend("stray") /\ \E kind \in StrayKinds : AddStray(kind)
       \/ Spend("output") /\ \E target \in Target : ReplaceOutput(target)
       \/ Spend("kill") /\ \E g \in Writer : KillWriter(g)

\* One make is followed at a time: the runner's own, or one a developer calls.
DeveloperCallsMake ==
    child # "make" /\ Spend("make") /\ (\E c \in Calls : CallDispatch(c)) /\ OnlyDispatch

Interference ==
    /\ PacketChanges \/ CatalogChanges \/ GenerationChanges \/ DeveloperCallsMake
    /\ UNCHANGED child

\* make called by a developer, and the generator's writing mode, which is
\* run again and again.
DeveloperMakes ==
    /\ child # "make" /\ DispatchStep(ExitCodes) /\ OnlyDispatch
    /\ UNCHANGED <<child, allowance>>

DeveloperWrites(g) ==
    /\ allowance["write"] > 0
    /\ StartGeneration(g) \/ GenerationStep(g)
    /\ OnlyGeneration /\ UNCHANGED <<child, allowance>>

OfflineNext ==
    \/ RunnerMoves \/ BeginChild \/ ChildMoves \/ EndChild
    \/ Interference \/ DeveloperMakes \/ \E g \in Writer : DeveloperWrites(g)

OfflineSpec ==
    /\ OfflineInit /\ [][OfflineNext]_allVars
    /\ \A g \in Writer : WF_allVars(DeveloperWrites(g))
-----------------------------------------------------------------------------
(* What a success of the whole run says, across its processes: the lock is *)
(* the one of an installable catalog, the generated files are up to date   *)
(* and every owner of make's prefetch had its commands run, if the packet  *)
(* asks for it and nobody interfered with that part while and since it was *)
(* checked.                                                                *)
AcceptanceVouches ==
    exit = [by |-> "child", code |-> 0] =>
        \A i \in DOMAIN Commands(text) : LET part == Part(Commands(text)[i]) IN
            /\ part = "make" /\ call = PrefetchCall =>
                Owners # {} /\ DOMAIN handled = Wanted
            /\ part = "generator" /\ (\A g \in Checker : ~disturbed[g]) => UpToDate
            /\ part = command /\ ~touched =>
                /\ lock = [readable |-> TRUE, entries |-> catalog]
                /\ Compiles(catalog)
(* Where developers keep running the writing mode, the tree recovers.      *)
TreeRecovers == allowance["write"] > 0 => Recovers
=============================================================================
