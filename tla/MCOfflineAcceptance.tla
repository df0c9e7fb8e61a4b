------------------------ MODULE MCOfflineAcceptance ------------------------
(* Scenarios of an offline acceptance run; each allows one kind of         *)
(* interference in depth, the last every kind once.                        *)
EXTENDS OfflineAcceptance

MCNode == 1..4
MCExitCodes == {0, 1, 2}
MCRevision == {1, 2}
MCBaseName(a) == CASE a = "/usr/bin/uv" -> "uv" [] a = "/bin/sh" -> "sh" [] OTHER -> a
MCCaseFold(a) == IF a = "Fetch" THEN "fetch" ELSE a

-----------------------------------------------------------------------------
(* Packets                                                                 *)
Field(c) == [inline |-> TRUE, commands |-> c]
Text(prefetch, offline) ==
    [execution |-> TRUE, prefetch |-> Field(prefetch), offline |-> Field(offline)]
File(t) == [kind |-> "regular", text |-> t]

Checks == <<<<"uv", "run", "--offline", "--frozen", "--no-sync", "pytest">>, <<"harnessctl">>>>
Opaque == Text(<<>>, Checks)
ByPath == Text(<<>>, <<<<"/usr/bin/uv", "run">>>>)
Prefetching == Text(<<PrefetchCommand>>, <<<<"harnessctl">>>>)
Refused == {
    [Opaque EXCEPT !.execution = FALSE],
    [Opaque EXCEPT !.prefetch.inline = FALSE],
    [Opaque EXCEPT !.offline.commands = <<<<>>>>],
    Text(<<<<"make", "zero-bill">>>>, Checks),
    Text(<<>>, <<<<"bash", "run">>>>),
    Text(<<>>, <<<<"/bin/sh", "run">>>>),
    Text(<<>>, <<<<"harnessctl", "fetch">>>>),
    Text(<<>>, <<<<"harnessctl", "Fetch">>>>),
    Text(<<>>, <<<<"make", "verify-offline">>>>),
    Text(<<>>, <<<<"uv", "run", "--offline", "--frozen", "pytest">>>>)}
Irregular == [kind |-> "irregular"]
Unreadable == [kind |-> "unreadable"]
OnlyLock == Text(<<>>, <<LockCheck>>)
OnlyDeterminism == Text(<<>>, <<Determinism>>)
OnlyGenerator == Text(<<>>, <<GeneratorCheck>>)
Everything == Text(<<PrefetchCommand>>, <<GeneratorCheck, Determinism, LockCheck>>)
MCPacketFiles == {File(t) : t \in Refused \union
        {Opaque, ByPath, Prefetching, OnlyLock, OnlyDeterminism, OnlyGenerator, Everything}}
    \union {Irregular, Unreadable}

Sandbox == [named |-> TRUE, isolated |-> TRUE, offline |-> TRUE]
MCEnvironments == {Sandbox} \union
    {[Sandbox EXCEPT ![field] = FALSE] : field \in {"named", "isolated", "offline"}}

-----------------------------------------------------------------------------
(* make: "deploy" of two packets takes a backend; the second directory has *)
(* a rule too many for k8s, the others are refused.                        *)
Literal(n) == [kind |-> "literal", name |-> n]
Variable(n) == [kind |-> "variable", name |-> n]
Rule(name, accepted, commands) == [name |-> name, accepted |-> accepted, commands |-> commands]
Backend(values) == [n \in {"BACKEND"} |-> values]
Prefetch(tool) == Rule("prefetch", <<>>, <<<<Literal("python3"), Literal(tool)>>>>)
Deploy(values, tool) ==
    Rule("deploy", Backend(values), <<<<Literal(tool), Variable("BACKEND")>>, <<Literal("probe")>>>>)
Help == Rule("help", <<>>, <<<<Literal("help")>>>>)
Sound(targets) == [flawed |-> FALSE, targets |-> targets]

Contracts == Sound(<<Prefetch("contracts"), Help>>)
Runtime == Sound(<<Deploy({"k8s", "none"}, "install"), Prefetch("runtime")>>)
Trust == Sound(<<Deploy({"k8s"}, "install"), Rule("deploy", <<>>, <<<<Literal("plan")>>>>)>>)
Doubled == Sound(<<Deploy({"k8s"}, "install"), Deploy({"k8s", "none"}, "apply")>>)
FaultyTargets == {
    Rule("deploy", [n \in {"COLOUR"} |-> {"red"}], <<<<Literal("install")>>>>),
    Rule("deploy", Backend({}), <<<<Literal("install")>>>>),
    Rule("deploy", <<>>, <<>>),
    Rule("deploy", <<>>, <<<<>>>>),
    Rule("deploy", <<>>, <<<<Literal("sh")>>>>),
    Rule("deploy", Backend({"k8s"}), <<<<Variable("BACKEND")>>>>),
    Rule("deploy", Backend({"k8s"}), <<<<Literal("install"), Variable("PACK")>>>>)}
SoundDirectory == <<Contracts, Runtime, Trust>>
MCDirectories == {SoundDirectory, <<Contracts, Doubled, Runtime>>, <<>>,
        <<Contracts, [Runtime EXCEPT !.flawed = TRUE]>>, <<Sound(<<>>), Contracts>>,
        <<Contracts, Sound(<<Help, Prefetch("runtime"), Prefetch("other")>>)>>}
    \union {<<Contracts, Sound(<<t>>)>> : t \in FaultyTargets}

Call(target, explicit, inherited) ==
    [target |-> target, explicit |-> explicit, inherited |-> inherited]
Is(name, value) == [name |-> name, value |-> value]
MCCalls == {
    Call("deploy", <<Is("BACKEND", "k8s")>>, <<>>),
    Call("deploy", <<>>, Backend("none")),
    Call("deploy", <<Is("PACK", "base")>>, Backend("k8s")),
    Call("deploy", <<>>, <<>>),
    Call("test", <<>>, <<>>),
    Call("deploy", <<Is("COLOUR", "red")>>, <<>>),
    Call("deploy", <<Is("BACKEND", "k8s"), Is("BACKEND", "none")>>, <<>>),
    Call("deploy", <<Is("BACKEND", "k8s")>>, Backend("none"))}

-----------------------------------------------------------------------------
(* Catalogs of two files, and all harness graphs without self edges in one *)
CatalogFile(harnesses, modules) ==
    [readable |-> TRUE, flawed |-> FALSE, harnesses |-> harnesses, modules |-> modules,
     notes |-> "first"]
First == CatalogFile({<<1, 2>>}, {})
Second == CatalogFile({<<2, 3>>, <<1, 4>>}, {<<3, 1>>})
MCCatalogFiles == {First, Second, CatalogFile({<<2, 1>>}, {<<1, 3>>}), CatalogFile({<<3, 3>>}, {}),
    CatalogFile({}, {<<1, 3>>}), [Second EXCEPT !.notes = "second"],
    [First EXCEPT !.readable = FALSE], [First EXCEPT !.flawed = TRUE]}
Locked(files_) == [catalog |-> files_, lock |-> [readable |-> TRUE, entries |-> files_]]
OneTree == Locked(<<First, Second>>)
Survey == {Locked(<<CatalogFile(g, {})>>) : g \in SUBSET {<<i, j>> \in MCNode \X MCNode : i # j}}
MCTrees == {OneTree} \union Survey

-----------------------------------------------------------------------------
(* Working trees of the generator: up to date, after a release of older    *)
(* revisions, and before the first one.                                    *)
All(revision) == Fresh([s \in Source |-> revision])
Generated(revision) ==
    [files |-> [t \in Target |-> Regular(Output(t, All(revision)))], strays |-> {},
     author |-> All(revision)]
UpToDateTree == Generated(1)
OldTree == Generated(2)
EmptyTree == [UpToDateTree EXCEPT !.files = [t \in Target |-> Absent]]
MCInitialTrees == {UpToDateTree, OldTree, EmptyTree}

-----------------------------------------------------------------------------
Kinds == {"packet", "catalog", "lock", "fixture", "source", "stray", "output", "kill",
          "make", "write", "all"}
Nothing == [k \in Kinds |-> 0]
Allow(kinds, all) == [k \in Kinds |-> IF k \in kinds \union {"all"} THEN all ELSE 0]
Plain == [packets |-> {File(Everything)}, environments |-> {Sandbox},
          directories |-> {SoundDirectory}, generations |-> {UpToDateTree},
          trees |-> {OneTree}, allowance |-> Nothing]
MCScenarios == {
    \* every graph
    [Plain EXCEPT !.packets = {File(OnlyLock)}, !.trees = Survey],
    \* every packet and environment, and changes of the packet
    [Plain EXCEPT !.packets = MCPacketFiles \ {File(Everything), File(OnlyLock),
                File(OnlyDeterminism), File(OnlyGenerator)},
            !.environments = MCEnvironments],
    [Plain EXCEPT !.packets = {File(Opaque), File(Prefetching)}, !.allowance = Allow({"packet"}, 2)],
    \* make without a runner
    [Plain EXCEPT !.packets = {Irregular}, !.directories = MCDirectories,
            !.allowance = Allow({"make"}, 1)],
    \* edits under the catalog commands
    [Plain EXCEPT !.packets = {File(OnlyLock), File(OnlyDeterminism)},
            !.allowance = Allow({"catalog", "lock", "fixture"}, 2)],
    \* edits under the generator's check, and a writer beside it
    [Plain EXCEPT !.packets = {File(OnlyGenerator)},
            !.allowance = Allow({"source", "stray", "output"}, 2)],
    [Plain EXCEPT !.packets = {File(OnlyGenerator)}, !.generations = MCInitialTrees,
            !.allowance = Allow({"source", "stray", "output", "kill", "write"}, 1)],
    \* a writer that is overtaken and killed
    [Plain EXCEPT !.packets = {Irregular}, !.generations = MCInitialTrees,
            !.allowance = Allow({"source", "stray", "output", "kill", "write"}, 2)],
    \* a whole packet with any one interference
    [Plain EXCEPT !.allowance = Allow(Kinds \ {"write", "kill", "make"}, 1)]}
=============================================================================
