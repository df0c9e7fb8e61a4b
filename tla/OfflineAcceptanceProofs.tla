---------------------- MODULE OfflineAcceptanceProofs ----------------------
(***************************************************************************)
(* What the packet runner, the generator and make guarantee, for every     *)
(* packet, environment, working tree and directory of descriptors, however *)
(* the children end and whatever developers do meanwhile; that they keep   *)
(* these guarantees as parts of an offline acceptance run; and what the    *)
(* success of the whole run says.                                          *)
(***************************************************************************)
EXTENDS OfflineAcceptance, DeterminismCheckProofs, TLAPS

Underway == {"canary", "verify", "verified", "running"}

\* Nothing has happened before the first command.
NothingYet ==
    runner \in {"start", "admission", "canary"} =>
        started = <<>> /\ codes = <<>> /\ unseen = 0

\* Only an admitted packet gets as far as its commands, and they run in order.
FollowsText ==
    /\ runner \in Underway => PacketAdmitted(text) /\ EnvironmentAdmitted
    /\ started # <<>> => PacketAdmitted(text) /\ EnvironmentAdmitted
    /\ Len(started) <= Len(Commands(text))
    /\ \A i \in 1..Len(started) : started[i] = Commands(text)[i]

\* A failure is the last code there is, and after it no command is due.
NoneAfterFailure ==
    /\ \A i \in 1..Len(codes) : i < Len(codes) => codes[i] = 0
    /\ runner = "running" => \A i \in 1..Len(codes) : codes[i] = 0

\* unseen counts from the last time the path held the text; between the
\* comparison and the next command there is nothing to count.
UnseenCounts ==
    /\ packet = Pinned => unseen = 0
    /\ runner = "verified" => unseen = 0
    /\ unseen <= 1

\* A comparison that succeeds is a moment at which the path holds the text; from
\* then on the packet may change, but not that it was seen.
SeenSinceTheChild ==
    /\ runner = "verify" /\ packet = Pinned => held
    /\ runner \in {"verified", "running"} => held
    /\ exit.by = "child" => held

Ends == runner # "exited" <=> exit.by = "nobody"

RunnerInv ==
    /\ RunnerTypeOK /\ NothingYet /\ FollowsText /\ NoneAfterFailure
    /\ UnseenCounts /\ SeenSinceTheChild /\ Ends /\ SuccessMeansAll

LEMMA RunnerStarts == RunnerInit => RunnerInv
<1> SUFFICES ASSUME RunnerInit PROVE RunnerInv
  OBVIOUS
<1>1. Commands(text) = <<>>
  BY DEF RunnerInit, Unread, Commands
<1>2. RunnerTypeOK
  <2>1. held \in BOOLEAN
    BY Zenon DEF RunnerInit
  <2> QED
    BY <1>1, <2>1 DEF RunnerInit, RunnerTypeOK
<1>3. NothingYet /\ FollowsText /\ NoneAfterFailure
  BY <1>1 DEF RunnerInit, NothingYet, FollowsText, NoneAfterFailure, Underway
<1>4. UnseenCounts /\ SeenSinceTheChild /\ Ends /\ SuccessMeansAll
  BY DEF RunnerInit, UnseenCounts, SeenSinceTheChild, Ends, SuccessMeansAll, NoExit
<1> QED
  BY <1>2, <1>3, <1>4 DEF RunnerInv

-----------------------------------------------------------------------------
\* One step at a time.
LEMMA RunnerStepsKeep == RunnerInv /\ [RunnerNext]_runnerVars => RunnerInv'
<1> SUFFICES ASSUME RunnerInv, [RunnerNext]_runnerVars PROVE RunnerInv'
  OBVIOUS
<1> USE ExitCodesAssumption DEF RunnerInv
<1>1. CASE ReadPacket
  <2> USE <1>1 DEF ReadPacket
  <2>1. Commands(text)' \in Seq(Seq(STRING))
    BY PacketFilesAssumption DEF RunnerTypeOK, Commands
  <2>2. RunnerTypeOK'
    BY <2>1 DEF RunnerTypeOK
  <2>3. NothingYet' /\ FollowsText' /\ NoneAfterFailure'
    BY <2>1 DEF NothingYet, FollowsText, NoneAfterFailure, Underway
  <2>4. UnseenCounts' /\ SeenSinceTheChild' /\ Ends' /\ SuccessMeansAll'
    BY DEF NothingYet, UnseenCounts, SeenSinceTheChild, Ends, SuccessMeansAll
  <2> QED
    BY <2>2, <2>3, <2>4
<1>2. CASE RefusePacket \/ FailToRead \/ RefuseChangedPacket \/ FailToStart
  <2>1. /\ UNCHANGED <<packet, environment, text, started, codes, unseen, held>>
        /\ runner' = "exited" /\ exit'.by \in {"runner", "exception"}
    BY <1>2 DEF RefusePacket, FailToRead, RefuseChangedPacket, FailToStart, Exit
  <2>2. RunnerTypeOK'
    BY <1>2, <2>1 DEF RunnerTypeOK, Commands, RefusePacket, FailToRead, RefuseChangedPacket, FailToStart
  <2>3. NothingYet' /\ FollowsText' /\ NoneAfterFailure'
    BY <2>1 DEF NothingYet, FollowsText, NoneAfterFailure, Underway, Commands, EnvironmentAdmitted
  <2>4. UnseenCounts' /\ SeenSinceTheChild' /\ Ends' /\ SuccessMeansAll'
    BY <2>1 DEF UnseenCounts, SeenSinceTheChild, Ends, SuccessMeansAll, Pinned
  <2> QED
    BY <2>2, <2>3, <2>4
<1>3. CASE StartCanary
  <2> USE <1>3 DEF StartCanary
  <2>1. RunnerTypeOK'
    BY DEF RunnerTypeOK, Commands
  <2>2. NothingYet' /\ FollowsText' /\ NoneAfterFailure'
    BY DEF NothingYet, FollowsText, NoneAfterFailure, Underway, Commands, EnvironmentAdmitted
  <2>3. UnseenCounts' /\ SeenSinceTheChild' /\ Ends' /\ SuccessMeansAll'
    BY DEF UnseenCounts, SeenSinceTheChild, Ends, SuccessMeansAll, Pinned
  <2> QED
    BY <2>1, <2>2, <2>3
<1>4. ASSUME NEW code \in ExitCodes, CanaryEnds(code) PROVE RunnerInv'
  <2> USE <1>4 DEF CanaryEnds, Exit
  <2>1. RunnerTypeOK'
    BY DEF RunnerTypeOK, Commands
  <2>2. NothingYet' /\ FollowsText' /\ NoneAfterFailure'
    BY DEF NothingYet, FollowsText, NoneAfterFailure, Underway, Commands, EnvironmentAdmitted
  <2>3. UnseenCounts' /\ Ends' /\ SuccessMeansAll'
    BY DEF UnseenCounts, Ends, SuccessMeansAll, Pinned
  <2>4. SeenSinceTheChild'
    <3>1. packet = Pinned => held'
      BY Zenon
    <3> QED
      BY <3>1 DEF SeenSinceTheChild, Ends, Pinned
  <2> QED
    BY <2>1, <2>2, <2>3, <2>4
<1>5. CASE VerifyPacket
  <2> USE <1>5 DEF VerifyPacket
  <2>1. RunnerTypeOK'
    BY DEF RunnerTypeOK, Commands
  <2>2. NothingYet' /\ FollowsText' /\ NoneAfterFailure'
    BY DEF NothingYet, FollowsText, NoneAfterFailure, Underway, Commands, EnvironmentAdmitted
  <2>3. UnseenCounts' /\ SeenSinceTheChild' /\ Ends' /\ SuccessMeansAll'
    BY DEF UnseenCounts, SeenSinceTheChild, Ends, SuccessMeansAll, Pinned
  <2> QED
    BY <2>1, <2>2, <2>3
<1>10. CASE ReturnResult
  <2> USE <1>10 DEF ReturnResult, Exit
  <2>1. RunnerTypeOK'
    BY DEF RunnerTypeOK, Commands
  <2>2. NothingYet' /\ FollowsText' /\ NoneAfterFailure'
    BY DEF NothingYet, FollowsText, NoneAfterFailure, Underway, Commands, EnvironmentAdmitted
  <2>3. UnseenCounts' /\ SeenSinceTheChild' /\ Ends'
    BY DEF UnseenCounts, SeenSinceTheChild, Ends, Pinned
  <2>4. SuccessMeansAll'
    <3>1. CASE Failed
      BY <3>1 DEF Failed, SuccessMeansAll
    <3>2. CASE ~Failed /\ Finished
      <4>1. Commands(text)' = Commands(text)
        BY DEF Commands
      <4>2. Len(codes) = Len(Commands(text)) /\ DOMAIN codes = 1..Len(codes)
        BY <3>2 DEF Finished, RunnerTypeOK
      <4>3. exit' = [by |-> "child", code |-> 0] /\ codes' = codes
        BY <3>2
      <4>4. \A i \in 1..Len(codes) : codes[i] = 0
        BY <3>2 DEF NoneAfterFailure, Failed, RunnerTypeOK
      <4> QED
        BY <4>1, <4>2, <4>3, <4>4 DEF SuccessMeansAll
    <3> QED
      BY <3>1, <3>2
  <2> QED
    BY <2>1, <2>2, <2>3, <2>4
<1>6. CASE StartCommand
  <2> USE <1>6 DEF StartCommand
  <2> DEFINE next == Commands(text)[Len(started) + 1]
  <2>1. Len(started) + 1 \in 1..Len(Commands(text)) /\ next \in Seq(STRING)
    BY DEF FollowsText, Finished, RunnerTypeOK
  <2>. Commands(text)' = Commands(text)
    BY DEF Commands
  <2>2. /\ started' \in Seq(Seq(STRING)) /\ Len(started') = Len(started) + 1
        /\ \A i \in 1..Len(started) : started'[i] = started[i]
        /\ started'[Len(started) + 1] = next
    BY <2>1 DEF RunnerTypeOK
  <2>3. RunnerTypeOK'
    BY <2>2 DEF RunnerTypeOK
  <2>4. FollowsText'
    <3>1. PacketAdmitted(text) /\ EnvironmentAdmitted
      BY DEF FollowsText, Underway
    <3>2. \A i \in 1..Len(started') : started'[i] = Commands(text)[i]
      BY <2>2 DEF FollowsText, RunnerTypeOK
    <3> QED
      BY <2>1, <2>2, <3>1, <3>2 DEF FollowsText, EnvironmentAdmitted
  <2>5. NothingYet' /\ NoneAfterFailure'
    BY DEF NothingYet, NoneAfterFailure, Failed, RunnerTypeOK
  <2>6. UnseenCounts' /\ SeenSinceTheChild' /\ Ends' /\ SuccessMeansAll'
    BY DEF UnseenCounts, SeenSinceTheChild, Ends, SuccessMeansAll, Pinned, RunnerTypeOK
  <2> QED
    BY <2>3, <2>4, <2>5, <2>6
<1>7. ASSUME NEW code \in ExitCodes, CommandEnds(code) PROVE RunnerInv'
  <2> USE <1>7 DEF CommandEnds
  <2>1. /\ codes' \in Seq(ExitCodes) /\ Len(codes') = Len(codes) + 1
        /\ \A i \in 1..Len(codes) : codes'[i] = codes[i]
    BY DEF RunnerTypeOK
  <2>2. RunnerTypeOK'
    BY <2>1 DEF RunnerTypeOK, Commands
  <2>3. NothingYet' /\ FollowsText'
    BY DEF NothingYet, FollowsText, Underway, Commands, EnvironmentAdmitted
  <2>4. NoneAfterFailure'
    BY <2>1 DEF NoneAfterFailure, RunnerTypeOK
  <2>5. UnseenCounts' /\ SeenSinceTheChild' /\ Ends' /\ SuccessMeansAll'
    BY DEF UnseenCounts, SeenSinceTheChild, Ends, SuccessMeansAll, Pinned
  <2> QED
    BY <2>2, <2>3, <2>4, <2>5
<1>8. CASE ChangePacket
  <2> USE <1>8 DEF ChangePacket
  <2>1. RunnerTypeOK'
    BY DEF RunnerTypeOK, Commands
  <2>2. NothingYet' /\ FollowsText' /\ NoneAfterFailure'
    BY DEF NothingYet, FollowsText, NoneAfterFailure, Underway, Commands, EnvironmentAdmitted
  <2>3. UnseenCounts' /\ SeenSinceTheChild'
    <3>1. held => held'
      BY Zenon
    <3>2. runner \in {"verify", "verified"} /\ packet' = Pinned => held'
      BY Zenon
    <3>3. UnseenCounts'
      BY DEF UnseenCounts, Pinned
    <3> QED
      BY <3>1, <3>2, <3>3 DEF SeenSinceTheChild, Pinned
  <2>4. Ends' /\ SuccessMeansAll'
    BY DEF Ends, SuccessMeansAll, Commands
  <2> QED
    BY <2>1, <2>2, <2>3, <2>4
<1>9. CASE UNCHANGED runnerVars
  <2> USE <1>9 DEF runnerVars
  <2>1. RunnerTypeOK' /\ NothingYet' /\ FollowsText'
    BY DEF RunnerTypeOK, NothingYet, FollowsText, Underway, Commands, EnvironmentAdmitted
  <2>2. NoneAfterFailure' /\ UnseenCounts' /\ SeenSinceTheChild' /\ Ends' /\ SuccessMeansAll'
    BY DEF NoneAfterFailure, UnseenCounts, SeenSinceTheChild, Ends, SuccessMeansAll, Pinned, Commands
  <2> QED
    BY <2>1, <2>2
<1> QED
  BY <1>1, <1>2, <1>3, <1>4, <1>5, <1>6, <1>7, <1>8, <1>9, <1>10
     DEF RunnerNext, RunnerStep, ChildEnds

LEMMA RunnerInductive == RunnerSpec => []RunnerInv
BY RunnerStarts, RunnerStepsKeep, PTL DEF RunnerSpec

-----------------------------------------------------------------------------
\* The runner's data keep their shape: there is a code for every command but
\* the one that runs.
THEOREM RunnerTypeCorrect == RunnerSpec => []RunnerTypeOK
<1>1. RunnerInv => RunnerTypeOK
  BY DEF RunnerInv
<1> QED
  BY <1>1, RunnerInductive, PTL

\* However often the packet is changed and restored, at most one command is
\* started after a change that lasts (verify_packet_digest in run_commands).
THEOREM ChangesStopTheRun == RunnerSpec => []ChangeStopsTheRun
<1>1. RunnerInv => ChangeStopsTheRun
  BY DEF RunnerInv, UnseenCounts, ChangeStopsTheRun
<1> QED
  BY <1>1, RunnerInductive, PTL

\* What the runner starts is a beginning of an admitted packet, and nothing
\* follows a failure.
THEOREM OnlyWhatWasRead == RunnerSpec => []RunsOnlyWhatItRead
<1>1. RunnerInv => RunsOnlyWhatItRead
  <2> SUFFICES ASSUME RunnerInv, started # <<>> PROVE RunsOnlyWhatItRead
    BY DEF RunsOnlyWhatItRead
  <2>1. \A i \in 1..(Len(started) - 1) : codes[i] = 0
    BY DEF RunnerInv, NoneAfterFailure, RunnerTypeOK
  <2>2. DOMAIN started = 1..Len(started)
    BY DEF RunnerInv, RunnerTypeOK
  <2> QED
    BY <2>1, <2>2 DEF RunnerInv, FollowsText, RunsOnlyWhatItRead, RunnerTypeOK
<1> QED
  BY <1>1, RunnerInductive, PTL

\* Success is reported for a complete run without a failure and for no other.
THEOREM SuccessIsComplete == RunnerSpec => []SuccessMeansAll
<1>1. RunnerInv => SuccessMeansAll
  BY DEF RunnerInv
<1> QED
  BY <1>1, RunnerInductive, PTL

\* A result counts only under the packet it was obtained for, wherever between
\* the end of the child and the decision the packet changes: the comparison of
\* run_commands lies behind the child and before the look at its code.
THEOREM ResultsCountUnderThePacket == RunnerSpec => []ResultsNeedThePacket
<1>1. RunnerInv => ResultsNeedThePacket
  BY DEF RunnerInv, SeenSinceTheChild, ResultsNeedThePacket
<1> QED
  BY <1>1, RunnerInductive, PTL

-----------------------------------------------------------------------------
\* The generator.  A checker never writes.
GenerationTypeOK ==
    /\ sources \in [Source -> Nat]
    /\ files = [t \in Target |-> files[t]]
    /\ generator \in [Generator -> {"idle", "inputs", "contracts", "release", "check", "write",
                                    "accepted", "refused"}]
    /\ basis \in [Generator -> [imported : [Source -> Nat], read : [Source -> Nat]]]
    /\ position \in [Generator -> Nat \ {0}]
    /\ disturbed \in [Generator -> BOOLEAN]
    /\ \A g \in Checker : generator[g] # "write"

\* As long as nobody changes the tree, what a checker has looked at is what
\* is there, and the targets behind it are as they should be.
UndisturbedAt(g) ==
    /\ generator[g] \in {"inputs", "contracts", "release"} => position[g] = 1
    /\ generator[g] \in {"inputs", "contracts"} => basis[g].imported = sources
    /\ At(g, "release") =>
        basis[g].imported = sources /\ basis[g].read["contracts"] = sources["contracts"]
    /\ generator[g] \in {"inputs", "contracts", "release"} =>
        sources["machine"] # Broken /\ sources["mapping"] # Broken
    /\ generator[g] \in {"contracts", "release"} => sources["inputs"] # Broken
    /\ At(g, "release") => sources["contracts"] # Broken
    /\ At(g, "check") =>
        /\ basis[g] = Fresh(sources) /\ NothingBroken
        /\ \A i \in DOMAIN Targets : i < position[g] =>
            files[Targets[i]] = Regular(Output(Targets[i], Fresh(sources)))
    /\ At(g, "accepted") => UpToDate
Undisturbed == \A g \in Checker : ~disturbed[g] => UndisturbedAt(g)

\* The manifest is the one of its author, or it is none.
OneAuthor == files["manifest"].content \in {Truncated, ManifestOutput(author)}

GenerationInv == GenerationTypeOK /\ Undisturbed /\ OneAuthor

LEMMA TargetNames ==
    /\ DOMAIN Targets = 1..6 /\ Len(Targets) = 6
    /\ Target = {"lifecycle", "status", "mappings", "deprecation", "index", "manifest"}
    /\ \A i \in 1..6 : Targets[i] \in Target
<1>1. DOMAIN Targets = 1..6 /\ Len(Targets) = 6
  BY DEF Targets
<1>2. /\ Targets[1] = "lifecycle" /\ Targets[2] = "status" /\ Targets[3] = "mappings"
      /\ Targets[4] = "deprecation" /\ Targets[5] = "index" /\ Targets[6] = "manifest"
  BY DEF Targets
<1> QED
  BY <1>1, <1>2 DEF Target

LEMMA PositionShape ==
    ASSUME GenerationTypeOK, NEW g \in Generator
    PROVE  /\ position[g] \in Nat /\ position[g] >= 1
           /\ position[g] <= Len(Targets) => position[g] \in 1..6
           /\ position[g] > Len(Targets) => \A i \in 1..6 : i < position[g]
           /\ [position EXCEPT ![g] = @ + 1] \in [Generator -> Nat \ {0}]
<1>1. position[g] \in Nat /\ position[g] >= 1
  BY DEF GenerationTypeOK
<1>2. position[g] + 1 \in Nat \ {0}
  BY <1>1
<1>3. [position EXCEPT ![g] = @ + 1] \in [Generator -> Nat \ {0}]
  BY <1>2 DEF GenerationTypeOK
<1>4. Len(Targets) = 6
  BY TargetNames
<1>5. \A i \in 1..6 : position[g] > 6 => i < position[g]
  BY <1>1
<1>6. position[g] <= 6 => position[g] \in 1..6
  BY <1>1
<1> QED
  BY <1>1, <1>3, <1>4, <1>5, <1>6

LEMMA GenerationStarts == GenerationInit => GenerationInv
<1> SUFFICES ASSUME GenerationInit PROVE GenerationInv
  OBVIOUS
<1>1. FirstTree \in [Source -> Nat] /\ Fresh(Unseen) \in [imported : [Source -> Nat], read : [Source -> Nat]]
  BY DEF FirstTree, Unseen, Fresh, Basis, Broken
<1>2. PICK found \in InitialTrees : files = found.files /\ author = found.author
  BY DEF GenerationInit
<1>3. GenerationTypeOK
  BY <1>1, <1>2, InitialTreesAssumption DEF GenerationInit, GenerationTypeOK, Generator
<1>4. Undisturbed
  BY DEF GenerationInit, Undisturbed, UndisturbedAt, Generator, At
<1>5. OneAuthor
  BY <1>2, InitialTreesAssumption DEF OneAuthor
<1> QED
  BY <1>3, <1>4, <1>5 DEF GenerationInv

\* A step of h that leaves the tree alone leaves the other processes alone.
LEMMA TreeKept ==
    ASSUME GenerationInv, NEW h \in Generator,
           UNCHANGED <<sources, files, strays, author>>,
           \A g \in Generator \ {h} : /\ generator'[g] = generator[g] /\ basis'[g] = basis[g]
                                      /\ position'[g] = position[g] /\ disturbed'[g] = disturbed[g],
           h \in Checker /\ ~disturbed'[h] => UndisturbedAt(h)'
    PROVE  Undisturbed' /\ OneAuthor'
<1>1. OneAuthor'
  BY DEF GenerationInv, OneAuthor
<1>2. ASSUME NEW g \in Checker, ~disturbed'[g], g # h PROVE UndisturbedAt(g)'
  <2>1. g \in Generator /\ UndisturbedAt(g)
    BY <1>2 DEF Generator, GenerationInv, Undisturbed
  <2> QED
    BY <1>2, <2>1 DEF UndisturbedAt, At, UpToDate, NothingBroken, NoStrays
<1> QED
  BY <1>1, <1>2 DEF Undisturbed

\* A change of the tree disturbs every checker that is under way.
LEMMA TreeChanged ==
    ASSUME GenerationInv,
           \A g \in Checker : disturbed'[g] \/ generator'[g] = "idle"
    PROVE  Undisturbed'
BY DEF Undisturbed, UndisturbedAt, At

LEMMA DisturbingAll ==
    ASSUME GenerationInv, NEW causes, Disturb(causes),
           \A g \in Checker : generator'[g] = generator[g] \/ generator'[g] = "idle",
           \A g \in causes \cap Checker : generator'[g] = "idle"
    PROVE  disturbed' \in [Generator -> BOOLEAN] /\ Undisturbed'
<1>1. disturbed' \in [Generator -> BOOLEAN]
  BY DEF Disturb, GenerationInv, GenerationTypeOK
<1>2. ASSUME NEW g \in Checker PROVE disturbed'[g] \/ generator'[g] = "idle"
  BY DEF Disturb, At, Generator, GenerationInv, GenerationTypeOK
<1> QED
  BY <1>1, <1>2, TreeChanged

LEMMA StartKeeps ==
    ASSUME GenerationInv, NEW g \in Generator, StartGeneration(g)
    PROVE  GenerationInv'
<1> USE DEF GenerationInv, StartGeneration, Go
<1>1. GenerationTypeOK'
  BY DEF GenerationTypeOK, Unseen, Fresh, Basis, Broken
<1>2. g \in Checker => UndisturbedAt(g)'
  BY DEF GenerationTypeOK, UndisturbedAt, At, Unseen, Fresh, Basis
<1>3. \A h \in Generator \ {g} : /\ generator'[h] = generator[h] /\ basis'[h] = basis[h]
                                 /\ position'[h] = position[h] /\ disturbed'[h] = disturbed[h]
  BY DEF GenerationTypeOK
<1> QED
  BY <1>1, <1>2, <1>3, TreeKept

LEMMA ReadInputsKeeps ==
    ASSUME GenerationInv, NEW g \in Generator, ReadInputs(g)
    PROVE  GenerationInv'
<1> USE DEF GenerationInv, ReadInputs, Go
<1>1. GenerationTypeOK'
  BY DEF GenerationTypeOK, Generator
<1>2. ASSUME g \in Checker, ~disturbed'[g] PROVE UndisturbedAt(g)'
  <2>1. UndisturbedAt(g)
    BY <1>2 DEF Undisturbed
  <2> QED
    BY <2>1 DEF GenerationTypeOK, UndisturbedAt, At
<1>3. \A h \in Generator \ {g} : /\ generator'[h] = generator[h] /\ basis'[h] = basis[h]
                                 /\ position'[h] = position[h] /\ disturbed'[h] = disturbed[h]
  BY DEF GenerationTypeOK
<1> QED
  BY <1>1, <1>2, <1>3, TreeKept

\* What a process has looked at are revisions.
LEMMA BasisShape ==
    ASSUME GenerationTypeOK, NEW g \in Generator
    PROVE  /\ basis[g].imported \in [Source -> Nat] /\ basis[g].read \in [Source -> Nat]
           /\ basis[g].read["contracts"] \in Nat /\ sources["contracts"] \in Nat
           /\ [Unseen EXCEPT !["contracts"] = sources["contracts"]] \in [Source -> Nat]
           /\ [sources EXCEPT !["contracts"] = basis[g].read["contracts"]] \in [Source -> Nat]
<1>1. basis[g].imported \in [Source -> Nat] /\ basis[g].read \in [Source -> Nat]
  BY DEF GenerationTypeOK
<1>2. basis[g].read["contracts"] \in Nat /\ sources["contracts"] \in Nat
  BY <1>1 DEF GenerationTypeOK, Source
<1>3. Unseen \in [Source -> Nat]
  BY DEF Unseen, Broken
<1> QED
  BY <1>1, <1>2, <1>3 DEF GenerationTypeOK

LEMMA ReadContractsKeeps ==
    ASSUME GenerationInv, NEW g \in Generator, ReadContracts(g)
    PROVE  GenerationInv'
<1> USE DEF GenerationInv
<1>1. PICK seen \in [Source -> Nat] :
        /\ seen["contracts"] = sources["contracts"]
        /\ basis' = [basis EXCEPT ![g] = Basis(basis[g].imported, seen)]
  BY BasisShape DEF ReadContracts, Source, Unseen
<1>2. /\ At(g, "contracts")
      /\ generator' = [generator EXCEPT ![g] =
            IF sources["contracts"] = Broken THEN "refused" ELSE "release"]
      /\ UNCHANGED <<sources, files, strays, position, disturbed, author>>
  BY DEF ReadContracts, Go
<1>3. basis' \in [Generator -> [imported : [Source -> Nat], read : [Source -> Nat]]]
  BY <1>1, BasisShape DEF GenerationTypeOK, Basis
<1>4. GenerationTypeOK'
  BY <1>2, <1>3 DEF GenerationTypeOK, Generator
<1>5. ASSUME g \in Checker, ~disturbed'[g] PROVE UndisturbedAt(g)'
  <2>1. UndisturbedAt(g) /\ basis'[g] = Basis(basis[g].imported, seen)
    BY <1>1, <1>2, <1>5 DEF Undisturbed, GenerationTypeOK
  <2> QED
    BY <1>1, <1>2, <2>1 DEF GenerationTypeOK, UndisturbedAt, At, Basis
<1>6. \A h \in Generator \ {g} : /\ generator'[h] = generator[h] /\ basis'[h] = basis[h]
                                 /\ position'[h] = position[h] /\ disturbed'[h] = disturbed[h]
  BY <1>1, <1>2 DEF GenerationTypeOK
<1> QED
  BY <1>2, <1>4, <1>5, <1>6, TreeKept

LEMMA ReadReleaseSourcesKeeps ==
    ASSUME GenerationInv, NEW g \in Generator, ReadReleaseSources(g)
    PROVE  GenerationInv'
<1> USE DEF GenerationInv
<1>1. PICK seen \in [Source -> Nat] :
        /\ seen = [sources EXCEPT !["contracts"] = basis[g].read["contracts"]]
        /\ basis' = [basis EXCEPT ![g] = Basis(basis[g].imported, seen)]
  BY BasisShape DEF ReadReleaseSources
<1>2. /\ At(g, "release")
      /\ \/ generator' = [generator EXCEPT ![g] = "refused"]
         \/ /\ sources["documents"] # Broken
            /\ generator' = [generator EXCEPT ![g] = IF g \in Checker THEN "check" ELSE "write"]
      /\ UNCHANGED <<sources, files, strays, position, disturbed, author>>
  BY DEF ReadReleaseSources, Go
<1>3. basis' \in [Generator -> [imported : [Source -> Nat], read : [Source -> Nat]]]
  BY <1>1, BasisShape DEF GenerationTypeOK, Basis
<1>4. GenerationTypeOK'
  BY <1>2, <1>3 DEF GenerationTypeOK, Generator
<1>5. ASSUME g \in Checker, ~disturbed'[g] PROVE UndisturbedAt(g)'
  <2>1. UndisturbedAt(g) /\ basis'[g] = Basis(basis[g].imported, seen)
    BY <1>1, <1>2, <1>5 DEF Undisturbed, GenerationTypeOK
  <2>2. basis[g].imported = sources /\ seen = sources /\ position[g] = 1
    BY <1>1, <1>2, <2>1 DEF GenerationTypeOK, UndisturbedAt, At, Source
  <2>3. basis'[g] = Fresh(sources)
    BY <2>1, <2>2 DEF Fresh
  <2>4. generator'[g] = "check" => NothingBroken
    BY <1>2, <2>1 DEF GenerationTypeOK, UndisturbedAt, At, Source, NothingBroken
  <2> QED
    BY <1>2, <2>2, <2>3, <2>4, TargetNames DEF UndisturbedAt, At, GenerationTypeOK, NothingBroken
<1>6. \A h \in Generator \ {g} : /\ generator'[h] = generator[h] /\ basis'[h] = basis[h]
                                 /\ position'[h] = position[h] /\ disturbed'[h] = disturbed[h]
  BY <1>1, <1>2 DEF GenerationTypeOK
<1> QED
  BY <1>2, <1>4, <1>5, <1>6, TreeKept

LEMMA CheckKeeps ==
    ASSUME GenerationInv, NEW g \in Generator, CheckTarget(g) \/ CheckDirectories(g)
    PROVE  GenerationInv'
<1> USE DEF GenerationInv
<1>1. /\ At(g, "check") /\ generator' \in {generator, [generator EXCEPT ![g] = "refused"],
                                          [generator EXCEPT ![g] = "accepted"]}
      /\ position' \in {position, [position EXCEPT ![g] = @ + 1]}
      /\ UNCHANGED <<sources, files, strays, basis, disturbed, author>>
  BY DEF CheckTarget, CheckDirectories, Go, GenerationTypeOK
<1>2. GenerationTypeOK'
  <2>1. position' \in [Generator -> Nat \ {0}]
    <3>1. [position EXCEPT ![g] = @ + 1] \in [Generator -> Nat \ {0}]
      BY PositionShape
    <3>2. position' = position \/ position' = [position EXCEPT ![g] = @ + 1]
      BY <1>1
    <3> QED
      BY <3>1, <3>2 DEF GenerationTypeOK
  <2>2. generator' \in [Generator -> {"idle", "inputs", "contracts", "release", "check", "write",
                                      "accepted", "refused"}]
    BY <1>1 DEF GenerationTypeOK
  <2>3. \A h \in Checker : generator'[h] # "write"
    BY <1>1 DEF GenerationTypeOK, Generator
  <2> QED
    BY <1>1, <2>1, <2>2, <2>3 DEF GenerationTypeOK
<1>3. ASSUME g \in Checker, ~disturbed'[g] PROVE UndisturbedAt(g)'
  <2>1. UndisturbedAt(g) /\ position[g] \in Nat \ {0}
    BY <1>1, <1>3 DEF Undisturbed, GenerationTypeOK
  <2>2. /\ basis[g] = Fresh(sources) /\ NothingBroken
        /\ \A i \in 1..6 : i < position[g] =>
              files[Targets[i]] = Regular(Output(Targets[i], Fresh(sources)))
    BY <1>1, <2>1, TargetNames DEF UndisturbedAt
  <2>3. CASE CheckTarget(g)
    <3>1. CASE Actual(g) = Regular(Expected(g))
      <4>1. position'[g] = position[g] + 1 /\ generator' = generator /\ position[g] \in 1..6
        BY <2>3, <3>1, PositionShape DEF CheckTarget, GenerationTypeOK
      <4>2. files[Targets[position[g]]] = Regular(Output(Targets[position[g]], Fresh(sources)))
        BY <2>2, <3>1 DEF Actual, Expected
      <4>3. \A i \in 1..6 : i < position'[g] =>
              files[Targets[i]] = Regular(Output(Targets[i], Fresh(sources)))
        BY <2>1, <2>2, <4>1, <4>2
      <4> QED
        BY <1>1, <2>2, <4>1, <4>3, TargetNames DEF UndisturbedAt, At, NothingBroken
    <3>2. CASE Actual(g) # Regular(Expected(g))
      <4>1. generator'[g] = "refused"
        BY <2>3, <3>2 DEF CheckTarget, Go, GenerationTypeOK
      <4> QED
        BY <4>1 DEF UndisturbedAt, At
    <3> QED
      BY <3>1, <3>2
  <2>4. CASE CheckDirectories(g)
    <3>1. generator'[g] \in {"accepted", "refused"} /\ (generator'[g] = "accepted" => NoStrays)
      BY <2>4 DEF CheckDirectories, DirectoriesComplete, Go, GenerationTypeOK, NoStrays
    <3>2. \A i \in 1..6 : files[Targets[i]] = Regular(Output(Targets[i], Fresh(sources)))
      BY <2>2, <2>4, PositionShape DEF CheckDirectories
    <3>3. \A t \in Target : files[t] = Regular(Output(t, Fresh(sources)))
      BY <3>2, TargetNames DEF Target
    <3> QED
      BY <1>1, <2>2, <3>1, <3>3 DEF UndisturbedAt, At, UpToDate, NothingBroken, NoStrays
  <2> QED
    BY <2>3, <2>4
<1>4. \A h \in Generator \ {g} : /\ generator'[h] = generator[h] /\ basis'[h] = basis[h]
                                 /\ position'[h] = position[h] /\ disturbed'[h] = disturbed[h]
  BY <1>1 DEF GenerationTypeOK
<1> QED
  BY <1>1, <1>2, <1>3, <1>4, TreeKept

LEMMA WriteTargetKeeps ==
    ASSUME GenerationInv, NEW g \in Generator, WriteTarget(g)
    PROVE  GenerationInv'
<1> USE DEF GenerationInv
<1> DEFINE target == Targets[position[g]]
<1>1. /\ At(g, "write") /\ position[g] \in 1..6 /\ g \notin Checker
      /\ UNCHANGED <<sources, strays, generator, basis>>
      /\ position' = [position EXCEPT ![g] = @ + 1]
  BY PositionShape DEF WriteTarget, GenerationTypeOK, At
<1>2. target \in Target
  BY <1>1, TargetNames
<1>3. files' = [t \in Target |-> files'[t]]
  BY <1>2 DEF WriteTarget, GenerationTypeOK
<1>4. OneAuthor'
  <2>1. CASE target = "manifest"
    <3>1. author' = basis[g] /\ files'["manifest"].content = Expected(g)
      BY <2>1, <1>2 DEF WriteTarget, GenerationTypeOK, Linked, Regular
    <3>2. Expected(g) = ManifestOutput(basis[g])
      BY <2>1 DEF Expected, Output
    <3> QED
      BY <3>1, <3>2 DEF OneAuthor
  <2>2. CASE target # "manifest"
    <3>1. author' = author /\ files'["manifest"] = files["manifest"]
      BY <2>2, TargetNames DEF WriteTarget, GenerationTypeOK
    <3> QED
      BY <3>1 DEF OneAuthor, ManifestOutput
  <2> QED
    BY <2>1, <2>2
<1>5. CASE files' = files
  <2>1. disturbed' = disturbed
    BY <1>5 DEF WriteTarget
  <2>2. GenerationTypeOK'
    BY <1>1, <1>3, <2>1, PositionShape DEF GenerationTypeOK
  <2>3. Undisturbed'
    <3> SUFFICES ASSUME NEW h \in Checker, ~disturbed'[h] PROVE UndisturbedAt(h)'
      BY DEF Undisturbed
    <3>1. UndisturbedAt(h) /\ position'[h] = position[h]
      BY <1>1, <2>1 DEF Undisturbed, GenerationTypeOK, Generator
    <3> QED
      BY <1>1, <1>5, <3>1 DEF UndisturbedAt, At, UpToDate, NothingBroken, NoStrays
  <2> QED
    BY <1>4, <2>2, <2>3
<1>6. CASE files' # files
  <2>1. Disturb({g})
    BY <1>6 DEF WriteTarget
  <2>2. disturbed' \in [Generator -> BOOLEAN] /\ Undisturbed'
    BY <1>1, <2>1, DisturbingAll
  <2>3. GenerationTypeOK'
    BY <1>1, <1>3, <2>2, PositionShape DEF GenerationTypeOK
  <2> QED
    BY <1>4, <2>2, <2>3
<1> QED
  BY <1>5, <1>6

LEMMA FinishWritingKeeps ==
    ASSUME GenerationInv, NEW g \in Generator, FinishWriting(g)
    PROVE  GenerationInv'
<1> USE DEF GenerationInv, FinishWriting, Go
<1>1. GenerationTypeOK'
  BY DEF GenerationTypeOK, Generator
<1>2. g \notin Checker
  BY DEF GenerationTypeOK, At
<1>3. \A h \in Generator \ {g} : /\ generator'[h] = generator[h] /\ basis'[h] = basis[h]
                                 /\ position'[h] = position[h] /\ disturbed'[h] = disturbed[h]
  BY DEF GenerationTypeOK
<1> QED
  BY <1>1, <1>2, <1>3, TreeKept

LEMMA KillWriterKeeps ==
    ASSUME GenerationInv, NEW g \in Writer, KillWriter(g)
    PROVE  GenerationInv'
<1> USE DEF GenerationInv
<1>1. /\ g \in Generator /\ generator' = [generator EXCEPT ![g] = "idle"]
      /\ UNCHANGED <<sources, strays, basis, position, author>>
  BY DEF KillWriter, Go, Generator
<1>2. CASE UNCHANGED <<files, disturbed>>
  <2>1. GenerationTypeOK'
    BY <1>1, <1>2 DEF GenerationTypeOK, Generator
  <2>2. UndisturbedAt(g)'
    BY <1>1 DEF UndisturbedAt, At, GenerationTypeOK
  <2>3. \A h \in Generator \ {g} : /\ generator'[h] = generator[h] /\ basis'[h] = basis[h]
                                   /\ position'[h] = position[h] /\ disturbed'[h] = disturbed[h]
    BY <1>1, <1>2 DEF GenerationTypeOK
  <2> QED
    BY <1>1, <1>2, <2>1, <2>2, <2>3, TreeKept
<1>3. CASE ~UNCHANGED <<files, disturbed>>
  <2> DEFINE target == Targets[position[g]]
  <2>1. /\ Disturb({g}) /\ target \in Target
        /\ files' = [files EXCEPT ![target] =
              IF @.kind = "linked" THEN Linked(Truncated) ELSE Regular(Truncated)]
    BY <1>1, <1>3, PositionShape, TargetNames DEF KillWriter
  <2>2. files' = [t \in Target |-> files'[t]]
    BY <2>1 DEF GenerationTypeOK
  <2>3. \A h \in Checker : generator'[h] = generator[h] \/ generator'[h] = "idle"
    BY <1>1 DEF GenerationTypeOK, Generator
  <2>4. generator'[g] = "idle"
    BY <1>1 DEF GenerationTypeOK
  <2>5. disturbed' \in [Generator -> BOOLEAN] /\ Undisturbed'
    BY <2>1, <2>3, <2>4, DisturbingAll
  <2>6. GenerationTypeOK'
    BY <1>1, <2>2, <2>5 DEF GenerationTypeOK, Generator
  <2>7. files'["manifest"] = files["manifest"] \/ files'["manifest"].content = Truncated
    BY <2>1, TargetNames DEF GenerationTypeOK, Linked, Regular
  <2>8. OneAuthor'
    BY <1>1, <2>7 DEF OneAuthor, ManifestOutput
  <2> QED
    BY <2>5, <2>6, <2>8
<1> QED
  BY <1>2, <1>3

LEMMA EditsKeep ==
    ASSUME GenerationInv,
           \/ \E s \in Source : EditSource(s)
           \/ \E kind \in StrayKinds : AddStray(kind)
           \/ \E target \in Target : ReplaceOutput(target)
    PROVE  GenerationInv'
<1> USE DEF GenerationInv
<1>1. Disturb({}) /\ UNCHANGED <<generator, basis, position, author>>
  BY DEF EditSource, AddStray, ReplaceOutput
<1>2. disturbed' \in [Generator -> BOOLEAN] /\ Undisturbed'
  BY <1>1, DisturbingAll
<1>3. sources' \in [Source -> Nat]
  <2>1. ASSUME NEW s \in Source, EditSource(s) PROVE sources' \in [Source -> Nat]
    <3>1. PICK r \in Revision \cup {Broken} : sources' = [sources EXCEPT ![s] = r]
      BY <2>1 DEF EditSource
    <3>2. r \in Nat
      BY RevisionAssumption DEF Broken
    <3> QED
      BY <3>1, <3>2 DEF GenerationTypeOK
  <2> QED
    BY <2>1 DEF AddStray, ReplaceOutput, GenerationTypeOK
<1>4. /\ files' = [t \in Target |-> files'[t]]
      /\ \/ files'["manifest"] = files["manifest"]
         \/ files'["manifest"].content \in {Truncated, files["manifest"].content}
  <2>1. ASSUME NEW target \in Target, ReplaceOutput(target)
        PROVE  /\ files' = [t \in Target |-> files'[t]]
               /\ \/ files'["manifest"] = files["manifest"]
                  \/ files'["manifest"].content \in {Truncated, files["manifest"].content}
    <3>1. PICK f \in {Absent, Linked(files[target].content)} : files' = [files EXCEPT ![target] = f]
      BY <2>1 DEF ReplaceOutput
    <3>2. f.content \in {Truncated, files[target].content}
      BY DEF Absent, Linked
    <3>3. files' = [t \in Target |-> files'[t]]
      BY <3>1 DEF GenerationTypeOK
    <3>4. files'["manifest"] = IF target = "manifest" THEN f ELSE files["manifest"]
      BY <3>1, TargetNames DEF GenerationTypeOK
    <3> QED
      BY <3>2, <3>3, <3>4
  <2> QED
    BY <2>1 DEF EditSource, AddStray, GenerationTypeOK
<1>5. GenerationTypeOK'
  BY <1>1, <1>2, <1>3, <1>4 DEF GenerationTypeOK
<1>6. OneAuthor'
  BY <1>1, <1>4 DEF OneAuthor, ManifestOutput
<1> QED
  BY <1>2, <1>5, <1>6

LEMMA GenerationStepsKeep == GenerationInv /\ [GenerationNext]_generationVars => GenerationInv'
<1> SUFFICES ASSUME GenerationInv, [GenerationNext]_generationVars PROVE GenerationInv'
  OBVIOUS
<1>1. CASE UNCHANGED generationVars
  BY <1>1 DEF generationVars, GenerationInv, GenerationTypeOK, Undisturbed, UndisturbedAt, At,
              UpToDate, NothingBroken, NoStrays, OneAuthor
<1>2. ASSUME NEW g \in Generator, StartGeneration(g) \/ GenerationStep(g) PROVE GenerationInv'
  BY <1>2, StartKeeps, ReadInputsKeeps, ReadContractsKeeps, ReadReleaseSourcesKeeps, CheckKeeps, WriteTargetKeeps,
     FinishWritingKeeps DEF GenerationStep
<1>3. ASSUME NEW g \in Writer, KillWriter(g) PROVE GenerationInv'
  BY <1>3, KillWriterKeeps
<1> QED
  BY <1>1, <1>2, <1>3, EditsKeep DEF GenerationNext

LEMMA GenerationInductive == GenerationSpec => []GenerationInv
BY GenerationStarts, GenerationStepsKeep, PTL DEF GenerationSpec

\* A --check that accepts a tree nobody changed meanwhile vouches for every
\* output and for both directories, with any number of processes at work.
THEOREM ChecksVouch == GenerationSpec => []CheckVouches
<1>1. GenerationInv => CheckVouches
  BY DEF GenerationInv, Undisturbed, UndisturbedAt, CheckVouches
<1> QED
  BY <1>1, GenerationInductive, PTL

\* A manifest that fits the files beside it fits the outputs of one run,
\* whatever overlapped, was killed or was replaced by hand.
THEOREM NoSilentMixture == GenerationSpec => []MixturesAreVisible
<1>1. GenerationInv => MixturesAreVisible
  <2> SUFFICES ASSUME GenerationInv, files["manifest"].content # Truncated, ManifestFits,
                      NEW t \in Target \ {"manifest"}
               PROVE  files[t].content = Output(t, author)
    BY DEF MixturesAreVisible
  <2>1. files["manifest"].content = ManifestOutput(author)
    BY DEF GenerationInv, OneAuthor
  <2>2. \A u \in DOMAIN ManifestOutput(author) : u \in Target => files[u].content = ManifestOutput(author)[u]
    BY <2>1 DEF ManifestFits
  <2>3. t \in {"lifecycle", "status", "mappings", "deprecation", "index"}
    BY TargetNames
  <2>4. t \in DOMAIN ManifestOutput(author) /\ ManifestOutput(author)[t] = Output(t, author)
    BY <2>3 DEF ManifestOutput, Output
  <2> QED
    BY <2>2, <2>4
<1> QED
  BY <1>1, GenerationInductive, PTL

-----------------------------------------------------------------------------
\* make.  What is selected, packet by packet, and what that says.
Concerned == {q \in DOMAIN descriptors : Candidates(q) # {}}
Fitting(p) == descriptors[p].targets[CHOOSE i \in Candidates(p) : TRUE]

\* The rules are selected: nobody is left open, and somebody owns the target.
Selected ==
    /\ VariablesAdmitted(call)
    /\ \A p \in DOMAIN descriptors : DescriptorAdmitted(descriptors[p]) /\ ~Ambiguous(p)
    /\ \E p \in DOMAIN descriptors : Candidates(p) # {}
    /\ applicable = [p \in Concerned |-> Fitting(p)]

\* What was started is a beginning of the commands of the selected rules.
HandledInOrder ==
    \A h \in DOMAIN handled :
        /\ h \in Handlers
        /\ handled[h] = Render(applicable[h[1]].commands[h[2]], Supplied(call))
        /\ \A w \in Handlers : Before(w, h) => w \in DOMAIN handled

DispatchInv ==
    /\ descriptors \in Directories
    /\ dispatch \in {"idle", "variables", "load", "run", "handler", "ended"}
    /\ dispatch \in {"idle", "variables", "load"} => handled = <<>> /\ ~handlerFailed
    /\ dispatch = "variables" => loaded = {}
    /\ dispatch = "load" =>
        /\ VariablesAdmitted(call) /\ loaded \subseteq DOMAIN descriptors
        /\ \A p \in loaded : DescriptorAdmitted(descriptors[p])
    /\ dispatch \in {"run", "handler"} => Selected /\ ~handlerFailed
    /\ DOMAIN handled # {} => Selected
    /\ HandledInOrder
    /\ handlerFailed => dispatch = "ended" /\ dispatchExit # 0
    /\ dispatch = "ended" /\ dispatchExit = 0 => Selected /\ Due = {}

LEMMA EmptyDomain == DOMAIN <<>> = {}
OBVIOUS

\* Where a packet is not ambiguous, its candidate is its rule.
LEMMA CandidateIsRule ==
    \A p : ~Ambiguous(p) =>
        /\ Candidates(p) # {} <=> RulesFor(p) # {}
        /\ \A t, u \in RulesFor(p) : t = u
        /\ Candidates(p) # {} => RuleFor(p) = descriptors[p].targets[CHOOSE i \in Candidates(p) : TRUE]
<1> SUFFICES ASSUME NEW p, ~Ambiguous(p)
    PROVE /\ Candidates(p) # {} <=> RulesFor(p) # {}
          /\ \A t, u \in RulesFor(p) : t = u
          /\ Candidates(p) # {} => RuleFor(p) = descriptors[p].targets[CHOOSE i \in Candidates(p) : TRUE]
  OBVIOUS
<1>1. \A t : t \in RulesFor(p) <=> \E i \in Candidates(p) : t = descriptors[p].targets[i]
  BY DEF RulesFor, Candidates, Matches
<1>2. \A i, j \in Candidates(p) : i = j
  BY DEF Ambiguous
<1>3. \A t, u \in RulesFor(p) : t = u
  BY <1>1, <1>2
<1>4. Candidates(p) # {} => RuleFor(p) = descriptors[p].targets[CHOOSE i \in Candidates(p) : TRUE]
  <2> SUFFICES ASSUME Candidates(p) # {}
               PROVE  RuleFor(p) = descriptors[p].targets[CHOOSE i \in Candidates(p) : TRUE]
    OBVIOUS
  <2> DEFINE first == CHOOSE i \in Candidates(p) : TRUE
  <2>1. first \in Candidates(p)
    OBVIOUS
  <2>2. descriptors[p].targets[first] \in RulesFor(p)
    BY <1>1, <2>1
  <2>3. RuleFor(p) \in RulesFor(p)
    BY <2>2 DEF RuleFor
  <2> QED
    BY <1>3, <2>2, <2>3
<1> QED
  BY <1>1, <1>3, <1>4

LEMMA SelectedRules ==
    ASSUME Selected
    PROVE  /\ Owners # {} /\ applicable = [p \in Owners |-> RuleFor(p)]
           /\ Handlers = Wanted
           /\ \A p \in DOMAIN descriptors : \A t, u \in RulesFor(p) : t = u
<1>1. Owners = {q \in DOMAIN descriptors : Candidates(q) # {}}
  BY CandidateIsRule DEF Selected, Owners
<1>2. Owners # {} /\ \A p \in DOMAIN descriptors : \A t, u \in RulesFor(p) : t = u
  BY <1>1, CandidateIsRule DEF Selected
<1>3. applicable = [p \in Owners |-> RuleFor(p)]
  BY <1>1, CandidateIsRule DEF Selected, Concerned, Fitting
<1>4. Handlers = Wanted
  <2>1. DOMAIN applicable = Owners /\ \A p \in Owners : applicable[p] = RuleFor(p)
    BY <1>3
  <2>2. \A h : h \in Handlers <=> \E p \in DOMAIN applicable : h \in {<<p, i>> : i \in DOMAIN applicable[p].commands}
    BY DEF Handlers
  <2>3. \A h : h \in Wanted <=> \E p \in Owners : h \in {<<p, i>> : i \in DOMAIN RuleFor(p).commands}
    BY DEF Wanted
  <2> QED
    BY <2>1, <2>2, <2>3
<1> QED
  BY <1>2, <1>3, <1>4

\* Places are pairs of numbers, as packets and commands are numbered.
LEMMA PlacesAreNumbered ==
    ASSUME Selected, descriptors \in Directories
    PROVE  \A h \in Handlers : h[1] \in Nat /\ h[2] \in Nat
<1> SUFFICES ASSUME NEW p \in DOMAIN applicable, NEW i \in DOMAIN applicable[p].commands
             PROVE  p \in Nat /\ i \in Nat
  BY DEF Handlers
<1> DEFINE first == CHOOSE j \in Candidates(p) : TRUE
<1>1. p \in DOMAIN descriptors /\ Candidates(p) # {} /\ applicable[p] = descriptors[p].targets[first]
  BY DEF Selected, Concerned, Fitting
<1>2. first \in DOMAIN descriptors[p].targets
  BY <1>1 DEF Candidates
<1> QED
  BY <1>1, <1>2, DirectoriesAssumption

LEMMA DispatchStarts == DispatchInit => DispatchInv
BY EmptyDomain DEF DispatchInit, DispatchInv, HandledInOrder

LEMMA SameRules ==
    ASSUME UNCHANGED <<descriptors, call, applicable>>
    PROVE  /\ Selected' = Selected /\ Handlers' = Handlers /\ Supplied(call)' = Supplied(call)
           /\ VariablesAdmitted(call)' = VariablesAdmitted(call)
<1>1. \A p : Candidates(p)' = Candidates(p)
  BY DEF Candidates
<1>2. \A p : Ambiguous(p)' = Ambiguous(p)
  BY <1>1 DEF Ambiguous
<1>3. Handlers' = Handlers
  BY DEF Handlers
<1>4. Supplied(call)' = Supplied(call) /\ VariablesAdmitted(call)' = VariablesAdmitted(call)
  BY DEF Supplied, VariablesAdmitted, Names
<1>5. [p \in Concerned |-> Fitting(p)]' = [p \in Concerned |-> Fitting(p)]
  <2>1. Concerned' = Concerned
    BY <1>1 DEF Concerned
  <2>2. \A p : Fitting(p)' = Fitting(p)
    BY <1>1 DEF Fitting
  <2> QED
    BY <2>1, <2>2
<1>6. Selected' = Selected
  BY <1>1, <1>2, <1>4, <1>5 DEF Selected
<1> QED
  BY <1>3, <1>4, <1>6

LEMMA SameDispatch == ASSUME DispatchInv, UNCHANGED dispatchVars PROVE DispatchInv'
<1> USE DEF dispatchVars
<1>1. /\ Selected' = Selected /\ Handlers' = Handlers /\ Supplied(call)' = Supplied(call)
      /\ VariablesAdmitted(call)' = VariablesAdmitted(call)
  BY SameRules
<1>2. HandledInOrder'
  BY <1>1 DEF DispatchInv, HandledInOrder
<1> QED
  BY <1>1, <1>2 DEF DispatchInv, Due

LEMMA CallKeeps == ASSUME DispatchInv, NEW c, CallDispatch(c) PROVE DispatchInv'
BY EmptyDomain DEF DispatchInv, HandledInOrder, CallDispatch

LEMMA BeforeSelection ==
    ASSUME DispatchInv, AdmitVariables \/ \E p \in DOMAIN descriptors : LoadDescriptor(p)
    PROVE  DispatchInv'
<1>1. /\ UNCHANGED <<descriptors, call, applicable, handled, handlerFailed>>
      /\ handled = <<>> /\ ~handlerFailed /\ dispatch' = "load"
  BY DEF DispatchInv, AdmitVariables, LoadDescriptor
<1>2. VariablesAdmitted(call)' = VariablesAdmitted(call)
  BY <1>1, SameRules
<1>3. /\ VariablesAdmitted(call) /\ loaded' \subseteq DOMAIN descriptors
      /\ \A p \in loaded' : DescriptorAdmitted(descriptors[p])
  BY DEF DispatchInv, AdmitVariables, LoadDescriptor, NextFile
<1> QED
  BY <1>1, <1>2, <1>3, EmptyDomain DEF DispatchInv, HandledInOrder

LEMMA SelectionKeeps == ASSUME DispatchInv, SelectHandlers PROVE DispatchInv'
<1>1. \A p : Candidates(p)' = Candidates(p)
  BY DEF Candidates, SelectHandlers
<1>2. Selected'
  BY <1>1 DEF DispatchInv, SelectHandlers, Selected, Concerned, Fitting, Ambiguous
<1> QED
  BY <1>2, EmptyDomain DEF DispatchInv, SelectHandlers, HandledInOrder

LEMMA RefusalKeeps == ASSUME DispatchInv, RefuseDispatch PROVE DispatchInv'
<1>1. /\ UNCHANGED <<descriptors, call, loaded, applicable, handled, handlerFailed>>
      /\ handled = <<>> /\ ~handlerFailed /\ dispatch' = "ended" /\ dispatchExit' = 2
  BY DEF DispatchInv, RefuseDispatch, EndDispatch
<1> QED
  BY <1>1, EmptyDomain DEF DispatchInv, HandledInOrder

LEMMA FailToStartKeeps == ASSUME DispatchInv, FailToStartHandler PROVE DispatchInv'
<1>1. /\ UNCHANGED <<descriptors, call, loaded, applicable, handled, handlerFailed>>
      /\ Selected /\ ~handlerFailed /\ dispatch' = "ended" /\ dispatchExit' = 1
  BY DEF DispatchInv, FailToStartHandler, EndDispatch
<1>2. Selected' = Selected /\ Handlers' = Handlers /\ Supplied(call)' = Supplied(call)
  BY <1>1, SameRules
<1>3. HandledInOrder'
  BY <1>1, <1>2 DEF DispatchInv, HandledInOrder
<1> QED
  BY <1>1, <1>2, <1>3 DEF DispatchInv

LEMMA RunKeeps == ASSUME DispatchInv, NEW h \in Due, RunHandler(h) PROVE DispatchInv'
<1> DEFINE argv == Render(applicable[h[1]].commands[h[2]], Supplied(call))
<1>1. /\ UNCHANGED <<descriptors, call, loaded, applicable, handlerFailed, dispatchExit>>
      /\ dispatch = "run" /\ dispatch' = "handler" /\ Selected /\ ~handlerFailed
      /\ \A d \in Due : d = h \/ Before(h, d)
      /\ h \in Handlers
  BY DEF DispatchInv, RunHandler, Due
<1>2. Selected' = Selected /\ Handlers' = Handlers /\ Supplied(call)' = Supplied(call)
  BY <1>1, SameRules
<1>3. /\ DOMAIN handled' = DOMAIN handled \cup {h}
      /\ \A d \in DOMAIN handled' : handled'[d] = IF d = h THEN argv ELSE handled[d]
  BY DEF RunHandler
<1>4. \A w \in Handlers : Before(w, h) => w \in DOMAIN handled
  <2> SUFFICES ASSUME NEW w \in Handlers, Before(w, h), w \in Due PROVE FALSE
    BY DEF Due
  <2>1. w = h \/ Before(h, w)
    BY <1>1
  <2>2. w[1] \in Nat /\ w[2] \in Nat /\ h[1] \in Nat /\ h[2] \in Nat
    BY <1>1, PlacesAreNumbered DEF DispatchInv
  <2> QED
    BY <2>1, <2>2 DEF Before
<1>5. ASSUME NEW d \in DOMAIN handled'
      PROVE  /\ d \in Handlers'
             /\ handled'[d] = Render(applicable[d[1]].commands[d[2]], Supplied(call))'
             /\ \A w \in Handlers' : Before(w, d) => w \in DOMAIN handled'
  <2>1. CASE d = h
    BY <1>1, <1>2, <1>3, <1>4, <2>1
  <2>2. CASE d # h /\ d \in DOMAIN handled
    BY <1>1, <1>2, <1>3, <2>2 DEF DispatchInv, HandledInOrder
  <2> QED
    BY <1>3, <2>1, <2>2
<1>6. HandledInOrder'
  <2>1. \A w, d : Before(w, d)' = Before(w, d)
    BY DEF Before
  <2> QED
    BY <1>5, <2>1 DEF HandledInOrder
<1> QED
  BY <1>1, <1>2, <1>6 DEF DispatchInv

LEMMA HandlerEndKeeps ==
    ASSUME DispatchInv, (\E code \in ExitCodes : HandlerEnds(code)) \/ FinishDispatch
    PROVE  DispatchInv'
<1>1. /\ UNCHANGED <<descriptors, call, loaded, applicable, handled>>
      /\ Selected /\ dispatch' \in {"run", "ended"}
      /\ handlerFailed' => dispatch' = "ended" /\ dispatchExit' # 0
      /\ dispatch' = "ended" /\ dispatchExit' = 0 => Due = {}
  <2>1. CASE FinishDispatch
    BY <2>1 DEF DispatchInv, FinishDispatch, EndDispatch
  <2>2. ASSUME NEW code \in ExitCodes, HandlerEnds(code)
        PROVE  /\ UNCHANGED <<descriptors, call, loaded, applicable, handled>>
               /\ Selected /\ dispatch' = IF code = 0 THEN "run" ELSE "ended"
               /\ handlerFailed' <=> code # 0
               /\ code # 0 => dispatchExit' = code
    BY <2>2 DEF DispatchInv, HandlerEnds, EndDispatch
  <2> QED
    BY <2>1, <2>2
<1>2. Selected' = Selected /\ Handlers' = Handlers /\ Supplied(call)' = Supplied(call)
  BY <1>1, SameRules
<1>3. HandledInOrder'
  BY <1>1, <1>2 DEF DispatchInv, HandledInOrder
<1> QED
  BY <1>1, <1>2, <1>3 DEF DispatchInv, Due

LEMMA DispatchKept ==
    ASSUME DispatchInv, (\E c : CallDispatch(c)) \/ DispatchStep(ExitCodes) \/ UNCHANGED dispatchVars
    PROVE  DispatchInv'
BY SameDispatch, CallKeeps, BeforeSelection, SelectionKeeps, RefusalKeeps, FailToStartKeeps, RunKeeps, HandlerEndKeeps
   DEF DispatchStep

-----------------------------------------------------------------------------
\* The packet runner is a part of the whole run: every step of the run is one
\* of the runner or leaves it alone.  What holds of the runner by itself holds
\* of it there.
THEOREM RunsAsRunner == OfflineSpec => RunnerSpec
<1>1. OfflineInit => RunnerInit
  BY DEF OfflineInit
<1>2. [OfflineNext]_allVars => [RunnerNext]_runnerVars
  <2> SUFFICES ASSUME OfflineNext PROVE RunnerNext \/ UNCHANGED runnerVars
    BY DEF allVars
  <2>1. CASE RunnerMoves \/ PacketChanges
    BY <2>1 DEF RunnerMoves, PacketChanges, RunnerNext
  <2>2. CASE EndChild
    BY <2>2 DEF EndChild, RunnerNext, ChildEnds
  <2>3. CASE BeginChild \/ ChildMoves \/ DeveloperMakes \/ \E g \in Writer : DeveloperWrites(g)
    BY <2>3 DEF BeginChild, ChildMoves, DeveloperMakes, DeveloperWrites, OnlyDispatch, OnlyGeneration, OnlyCommand
  <2>4. CASE CatalogChanges \/ GenerationChanges \/ DeveloperCallsMake
    BY <2>4 DEF CatalogChanges, GenerationChanges, DeveloperCallsMake, OnlyDispatch, OnlyGeneration, OnlyCommand
  <2> QED
    BY <2>1, <2>2, <2>3, <2>4 DEF OfflineNext, Interference
<1> QED
  BY <1>1, <1>2, PTL DEF OfflineSpec, RunnerSpec

\* The same of the generator: the child that checks, the developers who write.
THEOREM RunsAsGenerator == OfflineSpec => GenerationSpec
<1>1. OfflineInit => GenerationInit
  BY DEF OfflineInit
<1>2. [OfflineNext]_allVars => [GenerationNext]_generationVars
  <2> SUFFICES ASSUME OfflineNext PROVE GenerationNext \/ UNCHANGED generationVars
    BY DEF allVars
  <2>1. CASE RunnerMoves \/ PacketChanges \/ EndChild
    BY <2>1 DEF RunnerMoves, PacketChanges, EndChild, OnlyRunner
  <2>2. CASE BeginChild \/ ChildMoves \/ \E g \in Writer : DeveloperWrites(g)
    BY <2>2 DEF BeginChild, ChildMoves, DeveloperWrites, GenerationNext, Generator, OnlyDispatch, OnlyCommand
  <2>3. CASE DeveloperMakes \/ CatalogChanges \/ DeveloperCallsMake
    BY <2>3 DEF DeveloperMakes, CatalogChanges, DeveloperCallsMake, OnlyDispatch, OnlyCommand
  <2>4. CASE GenerationChanges
    BY <2>4 DEF GenerationChanges, GenerationNext
  <2> QED
    BY <2>1, <2>2, <2>3, <2>4 DEF OfflineNext, Interference
<1> QED
  BY <1>1, <1>2, PTL DEF OfflineSpec, GenerationSpec

\* And of the catalog commands: at most one of them runs as a child, developers
\* edit catalog, lock and fixture.
THEOREM RunsAsCommands == OfflineSpec => DeterminismSpec
<1> DEFINE commandVars == <<lockVars, determinismVars, vars>>
<1>1. OfflineInit => DeterminismInit
  BY DEF OfflineInit
<1>2. [OfflineNext]_allVars => [DeterminismNext]_commandVars
  <2> SUFFICES ASSUME OfflineNext PROVE DeterminismNext \/ UNCHANGED commandVars
    BY DEF allVars
  <2>1. CASE RunnerMoves \/ PacketChanges \/ EndChild
    BY <2>1 DEF RunnerMoves, PacketChanges, EndChild, OnlyRunner
  <2>2. CASE BeginChild
    <3>1. CASE RunnersPart \in CatalogCommands /\ BeginCommand(RunnersPart) /\ UNCHANGED determinismVars
      BY <3>1 DEF DeterminismNext
    <3>2. CASE OnlyDispatch \/ OnlyGeneration
      BY <3>2 DEF OnlyDispatch, OnlyGeneration
    <3> QED
      BY <2>2, <3>1, <3>2 DEF BeginChild
  <2>3. CASE ChildMoves
    BY <2>3 DEF ChildMoves, DeterminismNext, OnlyDispatch, OnlyGeneration
  <2>4. CASE DeveloperMakes \/ GenerationChanges \/ DeveloperCallsMake \/ \E g \in Writer : DeveloperWrites(g)
    BY <2>4 DEF DeveloperMakes, GenerationChanges, DeveloperCallsMake, DeveloperWrites, OnlyDispatch, OnlyGeneration
  <2>5. CASE CatalogChanges
    BY <2>5 DEF CatalogChanges, DeterminismNext
  <2> QED
    BY <2>1, <2>2, <2>3, <2>4, <2>5 DEF OfflineNext, Interference
<1> QED
  BY <1>1, <1>2, PTL DEF OfflineSpec, DeterminismSpec

\* Of every step of the run, make sees a call, a step of its own, or nothing.
LEMMA OfflineMakes ==
    [OfflineNext]_allVars =>
        (\E c : CallDispatch(c)) \/ DispatchStep(ExitCodes) \/ UNCHANGED dispatchVars
<1> SUFFICES ASSUME OfflineNext
             PROVE  (\E c : CallDispatch(c)) \/ DispatchStep(ExitCodes) \/ UNCHANGED dispatchVars
  BY DEF allVars
<1>1. CASE RunnerMoves \/ PacketChanges \/ EndChild
  BY <1>1 DEF RunnerMoves, PacketChanges, EndChild, OnlyRunner
<1>2. CASE BeginChild \/ ChildMoves \/ \E g \in Writer : DeveloperWrites(g)
  BY <1>2 DEF BeginChild, ChildMoves, DeveloperWrites, OnlyGeneration, OnlyCommand
<1>3. CASE DeveloperMakes \/ DeveloperCallsMake
  BY <1>3 DEF DeveloperMakes, DeveloperCallsMake
<1>4. CASE CatalogChanges \/ GenerationChanges
  BY <1>4 DEF CatalogChanges, GenerationChanges, OnlyGeneration, OnlyCommand
<1> QED
  BY <1>1, <1>2, <1>3, <1>4 DEF OfflineNext, Interference

LEMMA DispatchInductive == OfflineSpec => []DispatchInv
<1>1. OfflineInit => DispatchInv
  BY DispatchStarts DEF OfflineInit
<1>2. DispatchInv /\ [OfflineNext]_allVars => DispatchInv'
  BY OfflineMakes, DispatchKept
<1> QED
  BY <1>1, <1>2, PTL DEF OfflineSpec

LEMMA OwnersFollow == DispatchInv => EveryOwnerOrNobody
<1> SUFFICES ASSUME DispatchInv PROVE EveryOwnerOrNobody
  OBVIOUS
<1>1. DOMAIN handled # {} =>
        /\ VariablesAdmitted(call)
        /\ \A p \in DOMAIN descriptors : DescriptorAdmitted(descriptors[p])
        /\ \A p \in DOMAIN descriptors : \A t, u \in RulesFor(p) : t = u
  BY SelectedRules DEF DispatchInv, Selected
<1>2. ASSUME NEW h \in DOMAIN handled
      PROVE  /\ h \in Wanted
             /\ handled[h] = Render(RuleFor(h[1]).commands[h[2]], Supplied(call))
             /\ \A w \in Wanted : Before(w, h) => w \in DOMAIN handled
  <2>1. /\ applicable = [p \in Owners |-> RuleFor(p)] /\ Handlers = Wanted /\ h \in Handlers
    BY SelectedRules DEF DispatchInv, HandledInOrder
  <2>2. h[1] \in Owners
    BY <2>1 DEF Handlers
  <2> QED
    BY <2>1, <2>2 DEF DispatchInv, HandledInOrder
<1>3. (dispatch = "ended" /\ dispatchExit = 0) => Owners # {} /\ DOMAIN handled = Wanted
  <2> SUFFICES ASSUME dispatch = "ended", dispatchExit = 0 PROVE Owners # {} /\ DOMAIN handled = Wanted
    OBVIOUS
  <2>1. Selected /\ Due = {}
    BY DEF DispatchInv
  <2>2. DOMAIN handled \subseteq Handlers
    BY DEF DispatchInv, HandledInOrder
  <2> QED
    BY <2>1, <2>2, SelectedRules DEF Due
<1> QED
  BY <1>1, <1>2, <1>3 DEF EveryOwnerOrNobody, DispatchInv

(* Nothing runs for a call that any packet leaves open, everything runs in *)
(* the order of the packets, and success means that every owner's commands *)
(* ran: of every make of the run, the runner's own and the developers',    *)
(* for every directory of descriptors.                                     *)
THEOREM OwnersOrNobody == OfflineSpec => []EveryOwnerOrNobody
BY OwnersFollow, DispatchInductive, PTL

-----------------------------------------------------------------------------
\* The runner's child is the last command it started.
ChildInv == child # "none" => runner = "running" /\ child = RunnersPart

\* A command that ended well ended as the part it started.
AllWell == \A i \in DOMAIN codes : codes[i] = 0
Completed(part) == \E i \in DOMAIN codes : Part(started[i]) = part

\* The last make of the runner has ended, and it failed unless its code is 0.
MakeInv ==
    call = PrefetchCall /\ child # "make" =>
        dispatch = "ended" /\ \E i \in DOMAIN codes : codes[i] = 0 => dispatchExit = 0
\* A check that succeeded is still to be seen.
CheckInv ==
    Completed("generator") /\ AllWell /\ child # "generator" =>
        \E g \in Checker : At(g, "accepted")
\* So is the result of the last command of the catalog.
ResultInv ==
    Completed(command) /\ AllWell /\ child \notin CatalogCommands => place = 0 /\ result = 0

AcceptanceInv == ChildInv /\ MakeInv /\ CheckInv /\ ResultInv

LEMMA AcceptanceStarts == OfflineInit => AcceptanceInv
BY DEF OfflineInit, AcceptanceInv, ChildInv, MakeInv, CheckInv, ResultInv, RunnerInit,
       DispatchInit, PrefetchCall, Completed

\* While the runner moves there is no child, and the codes stay.
LEMMA RunnerMovesKeep == ASSUME AcceptanceInv, RunnerTypeOK, RunnerMoves PROVE AcceptanceInv'
<1>1. /\ UNCHANGED <<dispatchVars, generationVars, lockVars, child, codes>>
      /\ runner # "running"
      /\ UNCHANGED started \/ (runner = "verified" /\ \E c : started' = Append(started, c))
  BY DEF RunnerMoves, OnlyRunner, RunnerStep, ReadPacket, RefusePacket, FailToRead, StartCanary,
         CanaryEnds, VerifyPacket, RefuseChangedPacket, ReturnResult, StartCommand, FailToStart
<1>2. child = "none"
  BY <1>1 DEF AcceptanceInv, ChildInv
<1>3. \A i \in DOMAIN codes : started'[i] = started[i]
  <2>1. CASE UNCHANGED started
    BY <2>1
  <2>2. CASE runner = "verified" /\ \E c : started' = Append(started, c)
    <3>1. PICK c : started' = Append(started, c)
      BY <2>2
    <3>2. DOMAIN codes = 1..Len(started)
      BY <2>2 DEF RunnerTypeOK
    <3> QED
      BY <3>1, <3>2 DEF RunnerTypeOK
  <2> QED
    BY <1>1, <2>1, <2>2
<1>4. /\ AllWell' <=> AllWell
      /\ \A part : Completed(part)' <=> Completed(part)
  BY <1>1, <1>3 DEF AllWell, Completed
<1>5. UNCHANGED <<call, dispatch, dispatchExit, generator, command, place, result>>
  BY <1>1 DEF dispatchVars, generationVars, lockVars
<1>6. MakeInv'
  BY <1>1, <1>5 DEF AcceptanceInv, MakeInv
<1>7. CheckInv'
  BY <1>1, <1>4, <1>5 DEF AcceptanceInv, CheckInv, At
<1>8. ResultInv'
  <2>1. Completed(command)' <=> Completed(command)
    BY <1>1, <1>3, <1>5 DEF Completed
  <2> QED
    BY <1>1, <1>4, <1>5, <2>1 DEF AcceptanceInv, ResultInv
<1> QED
  BY <1>1, <1>2, <1>6, <1>7, <1>8 DEF AcceptanceInv, ChildInv

\* As long as the runner waits, nothing is completed.
LEMMA Waiting ==
    ASSUME UNCHANGED <<runner, started, codes>>
    PROVE  /\ AllWell' <=> AllWell
           /\ \A part : Completed(part)' <=> Completed(part)
           /\ command' = command => (Completed(command)' <=> Completed(command))
           /\ RunnersPart' = RunnersPart
BY DEF AllWell, Completed, RunnersPart

\* make has ended before it is looked at, and has no step left.
LEMMA EndedMakeRests ==
    ASSUME dispatch = "ended" PROVE ~DispatchStep(ExitCodes)
BY DEF DispatchStep, AdmitVariables, LoadDescriptor, SelectHandlers, RefuseDispatch, RunHandler,
       FailToStartHandler, EndDispatch, HandlerEnds, FinishDispatch

LEMMA DispatchStepKeepsCall == DispatchStep(ExitCodes) => UNCHANGED call
BY DEF DispatchStep, AdmitVariables, LoadDescriptor, SelectHandlers, RefuseDispatch, RunHandler,
       FailToStartHandler, EndDispatch, HandlerEnds, FinishDispatch

LEMMA BeginKeeps == ASSUME AcceptanceInv, BeginChild PROVE AcceptanceInv'
<1>1. /\ UNCHANGED <<runner, started, codes>> /\ runner = "running" /\ child = "none"
      /\ child' = RunnersPart
      /\ \/ child' = "make" /\ UNCHANGED <<generator, command, place, result>>
         \/ child' = "generator"
            /\ UNCHANGED <<call, dispatch, dispatchExit, command, place, result>>
         \/ child' \in CatalogCommands /\ UNCHANGED <<call, dispatch, dispatchExit, generator>>
  BY DEF BeginChild, OnlyDispatch, OnlyGeneration, OnlyCommand, dispatchVars, generationVars,
         lockVars, runnerVars
<1>2. child' # "none"
  BY <1>1 DEF CatalogCommands
<1>3. ChildInv'
  BY <1>1, Waiting DEF ChildInv
<1>4. MakeInv'
  BY <1>1 DEF AcceptanceInv, MakeInv
<1>5. CheckInv'
  BY <1>1, Waiting DEF AcceptanceInv, CheckInv, At
<1>6. ResultInv'
  BY <1>1, Waiting DEF AcceptanceInv, ResultInv, CatalogCommands
<1> QED
  BY <1>3, <1>4, <1>5, <1>6 DEF AcceptanceInv

LEMMA EndKeeps ==
    ASSUME AcceptanceInv, RunnerTypeOK, CommandTypeOK, EndChild
    PROVE  AcceptanceInv'
<1>1. PICK code \in ExitCodes : Ended(code) /\ CommandEnds(code)
  BY DEF EndChild
<1> DEFINE last == Len(started)
<1>2. /\ codes' = Append(codes, code) /\ UNCHANGED started /\ child' = "none" /\ runner = "running"
      /\ UNCHANGED <<call, dispatch, dispatchExit, generator, command, place, result>>
  BY <1>1 DEF CommandEnds, EndChild, OnlyRunner, dispatchVars, generationVars, lockVars
<1>3. /\ DOMAIN codes' = DOMAIN codes \cup {last} /\ codes'[last] = code
      /\ \A i \in DOMAIN codes : codes'[i] = codes[i]
  BY <1>2, ExitCodesAssumption DEF RunnerTypeOK
<1>4. AllWell' <=> AllWell /\ code = 0
  <2>1. \A i \in DOMAIN codes : i # last
    BY <1>2 DEF RunnerTypeOK
  <2> QED
    BY <1>3, <2>1 DEF AllWell
<1>5. /\ \A part : Completed(part)' <=> Completed(part) \/ RunnersPart = part
      /\ Completed(command)' <=> Completed(command) \/ RunnersPart = command
  BY <1>2, <1>3 DEF Completed, RunnersPart
<1>6. RunnersPart = IF child = "none" THEN "other" ELSE child
  BY <1>1 DEF AcceptanceInv, ChildInv, Ended, CatalogCommands
<1>7. MakeInv'
  <2>1. CASE child = "make"
    BY <1>1, <1>2, <1>3, <2>1 DEF MakeInv, Ended, CatalogCommands
  <2>2. CASE child # "make"
    BY <1>2, <1>3, <2>2 DEF AcceptanceInv, MakeInv
  <2> QED
    BY <2>1, <2>2
<1>8. CheckInv'
  <2>1. CASE child = "generator"
    BY <1>1, <1>2, <1>4, <2>1 DEF CheckInv, Ended, CatalogCommands, At
  <2>2. CASE child # "generator"
    BY <1>2, <1>4, <1>5, <1>6, <2>2 DEF AcceptanceInv, CheckInv, At
  <2> QED
    BY <2>1, <2>2
<1>9. ResultInv'
  <2>1. CASE child \in CatalogCommands
    BY <1>1, <1>2, <1>4, <2>1 DEF ResultInv, Ended, CatalogCommands
  <2>2. CASE child \notin CatalogCommands
    <3>1. RunnersPart # command
      BY <1>1, <1>6, <2>2 DEF Ended, CommandTypeOK, CatalogCommands
    <3> QED
      BY <1>2, <1>4, <1>5, <2>2, <3>1 DEF AcceptanceInv, ResultInv
  <2> QED
    BY <2>1, <2>2
<1> QED
  BY <1>2, <1>7, <1>8, <1>9 DEF AcceptanceInv, ChildInv

\* Every other step: the runner's child, the developers and their processes.
LEMMA OthersKeep ==
    ASSUME AcceptanceInv, GenerationTypeOK,
           ChildMoves \/ Interference \/ DeveloperMakes \/ \E g \in Writer : DeveloperWrites(g)
    PROVE  AcceptanceInv'
<1>1. UNCHANGED <<runner, started, codes, child>>
  BY DEF ChildMoves, Interference, DeveloperMakes, DeveloperWrites, PacketChanges, CatalogChanges,
         GenerationChanges, DeveloperCallsMake, OnlyDispatch, OnlyGeneration, OnlyCommand,
         runnerVars, ChangePacket
<1>2. ChildInv'
  BY <1>1, Waiting DEF AcceptanceInv, ChildInv
<1>3. MakeInv'
  <2> SUFFICES ASSUME call' = PrefetchCall, child # "make"
               PROVE  dispatch' = "ended" /\ \E i \in DOMAIN codes : codes[i] = 0 => dispatchExit' = 0
    BY <1>1 DEF MakeInv
  <2>1. CASE UNCHANGED dispatchVars
    BY <2>1 DEF AcceptanceInv, MakeInv, dispatchVars
  <2>2. CASE DispatchStep(ExitCodes)
    BY <2>2, DispatchStepKeepsCall, EndedMakeRests DEF AcceptanceInv, MakeInv
  <2>3. ASSUME NEW c \in Calls, CallDispatch(c) PROVE FALSE
    BY <2>3, CallsOfDevelopers DEF CallDispatch
  <2>4. \/ UNCHANGED dispatchVars \/ DispatchStep(ExitCodes) \/ \E c \in Calls : CallDispatch(c)
    BY DEF ChildMoves, Interference, DeveloperMakes, DeveloperWrites, PacketChanges, CatalogChanges,
         GenerationChanges, DeveloperCallsMake, OnlyRunner, OnlyGeneration, OnlyCommand
  <2> QED
    BY <2>1, <2>2, <2>3, <2>4
<1>4. CheckInv'
  <2> SUFFICES ASSUME child # "generator", NEW g \in Checker, At(g, "accepted")
               PROVE  At(g, "accepted")'
    BY <1>1, Waiting DEF AcceptanceInv, CheckInv
  <2>1. UNCHANGED generator \/ \E h \in Writer : \E p : Go(h, p)
    <3>1. CASE UNCHANGED generationVars
      BY <3>1 DEF generationVars
    <3>2. CASE GenerationChanges
      BY <3>2 DEF GenerationChanges, EditSource, AddStray, ReplaceOutput, KillWriter
    <3>3. ASSUME NEW h \in Writer, StartGeneration(h) \/ GenerationStep(h)
          PROVE  UNCHANGED generator \/ \E p : Go(h, p)
      BY <3>3 DEF StartGeneration, GenerationStep, ReadInputs, ReadContracts, ReadReleaseSources, CheckTarget,
         CheckDirectories, WriteTarget, FinishWriting
    <3>4. \/ UNCHANGED generationVars \/ GenerationChanges
          \/ \E h \in Writer : StartGeneration(h) \/ GenerationStep(h)
      BY DEF ChildMoves, Interference, DeveloperMakes, DeveloperWrites, PacketChanges, CatalogChanges,
           DeveloperCallsMake, OnlyRunner, OnlyDispatch, OnlyCommand
    <3> QED
      BY <3>1, <3>2, <3>3, <3>4
  <2>2. ASSUME NEW h \in Writer, NEW p, Go(h, p) PROVE At(g, "accepted")'
    <3>1. h # g
      BY ModesAssumption
    <3> QED
      BY <2>2, <3>1 DEF Go, At, GenerationTypeOK
  <2> QED
    BY <2>1, <2>2 DEF At
<1>5. ResultInv'
  <2> SUFFICES ASSUME child \notin CatalogCommands PROVE UNCHANGED <<command, place, result>>
    BY <1>1, Waiting DEF AcceptanceInv, ResultInv
  <2>1. CASE CatalogChanges
    BY <2>1 DEF CatalogChanges, EditCatalogFile, UpdateLock, EditFixture, lockVars
  <2>2. UNCHANGED lockVars \/ CatalogChanges
    BY DEF ChildMoves, Interference, DeveloperMakes, DeveloperWrites, PacketChanges,
         GenerationChanges, DeveloperCallsMake, OnlyRunner, OnlyDispatch, OnlyGeneration
  <2> QED
    BY <2>1, <2>2 DEF lockVars
<1> QED
  BY <1>2, <1>3, <1>4, <1>5 DEF AcceptanceInv

LEMMA AcceptanceStutters == ASSUME AcceptanceInv, UNCHANGED allVars PROVE AcceptanceInv'
BY DEF allVars, runnerVars, dispatchVars, generationVars, lockVars, AcceptanceInv, ChildInv, MakeInv,
       CheckInv, ResultInv, RunnersPart, AllWell, Completed, At

LEMMA PartsInductive == OfflineSpec => [](RunnerInv /\ GenerationInv /\ CommandInv)
BY RunsAsRunner, RunsAsGenerator, RunsAsCommands, RunnerInductive, GenerationInductive,
   CommandsInvariant, PTL

LEMMA AcceptanceInductive == OfflineSpec => []AcceptanceInv
<1> DEFINE Parts == RunnerInv /\ GenerationInv /\ CommandInv
<1>1. Parts /\ AcceptanceInv /\ [OfflineNext]_allVars => AcceptanceInv'
  <2> SUFFICES ASSUME Parts, AcceptanceInv, [OfflineNext]_allVars PROVE AcceptanceInv'
    OBVIOUS
  <2>1. RunnerTypeOK /\ GenerationTypeOK /\ CommandTypeOK
    BY DEF RunnerInv, GenerationInv, CommandInv
  <2> QED
    BY <2>1, RunnerMovesKeep, BeginKeeps, EndKeeps, OthersKeep, AcceptanceStutters DEF OfflineNext
<1>2. OfflineSpec => []Parts
  BY PartsInductive
<1> QED
  BY <1>1, <1>2, AcceptanceStarts, PTL DEF OfflineSpec

LEMMA AcceptedResults ==
    ASSUME CommandInv, command \in CatalogCommands, place = 0, result = 0, ~touched
    PROVE  lock = [readable |-> TRUE, entries |-> catalog] /\ Compiles(catalog)
<1>1. Acceptable
  <2>1. CASE command = "catalog-lock-check"
    BY <2>1 DEF CommandInv, LockInv, LockProgress
  <2>2. CASE command = "verify-determinism"
    <3>1. resources = catalog /\ AllReadable /\ lock.readable /\ lock.entries = catalog
      BY <2>2 DEF CommandInv, UntouchedInv, UntouchedProgress
    <3>2. Installable(resources)
      BY <2>2 DEF CommandInv, DeterminismInv, DeterminismProgress
    <3> QED
      BY <3>1, <3>2, AcceptableIs DEF CommandInv
  <2> QED
    BY <2>1, <2>2 DEF CatalogCommands
<1> QED
  BY <1>1 DEF Acceptable, Compiles

LEMMA AcceptanceFollows ==
    RunnerInv /\ GenerationInv /\ CommandInv /\ DispatchInv /\ AcceptanceInv => AcceptanceVouches
<1> SUFFICES ASSUME RunnerInv, GenerationInv, CommandInv, DispatchInv, AcceptanceInv,
                    exit = [by |-> "child", code |-> 0],
                    NEW i \in DOMAIN Commands(text),
                    NEW part, part = Part(Commands(text)[i])
             PROVE  /\ part = "make" /\ call = PrefetchCall =>
                        Owners # {} /\ DOMAIN handled = Wanted
                    /\ part = "generator" /\ (\A g \in Checker : ~disturbed[g]) => UpToDate
                    /\ part = command /\ ~touched =>
                        /\ lock = [readable |-> TRUE, entries |-> catalog]
                        /\ Compiles(catalog)
  BY DEF AcceptanceVouches
<1>1. /\ AllWell /\ Len(codes) = Len(Commands(text)) /\ runner = "exited"
  BY DEF RunnerInv, SuccessMeansAll, AllWell, Ends
<1>2. child = "none"
  BY <1>1 DEF AcceptanceInv, ChildInv
<1>3. Completed(part)
  <2>1. i \in DOMAIN codes /\ i \in 1..Len(started)
    BY <1>1 DEF RunnerInv, RunnerTypeOK
  <2>2. started[i] = Commands(text)[i]
    BY <2>1 DEF RunnerInv, FollowsText
  <2> QED
    BY <2>1, <2>2 DEF Completed
<1>4. call = PrefetchCall => Owners # {} /\ DOMAIN handled = Wanted
  BY <1>1, <1>2, OwnersFollow DEF AcceptanceInv, MakeInv, AllWell, EveryOwnerOrNobody
<1>5. part = "generator" /\ (\A g \in Checker : ~disturbed[g]) => UpToDate
  BY <1>1, <1>2, <1>3 DEF AcceptanceInv, CheckInv, GenerationInv, Undisturbed, UndisturbedAt
<1>6. ASSUME part = command, ~touched
      PROVE  lock = [readable |-> TRUE, entries |-> catalog] /\ Compiles(catalog)
  <2>1. place = 0 /\ result = 0
    BY <1>1, <1>2, <1>3, <1>6 DEF AcceptanceInv, ResultInv, CatalogCommands
  <2>2. part # "none"
    BY DEF Part
  <2>3. command \in CatalogCommands
    BY <1>6, <2>2 DEF CommandInv, CommandTypeOK
  <2> QED
    BY <1>6, <2>1, <2>3, AcceptedResults
<1> QED
  BY <1>4, <1>5, <1>6

(* What a success of the whole run says is true, across its processes and  *)
(* whatever developers do meanwhile: of make's prefetch, of the generated  *)
(* files and of the catalog and its lock, each as far as nobody interfered *)
(* with that part.                                                         *)
THEOREM SuccessVouches == OfflineSpec => []AcceptanceVouches
<1> DEFINE Parts == RunnerInv /\ GenerationInv /\ CommandInv
<1>1. Parts /\ DispatchInv /\ AcceptanceInv => AcceptanceVouches
  BY AcceptanceFollows
<1>2. OfflineSpec => []Parts
  BY PartsInductive
<1> QED
  BY <1>1, <1>2, DispatchInductive, AcceptanceInductive, PTL

(* Every guarantee of a part is one of the run: of the runner, of the      *)
(* generator, of the catalog commands.                                     *)
THEOREM EveryPartOfARun ==
    OfflineSpec =>
        /\ [](ChangeStopsTheRun /\ RunsOnlyWhatItRead /\ SuccessMeansAll)
        /\ []ResultsNeedThePacket
        /\ [](CheckVouches /\ MixturesAreVisible)
        /\ [](CycleIsReal /\ NothingMissed /\ LockVerdictExact /\ CompiledIsLocked)
BY RunsAsRunner, RunsAsGenerator, RunsAsCommands, ChangesStopTheRun, OnlyWhatWasRead,
   SuccessIsComplete, ResultsCountUnderThePacket, ChecksVouch, NoSilentMixture, CommandsReportCycles,
   CommandsMissNothing, LockVerdictsExact, AcceptedIsLocked, PTL
=============================================================================
