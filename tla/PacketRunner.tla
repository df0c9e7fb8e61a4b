---------------------------- MODULE PacketRunner ----------------------------
(***************************************************************************)
(* ci/run_packet_argv.py: the process that runs the commands of a task     *)
(* packet.  It reads the packet file once, refuses a packet or an          *)
(* environment it does not admit before anything runs, and then starts one *)
(* child after the other; the file may change underneath it, by a child or *)
(* by somebody else.  A command is its argv, and a digest is the text it   *)
(* was taken from.                                                         *)
(***************************************************************************)
EXTENDS Sequences, Naturals

CONSTANTS
    PacketFiles,    \* what the path of the packet can hold
    Environments,   \* environments the runner can be started in
    ExitCodes,      \* return codes of child processes, 0 among them
    BaseName(_),    \* the last component of a path: Path(...).name
    CaseFold(_)     \* str.casefold

ASSUME ExitCodesAssumption == 0 \in ExitCodes /\ ExitCodes \subseteq Nat
ASSUME PacketFilesAssumption ==
    \A f \in PacketFiles : f.kind = "regular" =>
        f.text.prefetch.commands \in Seq(Seq(STRING)) /\ f.text.offline.commands \in Seq(Seq(STRING))

VARIABLES
    packet,         \* what the path of the packet holds now
    environment,    \* the variables of the runner's own environment
    runner,         \* the place in main and run_commands
    text,           \* packet_text; packet_digest is its digest
    started,        \* the commands that were started, in order
    codes,          \* the return codes of those that ended
    exit,           \* how main ended: who decided, and the status
    unseen,         \* commands started since the file last held the text
    held            \* since the last child ended, the file has held the text

runnerVars == <<packet, environment, runner, text, started, codes, exit, unseen, held>>

-----------------------------------------------------------------------------
ForbiddenExecutables == {"bash", "dash", "env", "sh", "zsh"}
ForbiddenOfflineTokens ==
    {"add", "curl", "download", "fetch", "install", "npx", "prefetch", "pull", "sync", "wget"}
OfflineFlags == {"--offline", "--frozen", "--no-sync"}
PrefetchCommand == <<"make", "prefetch">>

\* A field is inline JSON, once, of lists of non-empty strings; no list is empty.
FieldLoads(field) ==
    field.inline /\ \A i \in DOMAIN field.commands : field.commands[i] # <<>>

Arguments(command) == {command[i] : i \in DOMAIN command}
DirectArgv(command) == BaseName(command[1]) \notin ForbiddenExecutables

\* Only the executable "uv" is asked for its flags, and only "make" is known to
\* call this very phase: whatever is started by a path is not.
OfflineArgv(command) ==
    /\ DirectArgv(command)
    /\ {CaseFold(a) : a \in Arguments(command)} \cap ForbiddenOfflineTokens = {}
    /\ Len(command) > 1 => SubSeq(command, 1, 2) # <<"make", "verify-offline">>
    /\ command[1] = "uv" => OfflineFlags \subseteq Arguments(command)

Commands(t) == t.prefetch.commands \o t.offline.commands

PacketAdmitted(t) ==
    /\ t.execution
    /\ FieldLoads(t.prefetch) /\ FieldLoads(t.offline)
    /\ \A i \in DOMAIN Commands(t) : DirectArgv(Commands(t)[i])
    /\ \A i \in DOMAIN t.prefetch.commands : t.prefetch.commands[i] = PrefetchCommand
    /\ \A i \in DOMAIN t.offline.commands : OfflineArgv(t.offline.commands[i])

EnvironmentAdmitted == environment.isolated /\ environment.offline

Pinned == [kind |-> "regular", text |-> text]
Unread == [execution |-> FALSE, prefetch |-> [inline |-> FALSE, commands |-> <<>>],
           offline |-> [inline |-> FALSE, commands |-> <<>>]]
NoExit == [by |-> "nobody", code |-> 0]

RunnerInit ==
    /\ packet \in PacketFiles
    /\ environment \in Environments
    /\ runner = "start" /\ text = Unread
    /\ started = <<>> /\ codes = <<>>
    /\ exit = NoExit /\ unseen = 0 /\ held = FALSE

Exit(by, code) ==
    /\ runner' = "exited"
    /\ exit' = [by |-> by, code |-> code]

-----------------------------------------------------------------------------
ReadPacket ==
    /\ runner = "start"
    /\ environment.named /\ packet.kind = "regular"
    /\ text' = packet.text
    /\ runner' = "admission"
    /\ UNCHANGED <<packet, environment, started, codes, exit, unseen, held>>

\* A PacketTransportError before anything runs.
RefusePacket ==
    /\ \/ runner = "start" /\ (~environment.named \/ packet.kind = "irregular")
       \/ runner = "admission" /\ ~(PacketAdmitted(text) /\ EnvironmentAdmitted)
    /\ Exit("runner", 2)
    /\ UNCHANGED <<packet, environment, text, started, codes, unseen, held>>

\* The path is missing, a link, or not text: the exception is not caught.
FailToRead ==
    /\ runner \in {"start", "verify"}
    /\ environment.named /\ packet.kind = "unreadable"
    /\ Exit("exception", 1)
    /\ UNCHANGED <<packet, environment, text, started, codes, unseen, held>>

StartCanary ==
    /\ runner = "admission"
    /\ PacketAdmitted(text) /\ EnvironmentAdmitted
    /\ runner' = "canary"
    /\ UNCHANGED <<packet, environment, text, started, codes, exit, unseen, held>>

\* Its interpreter is the one that runs the runner, so it starts.
CanaryEnds(code) ==
    /\ runner = "canary"
    /\ held' = (packet = Pinned)
    /\ IF code = 0 THEN runner' = "verify" /\ UNCHANGED exit ELSE Exit("canary", code)
    /\ UNCHANGED <<packet, environment, text, started, codes, unseen>>

\* Mutant: the result of the prefetch phase is not looked at.
FailedOffline ==
    Len(codes) > Len(text.prefetch.commands) /\ codes[Len(codes)] # 0

Failed == codes # <<>> /\ codes[Len(codes)] # 0
Finished == Len(started) = Len(Commands(text))

\* Mutants: a failed command is reported before the packet is looked at; the
\* packet is not compared again.
VerifyPacketUnlessFailed ==
    /\ runner = "verify"
    /\ Failed \/ packet = Pinned
    /\ runner' = "verified"
    /\ UNCHANGED <<packet, environment, text, started, codes, exit, unseen, held>>
VerifyPacketNever ==
    /\ runner = "verify"
    /\ runner' = "verified"
    /\ UNCHANGED <<packet, environment, text, started, codes, exit, unseen, held>>

\* verify_packet_digest passes.  The packet may change again before the return
\* code is looked at and before the next command is started.
VerifyPacket ==
    /\ runner = "verify"
    /\ packet = Pinned
    /\ runner' = "verified"
    /\ UNCHANGED <<packet, environment, text, started, codes, exit, unseen, held>>

RefuseChangedPacket ==
    /\ runner = "verify"
    /\ packet # Pinned /\ packet.kind # "unreadable"
    /\ Exit("runner", 2)
    /\ UNCHANGED <<packet, environment, text, started, codes, unseen, held>>

\* The code of a failed command ends the run, or the end of the commands does.
ReturnResult ==
    /\ runner = "verified"
    /\ Failed \/ Finished
    /\ Exit("child", IF Failed THEN codes[Len(codes)] ELSE 0)
    /\ UNCHANGED <<packet, environment, text, started, codes, unseen, held>>

StartCommand ==
    /\ runner = "verified"
    /\ ~Failed /\ ~Finished
    /\ started' = Append(started, Commands(text)[Len(started) + 1])
    /\ unseen' = IF packet = Pinned THEN unseen ELSE unseen + 1
    /\ runner' = "running"
    /\ UNCHANGED <<packet, environment, text, codes, exit, held>>

\* There is no such executable: the OSError of subprocess.run is not caught.
FailToStart ==
    /\ runner = "verified"
    /\ ~Failed /\ ~Finished
    /\ Exit("exception", 1)
    /\ UNCHANGED <<packet, environment, text, started, codes, unseen, held>>

CommandEnds(code) ==
    /\ runner = "running"
    /\ codes' = Append(codes, code)
    /\ held' = (packet = Pinned)
    /\ runner' = "verify"
    /\ UNCHANGED <<packet, environment, text, started, exit, unseen>>

RunnerStep ==
    \/ ReadPacket \/ RefusePacket \/ FailToRead
    \/ StartCanary \/ (\E code \in ExitCodes : CanaryEnds(code))
    \/ VerifyPacket \/ RefuseChangedPacket
    \/ ReturnResult \/ StartCommand \/ FailToStart

ChildEnds == \E code \in ExitCodes : CommandEnds(code)

\* A child, or anybody else, changes what the path holds.  held looks at the time
\* from the end of a child to the next start or exit.
ChangePacket ==
    /\ packet' \in PacketFiles
    /\ unseen' = IF packet' = Pinned THEN 0 ELSE unseen
    /\ held' = (held \/ (runner \in {"verify", "verified"} /\ packet' = Pinned))
    /\ UNCHANGED <<environment, runner, text, started, codes, exit>>

RunnerNext == RunnerStep \/ ChildEnds \/ ChangePacket
RunnerSpec == RunnerInit /\ [][RunnerNext]_runnerVars
-----------------------------------------------------------------------------
RunnerTypeOK ==
    /\ packet \in PacketFiles
    /\ runner \in {"start", "admission", "canary", "verify", "verified", "running", "exited"}
    /\ Commands(text) \in Seq(Seq(STRING)) /\ started \in Seq(Seq(STRING))
    /\ codes \in Seq(ExitCodes)
    /\ Len(codes) = IF runner = "running" THEN Len(started) - 1 ELSE Len(started)
    /\ unseen \in Nat /\ held \in BOOLEAN

(* A change of the packet that lasts is answered after at most one more    *)
(* command, wherever in the run it falls.                                  *)
ChangeStopsTheRun == unseen <= 1

(* What was started is a beginning of the commands of the packet that was  *)
(* read, every one of them admitted, and nothing follows a failure.        *)
RunsOnlyWhatItRead ==
    started # <<>> =>
        /\ PacketAdmitted(text) /\ EnvironmentAdmitted
        /\ Len(started) <= Len(Commands(text))
        /\ \A i \in DOMAIN started : started[i] = Commands(text)[i]
        /\ \A i \in 1..(Len(started) - 1) : codes[i] = 0

(* The runner reports success only when every command of the packet ran    *)
(* and succeeded, and reports a child's failure only when that is the last *)
(* thing that happened.                                                    *)
SuccessMeansAll ==
    exit.by = "child" =>
        IF exit.code = 0
        THEN Len(codes) = Len(Commands(text)) /\ \A i \in DOMAIN codes : codes[i] = 0
        ELSE codes # <<>> /\ exit.code = codes[Len(codes)]

(* A result counts only under the packet it was obtained for: where a      *)
(* child changes the packet, or somebody else does, and nobody restores it *)
(* before the result is looked at, the run neither goes on to the next     *)
(* command nor returns the success or failure of this one, whatever else   *)
(* happens to the file between the comparison and the decision.            *)
ResultsNeedThePacket == runner = "running" \/ exit.by = "child" => held
=============================================================================
