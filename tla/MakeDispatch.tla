---------------------------- MODULE MakeDispatch ----------------------------
(***************************************************************************)
(* ci/run_make_target.py: make hands a target and its variables over, the  *)
(* descriptors of all packets are loaded and checked, the one rule of each *)
(* packet that fits is selected, and the commands of the selected rules    *)
(* run in the order of the packets.  Packets are numbered in the order of  *)
(* their names.  A descriptor is [flawed, targets]: flawed stands for any  *)
(* fault of its file and its outer fields, and a target is a record of     *)
(* name, accepted (variable -> admitted values) and commands, whose parts  *)
(* are literals or references to variables.                                *)
(***************************************************************************)
EXTENDS Sequences, Naturals, FiniteSets

CONSTANTS
    Directories,    \* what ci/targets may hold: packet -> descriptor
    Calls           \* [target, explicit, inherited]: how make may call

ASSUME DirectoriesAssumption ==
    \A d \in Directories :
        /\ DOMAIN d \subseteq Nat
        /\ \A p \in DOMAIN d : \A i \in DOMAIN d[p].targets :
            DOMAIN d[p].targets[i].commands \subseteq Nat

VARIABLES
    descriptors,    \* the directory of target descriptors
    call,           \* target, explicit NAME=value arguments, inherited variables
    dispatch,       \* the place in main and dispatch
    loaded,         \* packets whose descriptors were read
    applicable,     \* the selected rules, by packet
    handled,        \* place of a started command (packet, index) -> its argv
    handlerFailed,  \* a command returned something else than 0
    dispatchExit    \* the status of the process

dispatchVars ==
    <<descriptors, call, dispatch, loaded, applicable, handled, handlerFailed, dispatchExit>>

-----------------------------------------------------------------------------
AllowedVariables == {"BACKEND", "CAMPAIGN", "MODULE", "PACK", "PROVIDERS"}
ShellExecutables == {"bash", "dash", "env", "sh", "zsh"}

\* parse_supplied_variables and main: explicit arguments name allowed variables,
\* once, and none that is inherited as well.
Names(arguments) == {arguments[i].name : i \in DOMAIN arguments}
VariablesAdmitted(c) ==
    /\ Names(c.explicit) \subseteq AllowedVariables
    /\ Cardinality(Names(c.explicit)) = Len(c.explicit)
    /\ Names(c.explicit) \cap DOMAIN c.inherited = {}

Supplied(c) ==
    [n \in Names(c.explicit) \cup DOMAIN c.inherited |->
        IF n \in DOMAIN c.inherited THEN c.inherited[n]
        ELSE (CHOOSE a \in {c.explicit[i] : i \in DOMAIN c.explicit} : a.name = n).value]

\* _accepted_variables and _commands for one target.
CommandAdmitted(command, accepted) ==
    /\ command # <<>>
    /\ command[1].kind = "literal" /\ command[1].name \notin ShellExecutables
    /\ \A i \in DOMAIN command :
        command[i].kind = "variable" => command[i].name \in DOMAIN accepted

TargetAdmitted(t) ==
    /\ DOMAIN t.accepted \subseteq AllowedVariables
    /\ \A n \in DOMAIN t.accepted : t.accepted[n] # {}
    /\ t.commands # <<>>
    /\ \A i \in DOMAIN t.commands : CommandAdmitted(t.commands[i], t.accepted)

\* load_rules for one file: its targets are sound and no two rules are equal.
DescriptorAdmitted(d) ==
    /\ ~d.flawed /\ d.targets # <<>>
    /\ \A i \in DOMAIN d.targets : TargetAdmitted(d.targets[i])
    /\ \A i, j \in DOMAIN d.targets :
        i # j => \/ d.targets[i].name # d.targets[j].name
                 \/ d.targets[i].accepted # d.targets[j].accepted

Matches(t, supplied) ==
    /\ DOMAIN supplied = DOMAIN t.accepted
    /\ \A n \in DOMAIN supplied : supplied[n] \in t.accepted[n]

Candidates(p) == {i \in DOMAIN descriptors[p].targets : LET t == descriptors[p].targets[i] IN
    t.name = call.target /\ Matches(t, Supplied(call))}

Render(command, supplied) ==
    [i \in DOMAIN command |->
        IF command[i].kind = "variable" THEN supplied[command[i].name] ELSE command[i].name]

DispatchInit ==
    /\ descriptors \in Directories
    /\ call = [target |-> "help", explicit |-> <<>>, inherited |-> <<>>]
    /\ dispatch = "idle" /\ loaded = {} /\ applicable = <<>>
    /\ handled = <<>> /\ handlerFailed = FALSE /\ dispatchExit = 0

EndDispatch(code) == dispatch' = "ended" /\ dispatchExit' = code

-----------------------------------------------------------------------------
\* make starts the process, once more when the one before has ended.
CallDispatch(c) ==
    /\ dispatch \in {"idle", "ended"}
    /\ call' = c
    /\ dispatch' = "variables" /\ loaded' = {} /\ applicable' = <<>>
    /\ handled' = <<>> /\ handlerFailed' = FALSE /\ dispatchExit' = 0
    /\ UNCHANGED descriptors

AdmitVariables ==
    /\ dispatch = "variables"
    /\ VariablesAdmitted(call)
    /\ dispatch' = "load"
    /\ UNCHANGED <<descriptors, call, loaded, applicable, handled, handlerFailed, dispatchExit>>

NextFile(p) ==
    p \in DOMAIN descriptors \ loaded /\ \A q \in DOMAIN descriptors \ loaded : p <= q

LoadDescriptor(p) ==
    /\ dispatch = "load" /\ NextFile(p)
    /\ DescriptorAdmitted(descriptors[p])
    /\ loaded' = loaded \cup {p}
    /\ UNCHANGED <<descriptors, call, dispatch, applicable, handled, handlerFailed, dispatchExit>>

\* Mutant: the first fitting rule of a packet is taken.
SelectFirstHandlers ==
    /\ dispatch = "load" /\ loaded = DOMAIN descriptors
    /\ \E p \in loaded : Candidates(p) # {}
    /\ applicable' = [p \in {q \in loaded : Candidates(q) # {}} |->
        descriptors[p].targets[CHOOSE i \in Candidates(p) : \A j \in Candidates(p) : i <= j]]
    /\ dispatch' = "run"
    /\ UNCHANGED <<descriptors, call, loaded, handled, handlerFailed, dispatchExit>>

Ambiguous(p) == \E i, j \in Candidates(p) : i # j

\* No packet has several fitting rules, and some packet has one.
SelectHandlers ==
    /\ dispatch = "load" /\ loaded = DOMAIN descriptors
    /\ \A p \in loaded : ~Ambiguous(p)
    /\ \E p \in loaded : Candidates(p) # {}
    /\ applicable' = [p \in {q \in loaded : Candidates(q) # {}} |->
        descriptors[p].targets[CHOOSE i \in Candidates(p) : TRUE]]
    /\ dispatch' = "run"
    /\ UNCHANGED <<descriptors, call, loaded, handled, handlerFailed, dispatchExit>>

\* A TargetDescriptorError: variables, a descriptor, no rules at all, an
\* ambiguous packet or no handler.
RefuseDispatch ==
    /\ \/ dispatch = "variables" /\ ~VariablesAdmitted(call)
       \/ /\ dispatch = "load"
          /\ \E p \in DOMAIN descriptors : NextFile(p) /\ ~DescriptorAdmitted(descriptors[p])
       \/ /\ dispatch = "load" /\ loaded = DOMAIN descriptors
          /\ \/ \A p \in loaded : Candidates(p) = {}
             \/ \E p \in loaded : Ambiguous(p)
    /\ EndDispatch(2)
    /\ UNCHANGED <<descriptors, call, loaded, applicable, handled, handlerFailed>>

\* The places of the commands of the selected rules, and their order: packet
\* by packet, and in each rule from the first command to the last.
Handlers ==
    UNION {{<<p, i>> : i \in DOMAIN applicable[p].commands} : p \in DOMAIN applicable}
Before(a, b) == a[1] < b[1] \/ (a[1] = b[1] /\ a[2] < b[2])
Due == Handlers \ DOMAIN handled

RunHandler(h) ==
    /\ dispatch = "run"
    /\ h \in Due /\ \A d \in Due : d = h \/ Before(h, d)
    /\ handled' = [d \in DOMAIN handled \cup {h} |->
        IF d = h THEN Render(applicable[h[1]].commands[h[2]], Supplied(call)) ELSE handled[d]]
    /\ dispatch' = "handler"
    /\ UNCHANGED <<descriptors, call, loaded, applicable, handlerFailed, dispatchExit>>

\* There is no such executable: the OSError of subprocess.run is not caught.
FailToStartHandler ==
    /\ dispatch = "run" /\ Due # {}
    /\ EndDispatch(1)
    /\ UNCHANGED <<descriptors, call, loaded, applicable, handled, handlerFailed>>

HandlerEnds(code) ==
    /\ dispatch = "handler"
    /\ handlerFailed' = (code # 0)
    /\ IF code = 0 THEN dispatch' = "run" /\ UNCHANGED dispatchExit ELSE EndDispatch(code)
    /\ UNCHANGED <<descriptors, call, loaded, applicable, handled>>

FinishDispatch ==
    /\ dispatch = "run" /\ Due = {}
    /\ EndDispatch(0)
    /\ UNCHANGED <<descriptors, call, loaded, applicable, handled, handlerFailed>>

DispatchStep(codes) ==
    \/ AdmitVariables
    \/ \E p \in DOMAIN descriptors : LoadDescriptor(p)
    \/ SelectHandlers \/ RefuseDispatch
    \/ (\E h \in Due : RunHandler(h)) \/ FailToStartHandler
    \/ (\E code \in codes : HandlerEnds(code)) \/ FinishDispatch
-----------------------------------------------------------------------------
\* The rules that belong to a call, read off the descriptors.
RulesFor(p) == {t \in {descriptors[p].targets[i] : i \in DOMAIN descriptors[p].targets} :
    t.name = call.target
    /\ DOMAIN Supplied(call) = DOMAIN t.accepted
    /\ \A n \in DOMAIN t.accepted : Supplied(call)[n] \in t.accepted[n]}
Owners == {p \in DOMAIN descriptors : RulesFor(p) # {}}
RuleFor(p) == CHOOSE t \in RulesFor(p) : TRUE
Wanted == UNION {{<<p, i>> : i \in DOMAIN RuleFor(p).commands} : p \in Owners}

(* Nothing is run for a call that any packet leaves open: whatever runs is *)
(* a command of the one rule of its packet, with the values of this call,  *)
(* and everything before it in the order of the packets was run as well;   *)
(* no packet is reached behind a failure, and success means that every     *)
(* owner of the target had all its commands run.                           *)
EveryOwnerOrNobody ==
    /\ DOMAIN handled # {} =>
        /\ VariablesAdmitted(call)
        /\ \A p \in DOMAIN descriptors : DescriptorAdmitted(descriptors[p])
        /\ \A p \in DOMAIN descriptors : \A t, u \in RulesFor(p) : t = u
    /\ \A h \in DOMAIN handled :
        /\ h \in Wanted
        /\ handled[h] = Render(RuleFor(h[1]).commands[h[2]], Supplied(call))
        /\ \A w \in Wanted : Before(w, h) => w \in DOMAIN handled
    /\ handlerFailed => dispatch = "ended" /\ dispatchExit # 0
    /\ (dispatch = "ended" /\ dispatchExit = 0) => Owners # {} /\ DOMAIN handled = Wanted
=============================================================================
