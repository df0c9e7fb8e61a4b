---------------------------- MODULE CycleSearch ----------------------------
(***************************************************************************)
(* validation._cycle_nodes: the depth-first search with which              *)
(* validate_catalog looks for a dependency cycle among harnesses and among *)
(* modules.  The recursion of walk is the stack of open nodes, each with   *)
(* the targets its loop has not come to; one step is one call of walk, or  *)
(* the end of one.                                                         *)
(***************************************************************************)
EXTENDS DependencyGraph, Sequences

CONSTANT Node
ASSUME NodeAssumption == Node \subseteq Nat

VARIABLES
    edges,       \* the argument; a node without a key has no targets
    candidates,  \* keys the outer loop has not come to
    visiting,    \* nodes that are open
    visited,     \* nodes that were left
    stack,       \* the open nodes, outermost first
    pending,     \* for each open node the targets still to be walked
    answer,      \* the cycle that was found, or the empty tuple
    phase        \* "searching" or "returned"

vars == <<edges, candidates, visiting, visited, stack, pending, answer, phase>>

\* validate_catalog puts no edge from a node to itself into the argument.
Init ==
    /\ edges \in [Node -> SUBSET Node]
    /\ \A n \in Node : n \notin edges[n]
    /\ candidates = {n \in Node : edges[n] # {}}
    /\ visiting = {} /\ visited = {}
    /\ stack = <<>> /\ pending = <<>>
    /\ answer = <<>> /\ phase = "searching"

Searching == phase = "searching"
Top == Len(stack)

\* walk goes into a node.
Enter(node, open) ==
    /\ visiting' = visiting \union {node}
    /\ stack' = Append(stack, node)
    /\ pending' = Append(open, edges[node])

\* The outer loop walks its next candidate, or passes over a visited one.
WalkCandidate(node) ==
    /\ Searching /\ stack = <<>>
    /\ Least(node, candidates)
    /\ candidates' = candidates \ {node}
    /\ IF node \in visited THEN UNCHANGED <<visiting, stack, pending>>
       ELSE Enter(node, pending)
    /\ UNCHANGED <<edges, visited, answer, phase>>

\* The targets of the innermost open node, when target is walked next.
WithoutTarget(target) == [pending EXCEPT ![Top] = @ \ {target}]
NextTarget(target) ==
    Searching /\ stack # <<>> /\ Least(target, pending[Top])

\* Mutant: a node that is open counts as done.
PassVisitedOrOpen(target) ==
    /\ NextTarget(target)
    /\ target \in visited \union visiting
    /\ pending' = WithoutTarget(target)
    /\ UNCHANGED <<edges, candidates, visiting, visited, stack, answer, phase>>

PassVisited(target) ==
    /\ NextTarget(target)
    /\ target \in visited
    /\ pending' = WithoutTarget(target)
    /\ UNCHANGED <<edges, candidates, visiting, visited, stack, answer, phase>>

WalkTarget(target) ==
    /\ NextTarget(target)
    /\ target \notin visited \union visiting
    /\ Enter(target, WithoutTarget(target))
    /\ UNCHANGED <<edges, candidates, visited, answer, phase>>

\* Mutant: the whole stack is reported, with the way to the cycle.
ReturnWholeStack(target) ==
    /\ NextTarget(target)
    /\ target \in visiting
    /\ answer' = Append(stack, target)
    /\ phase' = "returned"
    /\ UNCHANGED <<edges, candidates, visiting, visited, stack, pending>>

\* An open target closes a cycle; every open call hands it on.
ReturnCycle(target) ==
    /\ NextTarget(target)
    /\ target \in visiting
    /\ \E offset \in 1..Top :
           /\ stack[offset] = target
           /\ \A i \in 1..(offset - 1) : stack[i] # target
           /\ answer' = Append(SubSeq(stack, offset, Top), target)
    /\ phase' = "returned"
    /\ UNCHANGED <<edges, candidates, visiting, visited, stack, pending>>

\* All targets were walked.
Leave ==
    /\ Searching /\ stack # <<>> /\ pending[Top] = {}
    /\ stack' = SubSeq(stack, 1, Top - 1)
    /\ pending' = SubSeq(pending, 1, Top - 1)
    /\ visiting' = visiting \ {stack[Top]}
    /\ visited' = visited \union {stack[Top]}
    /\ UNCHANGED <<edges, candidates, answer, phase>>

ReturnNone ==
    /\ Searching /\ stack = <<>> /\ candidates = {}
    /\ phase' = "returned"
    /\ UNCHANGED <<edges, candidates, visiting, visited, stack, pending, answer>>

Next ==
    \/ \E node \in Node : WalkCandidate(node)
    \/ \E target \in Node :
           PassVisited(target) \/ WalkTarget(target) \/ ReturnCycle(target)
    \/ Leave
    \/ ReturnNone

Spec == Init /\ [][Next]_vars
-----------------------------------------------------------------------------
Members(s) == {s[i] : i \in DOMAIN s}

(* The open nodes are those on the stack, and none of them was left.       *)
TypeOK ==
    /\ edges \in [Node -> SUBSET Node]
    /\ candidates \subseteq Node
    /\ stack \in Seq(Node)
    /\ pending \in Seq(SUBSET Node)
    /\ Len(pending) = Len(stack)
    /\ visiting = Members(stack)
    /\ visited \subseteq Node \ visiting
    /\ answer \in Seq(Node)
    /\ phase \in {"searching", "returned"}

(* What is reported is a cycle: each node depends on the next one, the     *)
(* last is the first, and no other occurs twice.                           *)
CycleIsReal ==
    answer # <<>> =>
        /\ Len(answer) > 2
        /\ answer[1] = answer[Len(answer)]
        /\ \A i \in 1..(Len(answer) - 1) : answer[i + 1] \in edges[answer[i]]
        /\ \A i, j \in 1..(Len(answer) - 1) : answer[i] = answer[j] => i = j

(* A search that reports nothing has missed nothing: every node can be     *)
(* installed.  This is what module Catalog assumes of an accepted catalog. *)
NothingMissed ==
    phase = "returned" /\ answer = <<>> => Residue(Node, edges) = {}
=============================================================================
