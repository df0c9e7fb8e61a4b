----------------------- MODULE DeterminismCheckProofs -----------------------
(***************************************************************************)
(* The search of _cycle_nodes is right about every graph of any size, and  *)
(* so are the two commands that rest on it, "catalog lock --check" and     *)
(* verify-determinism, about every catalog, lock and fixture and however   *)
(* these are edited meanwhile.                                             *)
(***************************************************************************)
EXTENDS DeterminismCheck, TLAPS

\* The strengthening: the stack is a path of distinct nodes; a target that was
\* taken from a loop was left or is the next node of the path; what was left
\* depends only on what was left, and nothing in it deadlocks.
Path ==
    /\ \A i \in 1..Len(stack) - 1 : stack[i + 1] \in edges[stack[i]]
    /\ \A i, j \in 1..Len(stack) : stack[i] = stack[j] => i = j
Pending ==
    \A i \in 1..Len(stack) :
        /\ pending[i] \subseteq edges[stack[i]]
        /\ \A t \in edges[stack[i]] \ pending[i] :
               t \in visited \/ (i < Len(stack) /\ t = stack[i + 1])
Left ==
    /\ \A n \in visited : edges[n] \subseteq visited
    /\ \A R \in SUBSET visited : Deadlocked(R, edges) => R = {}
ToBeWalked ==
    \A n \in Node : edges[n] # {} =>
        \/ n \in candidates \union visited
        \/ stack # <<>> /\ n = stack[1]
Answer ==
    /\ phase = "searching" => answer = <<>>
    /\ phase = "returned" /\ answer = <<>> => stack = <<>> /\ candidates = {}

NoSelfEdge == \A n \in Node : n \notin edges[n]

IInv ==
    /\ TypeOK
    /\ NoSelfEdge
    /\ Path
    /\ Pending
    /\ Left
    /\ ToBeWalked
    /\ Answer
    /\ CycleIsReal
-----------------------------------------------------------------------------
LEMMA MembersOf ==
    ASSUME NEW s \in Seq(Node), NEW n
    PROVE  n \in Members(s) <=> \E i \in 1..Len(s) : s[i] = n
BY DEF Members

LEMMA Initially == Init => IInv
<1>1. SUFFICES ASSUME Init PROVE IInv
  OBVIOUS
<1>2. TypeOK /\ NoSelfEdge
  BY <1>1 DEF Init, TypeOK, Members, NoSelfEdge
<1>3. Path /\ Pending /\ ToBeWalked /\ Answer /\ CycleIsReal
  BY <1>1 DEF Init, Path, Pending, ToBeWalked, Answer, CycleIsReal
<1>4. Left
  BY <1>1 DEF Init, Left
<1>5. QED BY <1>2, <1>3, <1>4 DEF IInv

\* A node goes onto the stack: as the first one, or as a target of the last.
LEMMA EnterPreserves ==
    ASSUME IInv, NEW node \in Node, Searching, node \notin visited \union visiting,
           NEW open \in Seq(SUBSET Node), Len(open) = Len(stack),
           \A i \in 1..Len(stack) : i < Len(stack) => open[i] = pending[i],
           stack # <<>> => /\ node \in edges[stack[Len(stack)]]
                           /\ open[Len(stack)] = pending[Len(stack)] \ {node},
           candidates' \subseteq Node,
           stack # <<>> => candidates' = candidates,
           stack = <<>> => candidates' = candidates \ {node},
           Enter(node, open), UNCHANGED <<edges, visited, answer, phase>>
    PROVE  IInv'
<1> USE DEF IInv
<1> DEFINE L == Len(stack)
<1>1. /\ stack' = Append(stack, node) /\ pending' = Append(open, edges[node])
      /\ visiting' = visiting \union {node}
      /\ edges' = edges /\ visited' = visited /\ answer' = answer /\ phase' = phase
  BY DEF Enter
<1>2. /\ stack \in Seq(Node) /\ L \in Nat /\ edges[node] \in SUBSET Node
      /\ stack' \in Seq(Node) /\ pending' \in Seq(SUBSET Node)
  BY <1>1 DEF TypeOK
<1>3. /\ Len(stack') = L + 1 /\ Len(pending') = L + 1
      /\ stack'[L + 1] = node /\ pending'[L + 1] = edges[node]
      /\ \A i \in 1..L : stack'[i] = stack[i] /\ pending'[i] = open[i]
  BY <1>1, <1>2
<1>4. \A i \in 1..L : stack[i] # node
  BY <1>2, MembersOf DEF TypeOK
<1>5. TypeOK'
  <2>1. visiting' = Members(stack')
    <3>1. \A n : n \in Members(stack') <=> n \in Members(stack) \/ n = node
      BY <1>2, <1>3, MembersOf
    <3>2. QED BY <3>1, <1>1 DEF TypeOK
  <2>2. visited' \subseteq Node \ visiting'
    BY <1>1 DEF TypeOK
  <2>3. QED BY <1>1, <1>2, <1>3, <2>1, <2>2 DEF TypeOK
<1>6. Path'
  <2>1. ASSUME NEW i \in 1..L PROVE stack'[i + 1] \in edges[stack'[i]]
    <3>1. CASE i = L
      BY <3>1, <1>2, <1>3
    <3>2. CASE i < L
      BY <3>2, <1>2, <1>3 DEF Path
    <3>3. QED BY <3>1, <3>2, <1>2
  <2>2. ASSUME NEW i \in 1..L + 1, NEW j \in 1..L + 1, stack'[i] = stack'[j]
        PROVE  i = j
    BY <2>2, <1>2, <1>3, <1>4 DEF Path
  <2>3. QED BY <2>1, <2>2, <1>1, <1>2, <1>3 DEF Path
<1>7. Pending'
  <2>1. ASSUME NEW i \in 1..L + 1
        PROVE  /\ pending'[i] \subseteq edges[stack'[i]]
               /\ \A t \in edges[stack'[i]] \ pending'[i] :
                      t \in visited \/ (i < L + 1 /\ t = stack'[i + 1])
    <3>1. CASE i = L + 1
      BY <3>1, <1>3
    <3>2. CASE i = L
      <4>1. pending'[i] = pending[L] \ {node} /\ stack'[i + 1] = node /\ stack # <<>>
        BY <3>2, <1>2, <1>3
      <4>2. /\ pending[L] \subseteq edges[stack[L]]
            /\ \A t \in edges[stack[L]] \ pending[L] : t \in visited
        BY <3>2, <2>1, <1>2 DEF Pending
      <4>3. QED BY <4>1, <4>2, <3>2, <1>2, <1>3
    <3>3. CASE i < L
      <4>1. i \in 1..L /\ i + 1 \in 1..L
        BY <3>3, <1>2
      <4>2. pending'[i] = pending[i] /\ stack'[i] = stack[i] /\ stack'[i + 1] = stack[i + 1]
        BY <3>3, <4>1, <1>2, <1>3
      <4>3. QED BY <3>3, <4>1, <4>2 DEF Pending
    <3>4. QED BY <3>1, <3>2, <3>3, <1>2
  <2>2. QED BY <2>1, <1>1, <1>2, <1>3 DEF Pending
<1>8. Left' /\ NoSelfEdge'
  BY <1>1 DEF Left, NoSelfEdge, Deadlocked
<1>9. ToBeWalked'
  <2>1. CASE stack = <<>>
    BY <2>1, <1>1, <1>2, <1>3 DEF ToBeWalked
  <2>2. CASE stack # <<>>
    BY <2>2, <1>1, <1>2, <1>3 DEF ToBeWalked
  <2>3. QED BY <2>1, <2>2
<1>10. Answer' /\ CycleIsReal'
  BY <1>1 DEF Answer, CycleIsReal, Searching
<1>11. QED BY <1>5, <1>6, <1>7, <1>8, <1>9, <1>10

LEMMA CandidatePreserves ==
    ASSUME IInv, NEW node \in Node, WalkCandidate(node) PROVE IInv'
<1> USE DEF IInv
<1>1. /\ Searching /\ stack = <<>> /\ candidates' = candidates \ {node}
      /\ UNCHANGED <<edges, visited, answer, phase>>
  BY DEF WalkCandidate
<1>2. Len(stack) = 0 /\ visiting = {}
  BY <1>1 DEF TypeOK, Members
<1>3. CASE node \in visited
  <2>1. UNCHANGED <<visiting, stack, pending>>
    BY <1>3 DEF WalkCandidate
  <2>2. TypeOK'
    BY <2>1, <1>1 DEF TypeOK, Members
  <2>3. Path' /\ Pending' /\ NoSelfEdge'
    BY <2>1, <1>1, <1>2 DEF Path, Pending, NoSelfEdge
  <2>4. Left'
    BY <1>1 DEF Left, Deadlocked
  <2>5. ToBeWalked' /\ Answer' /\ CycleIsReal'
    BY <2>1, <1>1, <1>3 DEF ToBeWalked, Answer, CycleIsReal, Searching
  <2>6. QED BY <2>2, <2>3, <2>4, <2>5
<1>4. CASE node \notin visited
  <2>1. Enter(node, pending)
    BY <1>4 DEF WalkCandidate
  <2>2. pending \in Seq(SUBSET Node) /\ Len(pending) = Len(stack)
        /\ candidates' \subseteq Node
    BY <1>1 DEF TypeOK
  <2>3. QED BY <2>1, <2>2, <1>1, <1>2, <1>4, EnterPreserves
<1>5. QED BY <1>3, <1>4

\* The innermost loop goes on to its next target.
LEMMA NextTargetIs ==
    ASSUME IInv, NEW target \in Node, NextTarget(target)
    PROVE  /\ Searching /\ Len(stack) \in Nat \ {0}
           /\ target \in pending[Len(stack)]
           /\ target \in edges[stack[Len(stack)]]
           /\ WithoutTarget(target) \in Seq(SUBSET Node)
           /\ Len(WithoutTarget(target)) = Len(stack)
           /\ WithoutTarget(target)[Len(stack)] = pending[Len(stack)] \ {target}
           /\ \A i \in 1..Len(stack) :
                  i < Len(stack) => WithoutTarget(target)[i] = pending[i]
<1> USE DEF IInv
<1>1. Searching /\ stack # <<>> /\ target \in pending[Len(stack)]
  BY DEF NextTarget, Least, Top
<1>2. /\ stack \in Seq(Node) /\ pending \in Seq(SUBSET Node)
      /\ Len(pending) = Len(stack) /\ Len(stack) \in Nat \ {0}
  BY <1>1 DEF TypeOK
<1>3. target \in edges[stack[Len(stack)]]
  BY <1>1, <1>2 DEF Pending
<1>4. QED BY <1>1, <1>2, <1>3 DEF WithoutTarget, Top

LEMMA PassPreserves ==
    ASSUME IInv, NEW target \in Node, PassVisited(target) PROVE IInv'
<1> USE DEF IInv
<1> DEFINE L == Len(stack)
<1>1. /\ NextTarget(target) /\ target \in visited
      /\ pending' = WithoutTarget(target)
      /\ UNCHANGED <<edges, candidates, visiting, visited, stack, answer, phase>>
  BY DEF PassVisited
<1>2. /\ L \in Nat \ {0} /\ pending' \in Seq(SUBSET Node) /\ Len(pending') = L
      /\ pending'[L] = pending[L] \ {target}
      /\ \A i \in 1..L : i < L => pending'[i] = pending[i]
  BY <1>1, NextTargetIs
<1>3. TypeOK' /\ NoSelfEdge'
  BY <1>1, <1>2 DEF TypeOK, Members, NoSelfEdge
<1>4. Path' /\ ToBeWalked' /\ CycleIsReal' /\ Answer'
  BY <1>1 DEF Path, ToBeWalked, CycleIsReal, Answer
<1>5. Left'
  BY <1>1 DEF Left, Deadlocked
<1>6. Pending'
  <2>1. ASSUME NEW i \in 1..L
        PROVE  /\ pending'[i] \subseteq edges[stack[i]]
               /\ \A t \in edges[stack[i]] \ pending'[i] :
                      t \in visited \/ (i < L /\ t = stack[i + 1])
    <3>1. CASE i = L
      BY <3>1, <1>1, <1>2 DEF Pending
    <3>2. CASE i < L
      BY <3>2, <1>2 DEF Pending
    <3>3. QED BY <3>1, <3>2, <1>2
  <2>2. QED BY <2>1, <1>1 DEF Pending
<1>7. QED BY <1>3, <1>4, <1>5, <1>6

LEMMA TargetPreserves ==
    ASSUME IInv, NEW target \in Node, WalkTarget(target) PROVE IInv'
<1>1. /\ NextTarget(target) /\ target \notin visited \union visiting
      /\ Enter(target, WithoutTarget(target))
      /\ UNCHANGED <<edges, candidates, visited, answer, phase>>
  BY DEF WalkTarget
<1>2. Len(stack) # 0 => stack # <<>>
  OBVIOUS
<1>3. candidates' \subseteq Node
  BY <1>1 DEF IInv, TypeOK
<1>4. stack # <<>>
  BY <1>1 DEF NextTarget
<1>5. QED BY <1>1, <1>3, <1>4, NextTargetIs, EnterPreserves

LEMMA CyclePreserves ==
    ASSUME IInv, NEW target \in Node, ReturnCycle(target) PROVE IInv'
<1> USE DEF IInv
<1> DEFINE L == Len(stack)
<1>1. /\ NextTarget(target) /\ phase' = "returned"
      /\ UNCHANGED <<edges, candidates, visiting, visited, stack, pending>>
  BY DEF ReturnCycle
<1>2. PICK offset \in 1..L :
        /\ stack[offset] = target
        /\ answer' = Append(SubSeq(stack, offset, L), target)
  BY DEF ReturnCycle, Top
<1>3. stack \in Seq(Node) /\ L \in Nat \ {0} /\ target \in edges[stack[L]]
  BY <1>1, NextTargetIs DEF TypeOK
<1> DEFINE K == L - offset + 1
<1>4. /\ K \in Nat \ {0}
      /\ SubSeq(stack, offset, L) \in Seq(Node)
      /\ Len(SubSeq(stack, offset, L)) = K
      /\ \A i \in 1..K : SubSeq(stack, offset, L)[i] = stack[offset + i - 1]
  BY <1>2, <1>3
<1>5. /\ answer' \in Seq(Node) /\ Len(answer') = K + 1 /\ answer'[K + 1] = target
      /\ \A i \in 1..K : answer'[i] = stack[offset + i - 1]
  BY <1>2, <1>4
<1>6. offset # L
  BY <1>2, <1>3 DEF NoSelfEdge, TypeOK
<1>7. CycleIsReal'
  <2>1. Len(answer') > 2 /\ answer'[1] = answer'[Len(answer')]
    BY <1>2, <1>3, <1>4, <1>5, <1>6
  <2>2. ASSUME NEW i \in 1..K PROVE answer'[i + 1] \in edges[answer'[i]]
    <3>1. CASE i = K
      <4>1. answer'[i] = stack[L]
        BY <3>1, <1>2, <1>3, <1>4, <1>5
      <4>2. QED BY <4>1, <3>1, <1>3, <1>5
    <3>2. CASE i < K
      <4>1. /\ answer'[i] = stack[offset + i - 1] /\ answer'[i + 1] = stack[offset + i]
            /\ offset + i - 1 \in 1..L - 1 /\ (offset + i - 1) + 1 = offset + i
        BY <3>2, <1>2, <1>3, <1>4, <1>5
      <4>2. QED BY <4>1 DEF Path
    <3>3. QED BY <3>1, <3>2, <1>4
  <2>3. ASSUME NEW i \in 1..K, NEW j \in 1..K, answer'[i] = answer'[j] PROVE i = j
    <3>1. offset + i - 1 \in 1..L /\ offset + j - 1 \in 1..L
      BY <1>2, <1>3, <1>4
    <3>2. stack[offset + i - 1] = stack[offset + j - 1]
      BY <2>3, <1>5
    <3>3. offset + i - 1 = offset + j - 1
      BY <3>1, <3>2 DEF Path
    <3>4. QED BY <3>3, <1>2, <1>3
  <2>4. Len(answer') - 1 = K
    BY <1>4, <1>5
  <2>5. QED BY <2>1, <2>2, <2>3, <2>4, <1>1 DEF CycleIsReal
<1>8. TypeOK' /\ NoSelfEdge'
  BY <1>1, <1>5 DEF TypeOK, Members, NoSelfEdge
<1>9. Path' /\ Pending' /\ ToBeWalked'
  BY <1>1 DEF Path, Pending, ToBeWalked
<1>10. Left'
  BY <1>1 DEF Left, Deadlocked
<1>11. Answer'
  BY <1>1, <1>4, <1>5 DEF Answer
<1>12. QED BY <1>7, <1>8, <1>9, <1>10, <1>11

\* A node whose targets were all left cannot be the first to deadlock.
LEMMA LeavePreserves == ASSUME IInv, Leave PROVE IInv'
<1> USE DEF IInv
<1> DEFINE L == Len(stack)
           node == stack[Len(stack)]
<1>1. /\ Searching /\ stack # <<>> /\ pending[L] = {}
      /\ stack' = SubSeq(stack, 1, L - 1) /\ pending' = SubSeq(pending, 1, L - 1)
      /\ visiting' = visiting \ {node} /\ visited' = visited \union {node}
      /\ UNCHANGED <<edges, candidates, answer, phase>>
  BY DEF Leave, Top
<1>2. /\ stack \in Seq(Node) /\ pending \in Seq(SUBSET Node) /\ Len(pending) = L
      /\ L \in Nat \ {0} /\ node \in Node
  BY <1>1 DEF TypeOK
<1>3. /\ stack' \in Seq(Node) /\ pending' \in Seq(SUBSET Node)
      /\ Len(stack') = L - 1 /\ Len(pending') = L - 1
      /\ \A i \in 1..L - 1 : stack'[i] = stack[i] /\ pending'[i] = pending[i]
  BY <1>1, <1>2
<1>4. edges[node] \subseteq visited
  BY <1>1, <1>2 DEF Pending
<1>5. TypeOK' /\ NoSelfEdge'
  <2>1. \A n : n \in Members(stack') <=> n \in Members(stack) /\ n # node
    <3>1. ASSUME NEW n, n \in Members(stack') PROVE n \in Members(stack) /\ n # node
      <4>1. PICK i \in 1..L - 1 : stack[i] = n
        BY <3>1, <1>2, <1>3, MembersOf
      <4>2. i \in 1..L /\ i # L
        BY <1>2
      <4>3. QED BY <4>1, <4>2, <1>2, MembersOf DEF Path
    <3>2. ASSUME NEW n, n \in Members(stack), n # node PROVE n \in Members(stack')
      <4>1. PICK i \in 1..L : stack[i] = n
        BY <3>2, <1>2, MembersOf
      <4>2. i \in 1..L - 1
        BY <4>1, <3>2, <1>2
      <4>3. QED BY <4>1, <4>2, <1>3, MembersOf
    <3>3. QED BY <3>1, <3>2
  <2>2. visiting' = Members(stack')
    BY <2>1, <1>1 DEF TypeOK
  <2>3. visited' \subseteq Node \ visiting'
    BY <1>1, <1>2 DEF TypeOK
  <2>4. QED BY <1>1, <1>3, <2>2, <2>3 DEF TypeOK, NoSelfEdge
<1>6. Path'
  BY <1>1, <1>2, <1>3 DEF Path
<1>7. Pending'
  <2>1. ASSUME NEW i \in 1..L - 1
        PROVE  /\ pending'[i] \subseteq edges[stack'[i]]
               /\ \A t \in edges[stack'[i]] \ pending'[i] :
                      t \in visited' \/ (i < L - 1 /\ t = stack'[i + 1])
    <3>1. /\ pending[i] \subseteq edges[stack[i]]
          /\ \A t \in edges[stack[i]] \ pending[i] : t \in visited \/ t = stack[i + 1]
      BY <1>2 DEF Pending
    <3>2. CASE i = L - 1
      BY <3>1, <3>2, <1>1, <1>2, <1>3
    <3>3. CASE i < L - 1
      BY <3>1, <3>3, <1>1, <1>2, <1>3
    <3>4. QED BY <3>2, <3>3, <1>2
  <2>2. QED BY <2>1, <1>1, <1>3 DEF Pending
<1>8. Left'
  <2>1. \A n \in visited' : edges[n] \subseteq visited'
    BY <1>1, <1>4 DEF Left
  <2>2. ASSUME NEW R \in SUBSET visited', Deadlocked(R, edges) PROVE R = {}
    <3>1. node \notin visited /\ node \notin edges[node]
      BY <1>2, MembersOf DEF TypeOK, NoSelfEdge
    <3>2. R \ {node} \in SUBSET visited
      BY <1>1
    <3>3. \A n \in R \ {node} : edges[n] \subseteq visited
      BY <3>2 DEF Left
    <3>4. Deadlocked(R \ {node}, edges)
      BY <2>2, <3>1, <3>3 DEF Deadlocked
    <3>5. R \ {node} = {}
      BY <3>2, <3>4 DEF Left
    <3>6. QED BY <3>1, <3>5, <2>2 DEF Deadlocked
  <2>3. QED BY <2>1, <2>2, <1>1 DEF Left
<1>9. ToBeWalked'
  <2>1. ASSUME NEW n \in Node, edges[n] # {}
        PROVE  n \in candidates \union visited' \/ (stack' # <<>> /\ n = stack'[1])
    <3>1. CASE n \in candidates \union visited
      BY <3>1, <1>1
    <3>2. CASE n = stack[1] /\ L = 1
      BY <3>2, <1>1
    <3>3. CASE n = stack[1] /\ L # 1
      BY <3>3, <1>2, <1>3
    <3>4. QED BY <3>1, <3>2, <3>3, <2>1 DEF ToBeWalked
  <2>2. QED BY <2>1, <1>1 DEF ToBeWalked
<1>10. Answer' /\ CycleIsReal'
  BY <1>1 DEF Answer, CycleIsReal, Searching
<1>11. QED BY <1>5, <1>6, <1>7, <1>8, <1>9, <1>10

LEMMA ReturnNonePreserves == ASSUME IInv, ReturnNone PROVE IInv'
<1> USE DEF IInv
<1>1. /\ stack = <<>> /\ candidates = {} /\ phase' = "returned"
      /\ UNCHANGED <<edges, candidates, visiting, visited, stack, pending, answer>>
  BY DEF ReturnNone
<1>2. TypeOK' /\ NoSelfEdge' /\ Path' /\ Pending' /\ ToBeWalked' /\ CycleIsReal'
  BY <1>1 DEF TypeOK, Members, NoSelfEdge, Path, Pending, ToBeWalked, CycleIsReal
<1>3. Left' /\ Answer'
  BY <1>1 DEF Left, Deadlocked, Answer
<1>4. QED BY <1>2, <1>3

LEMMA StutterPreserves == ASSUME IInv, UNCHANGED vars PROVE IInv'
BY DEF IInv, vars, TypeOK, Members, NoSelfEdge, Path, Pending, Left, Deadlocked,
       ToBeWalked, Answer, CycleIsReal

LEMMA SearchPreserves == IInv /\ [Next]_vars => IInv'
BY CandidatePreserves, PassPreserves, TargetPreserves, CyclePreserves,
   LeavePreserves, ReturnNonePreserves, StutterPreserves DEF Next

LEMMA Invariant == Spec => []IInv
BY SearchPreserves, Initially, PTL DEF Spec

LEMMA SilenceIsAcyclic == IInv => NothingMissed
<1>1. SUFFICES ASSUME IInv, phase = "returned", answer = <<>>
               PROVE  Residue(Node, edges) = {}
  BY DEF NothingMissed
<1>2. \A n \in Node : edges[n] # {} => n \in visited
  BY <1>1 DEF IInv, Answer, ToBeWalked
<1>3. ASSUME NEW R \in SUBSET Node, Deadlocked(R, edges) PROVE R = {}
  <2>1. R \subseteq visited
    BY <1>2, <1>3 DEF Deadlocked
  <2>2. QED BY <2>1, <1>1, <1>3 DEF IInv, Left
<1>4. QED BY <1>3 DEF Residue

\* The nodes of a reported cycle wait for each other.
LEMMA CyclesDeadlock ==
    ASSUME IInv, answer # <<>> PROVE Residue(Node, edges) # {}
<1> DEFINE R == {answer[i] : i \in 1..(Len(answer) - 1)}
<1>1. /\ answer \in Seq(Node) /\ Len(answer) \in Nat /\ Len(answer) > 2
      /\ answer[1] = answer[Len(answer)]
      /\ \A i \in 1..(Len(answer) - 1) : answer[i + 1] \in edges[answer[i]]
  BY DEF IInv, TypeOK, CycleIsReal
<1>2. R \in SUBSET Node /\ answer[1] \in R
  BY <1>1
<1>3. \A i \in 1..(Len(answer) - 1) : answer[i + 1] \in R
  <2>1. SUFFICES ASSUME NEW i \in 1..(Len(answer) - 1) PROVE answer[i + 1] \in R
    OBVIOUS
  <2>2. CASE i = Len(answer) - 1
    BY <2>2, <1>1, <1>2
  <2>3. CASE i < Len(answer) - 1
    BY <2>3, <1>1
  <2>4. QED BY <2>2, <2>3, <1>1
<1>4. Deadlocked(R, edges)
  BY <1>1, <1>3 DEF Deadlocked
<1>5. QED BY <1>2, <1>4 DEF Residue

(* The open nodes of _cycle_nodes are those on its stack, for every graph. *)
THEOREM TypeCorrect == Spec => []TypeOK
<1>1. IInv => TypeOK
  BY DEF IInv
<1>2. QED BY <1>1, Invariant, PTL

(* What _cycle_nodes reports is a cycle, for every graph.                  *)
THEOREM ReportedCyclesExist == Spec => []CycleIsReal
<1>1. IInv => CycleIsReal
  BY DEF IInv
<1>2. QED BY <1>1, Invariant, PTL

(* When _cycle_nodes reports nothing the whole graph has an installation   *)
(* order: the assumption under which compile_profile is modelled.          *)
THEOREM SilenceMeansAcyclic == Spec => []NothingMissed
BY SilenceIsAcyclic, Invariant, PTL

-----------------------------------------------------------------------------
\* The commands.  The search is inside a command's step; the other steps leave
\* it alone or begin a new one.
LEMMA SearchBegins ==
    ASSUME NEW kind \in {"harnesses", "modules"}, BeginSearch(kind)
    PROVE  IInv'
<1>1. /\ edges' = Graph(resources, kind) /\ candidates' = {n \in Node : edges'[n] # {}}
      /\ visiting' = {} /\ visited' = {} /\ stack' = <<>> /\ pending' = <<>>
      /\ answer' = <<>> /\ phase' = "searching"
  BY DEF BeginSearch
<1>2. edges' \in [Node -> SUBSET Node] /\ \A n \in Node : n \notin edges'[n]
  BY <1>1 DEF Graph
<1>3. (TypeOK /\ NoSelfEdge)'
  BY <1>1, <1>2 DEF TypeOK, Members, NoSelfEdge
<1>4. (Path /\ Pending /\ ToBeWalked /\ Answer /\ CycleIsReal)'
  BY <1>1, <1>2 DEF Path, Pending, ToBeWalked, Answer, CycleIsReal
<1>5. Left'
  BY <1>1 DEF Left
<1>6. QED BY <1>3, <1>4, <1>5 DEF IInv

LEMMA BeforeTheFirstSearch == LockInit => IInv
<1>1. SUFFICES ASSUME LockInit PROVE IInv
  OBVIOUS
<1>2. TypeOK /\ NoSelfEdge
  BY <1>1 DEF LockInit, TypeOK, Members, NoSelfEdge
<1>3. Path /\ Pending /\ ToBeWalked /\ Answer /\ CycleIsReal
  BY <1>1 DEF LockInit, Path, Pending, ToBeWalked, Answer, CycleIsReal
<1>4. Left
  BY <1>1 DEF LockInit, Left
<1>5. QED BY <1>2, <1>3, <1>4 DEF IInv

-----------------------------------------------------------------------------
\* Which step a command is at.
InStage(lockPlaces, determinismPlaces) ==
    place \in (IF command = "catalog-lock-check" THEN lockPlaces ELSE determinismPlaces)

LEMMA StepPlaces ==
    ASSUME command \in CatalogCommands, place \in 0..22,
           command = "catalog-lock-check" => place <= 10
    PROVE  /\ AtStep("fixture") => InStage({}, {1})
           /\ AtStep("load") => InStage({1}, {2})
           /\ AtStep("lock") => InStage({8}, {3})
           /\ AtStep("list") => InStage({7}, {4})
           /\ AtStep("compare") => InStage({9}, {5})
           /\ AtStep("harnesses") => InStage({2}, {6, 12})
           /\ AtStep("modules") => InStage({4}, {8, 14})
           /\ AtStep("search") => InStage({3, 5}, {7, 9, 13, 15})
           /\ AtStep("validated") => InStage({6}, {10, 16})
           /\ AtStep("compile") => InStage({}, {11, 17})
           /\ AtStep("write") => InStage({}, {18, 19})
           /\ AtStep("read-back") => InStage({}, {20})
           /\ AtStep("golden") => InStage({}, {21})
           /\ AtStep("accept") => InStage({10}, {22})
<1>1. CASE command = "catalog-lock-check"
  <2>1. place # 0 => place \in {1, 2, 3, 4, 5, 6, 7, 8, 9, 10}
    BY <1>1
  <2>2. /\ Steps(command)[1] = "load" /\ Steps(command)[2] = "harnesses"
        /\ Steps(command)[3] = "search" /\ Steps(command)[4] = "modules"
        /\ Steps(command)[5] = "search" /\ Steps(command)[6] = "validated"
        /\ Steps(command)[7] = "list" /\ Steps(command)[8] = "lock"
        /\ Steps(command)[9] = "compare" /\ Steps(command)[10] = "accept"
    BY <1>1 DEF Steps
  <2>3. QED BY <1>1, <2>1, <2>2 DEF AtStep, InStage
<1>2. CASE command # "catalog-lock-check"
  <2>1. place # 0 => place \in {1, 2, 3, 4, 5, 6, 7, 8, 9, 10, 11, 12, 13, 14, 15, 16, 17, 18, 19, 20, 21, 22}
    BY <1>2
  <2>2. /\ Steps(command)[1] = "fixture" /\ Steps(command)[2] = "load"
        /\ Steps(command)[3] = "lock" /\ Steps(command)[4] = "list"
        /\ Steps(command)[5] = "compare" /\ Steps(command)[6] = "harnesses"
        /\ Steps(command)[7] = "search" /\ Steps(command)[8] = "modules"
        /\ Steps(command)[9] = "search" /\ Steps(command)[10] = "validated"
        /\ Steps(command)[11] = "compile" /\ Steps(command)[12] = "harnesses"
        /\ Steps(command)[13] = "search" /\ Steps(command)[14] = "modules"
        /\ Steps(command)[15] = "search" /\ Steps(command)[16] = "validated"
        /\ Steps(command)[17] = "compile" /\ Steps(command)[18] = "write"
        /\ Steps(command)[19] = "write" /\ Steps(command)[20] = "read-back"
        /\ Steps(command)[21] = "golden" /\ Steps(command)[22] = "accept"
    BY <1>2 DEF Steps
  <2>3. QED BY <1>2, <2>1, <2>2 DEF AtStep, InStage
<1>3. QED BY <1>1, <1>2

CommandTypeOK ==
    /\ catalog \in Seq(Document)
    /\ lock \in [readable : BOOLEAN, entries : Seq(Document)]
    /\ resources \in Seq(Document) /\ relisted \in Seq(Document) /\ lockRead \in Seq(Document)
    /\ command \in {"none"} \cup CatalogCommands
    /\ place \in 0..22
    /\ command = "catalog-lock-check" => place <= 10
    /\ command = "none" => place = 0

\* What validate_catalog has found of the documents it was given, at each
\* step of it; before and after it there are no issues.
Clean(kind) ==
    ~SelfDependent(resources, kind) /\ Residue(Node, Graph(resources, kind)) = {}
ValidationInv ==
    /\ InStage({1, 2}, {1, 2, 3, 4, 5, 6, 12}) => issues = {}
    /\ InStage({3}, {7, 13}) =>
        /\ edges = Graph(resources, "harnesses")
        /\ issues = {} <=> ~Flawed(resources) /\ ~SelfDependent(resources, "harnesses")
    /\ InStage({4}, {8, 14}) => (issues = {} <=> ~Flawed(resources) /\ Clean("harnesses"))
    /\ InStage({5}, {9, 15}) =>
        /\ edges = Graph(resources, "modules")
        /\ issues = {} <=> /\ ~Flawed(resources) /\ Clean("harnesses")
                           /\ ~SelfDependent(resources, "modules")
    /\ InStage({6}, {10, 16}) => (issues = {} <=> Installable(resources))
    /\ InStage({7, 8, 9, 10}, {11, 17, 18, 19, 20, 21, 22}) =>
        issues = {} /\ Installable(resources)

LEMMA InstallableIsClean ==
    Installable(resources) <=> ~Flawed(resources) /\ Clean("harnesses") /\ Clean("modules")
BY DEF Installable, Clean

Proceeding ==
    {"fixture", "load", "lock", "list", "compare", "harnesses", "search", "modules",
     "validated", "compile", "write", "read-back", "golden"}

\* A command begins, goes one step on, stops, or stays where it is.
LEMMA Moves ==
    ASSUME CommandTypeOK, DeterminismNext
    PROVE  \/ /\ place = 0 /\ place' = 1 /\ command' \in CatalogCommands
              /\ issues' = {} /\ resources' = <<>> /\ relisted' = <<>> /\ lockRead' = <<>>
              /\ touched' = FALSE /\ UNCHANGED <<catalog, lock, result, determinismVars, vars>>
           \/ place # 0 /\ place' = 0 /\ command' = command
           \/ /\ place # 0 /\ place' = place + 1 /\ command' = command /\ result' = result
              /\ \E step \in Proceeding : AtStep(step)
           \/ place' = place /\ command' = command /\ result' = result
<1>1. CASE \E c \in CatalogCommands : BeginCommand(c) /\ UNCHANGED determinismVars
  BY <1>1 DEF BeginCommand
<1>2. CASE LockStep
  <2>1. \A step : AtStep(step) => place # 0
    BY DEF AtStep
  <2>2. QED BY <1>2, <2>1 DEF LockStep, LoadFile, ListFile, EndReading, RefuseDocument,
                BeginSearch, SearchStep, EndSearch, EndValidation, ReadLock, RefuseLock, Compare,
                Accept, Proceed, Stop, Proceeding
<1>3. CASE ReadFixture \/ Compile \/ WriteFile \/ FailToWrite \/ ReadBack \/ CompareGolden
  <2>1. \A step : AtStep(step) => place # 0
    BY DEF AtStep
  <2>2. QED BY <1>3, <2>1 DEF ReadFixture, Compile, WriteFile, FailToWrite, ReadBack,
                CompareGolden, Proceed, Stop, Proceeding
<1>4. CASE EditCatalogFile \/ UpdateLock \/ EditFixture
  BY <1>4 DEF EditCatalogFile, UpdateLock, EditFixture, lockVars
<1>5. QED BY <1>1, <1>2, <1>3, <1>4 DEF DeterminismNext, DeterminismStep

\* One more file of the catalog.
LEMMA NextDocument ==
    ASSUME CommandTypeOK, NEW documents \in Seq(Document), Readable(documents)
    PROVE  /\ OneMore(documents) \in Seq(Document)
           /\ Len(OneMore(documents)) = Len(documents) + 1
           /\ OneMore(documents)[Len(documents) + 1] = catalog[Len(documents) + 1]
           /\ catalog[Len(documents) + 1].readable
           /\ \A i \in 1..Len(documents) : OneMore(documents)[i] = documents[i]
<1>1. Len(documents) \in Nat /\ Len(catalog) \in Nat /\ Len(documents) < Len(catalog)
  BY DEF CommandTypeOK, Readable
<1>2. catalog[Len(documents) + 1] \in Document
  BY <1>1 DEF CommandTypeOK
<1>3. QED BY <1>1, <1>2 DEF OneMore, Readable

\* The last step of a command does not proceed.
LEMMA StepsEnd ==
    ASSUME CommandTypeOK, place # 0, NEW step \in Proceeding, AtStep(step)
    PROVE  place + 1 <= 22 /\ (command = "catalog-lock-check" => place + 1 <= 10)
<1>1. /\ command \in CatalogCommands /\ place \in 0..22
      /\ command = "catalog-lock-check" => place <= 10
  BY DEF CommandTypeOK
<1>2. /\ command = "catalog-lock-check" => place <= 9
      /\ command # "catalog-lock-check" => place <= 21
  BY <1>1, StepPlaces DEF Proceeding, InStage
<1>3. QED BY <1>1, <1>2

LEMMA CommandTypeKept ==
    ASSUME CommandTypeOK, [DeterminismNext]_<<lockVars, determinismVars, vars>>
    PROVE  CommandTypeOK'
<1>1. CASE UNCHANGED <<lockVars, determinismVars, vars>>
  BY <1>1 DEF lockVars, tree, reading, CommandTypeOK
<1>2. CASE DeterminismNext
  <2>1. /\ command' \in {"none"} \cup CatalogCommands /\ place' \in 0..22
        /\ command' = "catalog-lock-check" => place' <= 10
        /\ command' = "none" => place' = 0
    <3>1. /\ command \in {"none"} \cup CatalogCommands /\ place \in 0..22
          /\ command = "catalog-lock-check" => place <= 10
          /\ command = "none" => place = 0
      BY DEF CommandTypeOK
    <3>2. CASE place' = 1 /\ command' \in CatalogCommands
      BY <3>2 DEF CatalogCommands
    <3>3. CASE place # 0 /\ place' = 0 /\ command' = command
      BY <3>1, <3>3
    <3>4. CASE /\ place # 0 /\ place' = place + 1 /\ command' = command
               /\ \E step \in Proceeding : AtStep(step)
      <4>1. place + 1 <= 22 /\ (command = "catalog-lock-check" => place + 1 <= 10)
        BY <3>4, StepsEnd
      <4>2. QED BY <3>1, <3>4, <4>1
    <3>5. CASE place' = place /\ command' = command
      BY <3>1, <3>5
    <3>6. QED BY <1>2, <3>2, <3>3, <3>4, <3>5, Moves
  <2>2. catalog' \in Seq(Document)
    <3>1. CASE EditCatalogFile
      BY <3>1, CatalogFilesAssumption DEF EditCatalogFile, CommandTypeOK
    <3>2. CASE UNCHANGED catalog
      BY <3>2 DEF CommandTypeOK
    <3>3. EditCatalogFile \/ UNCHANGED catalog
      BY <1>2 DEF DeterminismNext, DeterminismStep, LockStep, BeginCommand, LoadFile, ListFile,
           EndReading, RefuseDocument, BeginSearch, SearchStep, EndSearch, EndValidation, ReadLock,
           RefuseLock, Compare, Accept, ReadFixture, Compile, WriteFile, FailToWrite, ReadBack,
           CompareGolden, UpdateLock, EditFixture, lockVars, tree
    <3>4. QED BY <3>1, <3>2, <3>3
  <2>3. lock' \in [readable : BOOLEAN, entries : Seq(Document)]
    <3>1. CASE UpdateLock
      <4>1. /\ lock \in [readable : BOOLEAN, entries : Seq(Document)]
            /\ catalog \in Seq(Document)
        BY DEF CommandTypeOK
      <4>2. [readable |-> TRUE, entries |-> catalog] \in [readable : BOOLEAN, entries : Seq(Document)]
        BY <4>1
      <4>3. [lock EXCEPT !.readable = FALSE] \in [readable : BOOLEAN, entries : Seq(Document)]
        BY <4>1
      <4>4. QED BY <3>1, <4>2, <4>3 DEF UpdateLock
    <3>2. CASE UNCHANGED lock
      BY <3>2 DEF CommandTypeOK
    <3>3. UpdateLock \/ UNCHANGED lock
      BY <1>2 DEF DeterminismNext, DeterminismStep, LockStep, BeginCommand, LoadFile, ListFile,
           EndReading, RefuseDocument, BeginSearch, SearchStep, EndSearch, EndValidation, ReadLock,
           RefuseLock, Compare, Accept, ReadFixture, Compile, WriteFile, FailToWrite, ReadBack,
           CompareGolden, EditCatalogFile, EditFixture, lockVars, tree
    <3>4. QED BY <3>1, <3>2, <3>3
  <2>4. /\ resources' \in Seq(Document) /\ relisted' \in Seq(Document)
        /\ lockRead' \in Seq(Document)
    <3>1. CASE LoadFile \/ ListFile
      BY <3>1, NextDocument DEF LoadFile, ListFile, CommandTypeOK
    <3>2. CASE ReadLock
      BY <3>2 DEF ReadLock, CommandTypeOK
    <3>3. CASE \E c \in CatalogCommands : BeginCommand(c)
      BY <3>3 DEF BeginCommand
    <3>4. CASE UNCHANGED reading
      BY <3>4 DEF reading, CommandTypeOK
    <3>5. \/ LoadFile \/ ListFile \/ ReadLock \/ UNCHANGED reading
          \/ \E c \in CatalogCommands : BeginCommand(c)
      BY <1>2 DEF DeterminismNext, DeterminismStep, LockStep, EndReading, RefuseDocument,
           BeginSearch, SearchStep, EndSearch, EndValidation, RefuseLock, Compare, Accept,
           ReadFixture, Compile, WriteFile, FailToWrite, ReadBack, CompareGolden,
           EditCatalogFile, UpdateLock, EditFixture, lockVars
    <3>6. QED BY <3>1, <3>2, <3>3, <3>4, <3>5
  <2>5. QED BY <2>1, <2>2, <2>3, <2>4 DEF CommandTypeOK
<1>3. QED BY <1>1, <1>2

LEMMA SameDocuments ==
    ASSUME resources' = resources
    PROVE  /\ Flawed(resources)' = Flawed(resources)
           /\ Installable(resources)' = Installable(resources)
           /\ \A kind : /\ SelfDependent(resources, kind)' = SelfDependent(resources, kind)
                        /\ Graph(resources, kind)' = Graph(resources, kind)
                        /\ Clean(kind)' = Clean(kind)
BY DEF Flawed, Installable, SelfDependent, Graph, EdgesIn, Clean, Residue, Deadlocked

\* Steps that look at the documents no more than the step before.
LEMMA ValidationUntouched ==
    ASSUME ValidationInv, UNCHANGED <<command, resources, issues, edges>>,
           \/ place' = place
           \/ /\ place' = place + 1
              /\ InStage({1, 7, 8, 9}, {1, 2, 3, 4, 5, 11, 17, 18, 19, 20, 21})
    PROVE  ValidationInv'
<1>1. CASE place' = place
  BY <1>1, SameDocuments DEF ValidationInv, InStage
<1>2. CASE place' = place + 1 /\ InStage({1}, {1, 2, 3, 4, 5, 11})
  <2>1. issues' = {} /\ InStage({2}, {2, 3, 4, 5, 6, 12})'
    BY <1>2 DEF ValidationInv, InStage
  <2>2. QED BY <2>1 DEF ValidationInv, InStage
<1>3. CASE place' = place + 1 /\ InStage({7, 8, 9}, {17, 18, 19, 20, 21})
  <2>1. /\ issues' = {} /\ Installable(resources)'
        /\ InStage({8, 9, 10}, {18, 19, 20, 21, 22})'
    BY <1>3, SameDocuments DEF ValidationInv, InStage
  <2>2. QED BY <2>1 DEF ValidationInv, InStage
<1>4. QED BY <1>1, <1>2, <1>3 DEF InStage

LEMMA BeginSearchKeepsValidation ==
    ASSUME ValidationInv, CommandTypeOK, NEW kind \in {"harnesses", "modules"}, BeginSearch(kind)
    PROVE  ValidationInv'
<1>1. /\ place' = place + 1 /\ command' = command /\ resources' = resources
      /\ edges' = Graph(resources, kind)
      /\ issues' = {} <=> /\ issues = {} /\ ~SelfDependent(resources, kind) /\ ~Flawed(resources)
  BY DEF BeginSearch, Proceed, reading
<1>2. AtStep(kind) /\ command \in CatalogCommands
  BY DEF BeginSearch, AtStep, CommandTypeOK
<1>3. CASE kind = "harnesses"
  <2>1. InStage({2}, {6, 12})
    BY <1>2, <1>3, StepPlaces DEF CommandTypeOK
  <2>2. issues = {} /\ InStage({3}, {7, 13})'
    BY <1>1, <2>1 DEF ValidationInv, InStage
  <2>3. QED BY <1>1, <1>3, <2>2, SameDocuments DEF ValidationInv, InStage
<1>4. CASE kind = "modules"
  <2>1. InStage({4}, {8, 14})
    BY <1>2, <1>4, StepPlaces DEF CommandTypeOK
  <2>2. /\ issues = {} <=> ~Flawed(resources) /\ Clean("harnesses")
        /\ InStage({5}, {9, 15})'
    BY <1>1, <2>1 DEF ValidationInv, InStage
  <2>3. QED BY <1>1, <1>4, <2>2, SameDocuments DEF ValidationInv, InStage
<1>5. QED BY <1>3, <1>4

LEMMA EndSearchKeepsValidation ==
    ASSUME ValidationInv, CommandTypeOK, IInv, EndSearch
    PROVE  ValidationInv'
<1>1. /\ place' = place + 1 /\ command' = command /\ resources' = resources /\ edges' = edges
      /\ issues' = {} <=> issues = {} /\ answer = <<>>
  BY DEF EndSearch, Proceed, reading, vars
<1>2. answer = <<>> <=> Residue(Node, edges) = {}
  BY SilenceIsAcyclic, CyclesDeadlock DEF NothingMissed, EndSearch
<1>3. InStage({3, 5}, {7, 9, 13, 15})
  BY StepPlaces DEF EndSearch, AtStep, CommandTypeOK
<1>4. CASE InStage({3}, {7, 13})
  <2>1. /\ edges = Graph(resources, "harnesses")
        /\ issues = {} <=> ~Flawed(resources) /\ ~SelfDependent(resources, "harnesses")
    BY <1>4 DEF ValidationInv
  <2>2. issues' = {} <=> ~Flawed(resources) /\ Clean("harnesses")
    BY <1>1, <1>2, <2>1 DEF Clean
  <2>3. InStage({4}, {8, 14})'
    BY <1>1, <1>4 DEF InStage
  <2>4. Flawed(resources)' = Flawed(resources) /\ Clean("harnesses")' = Clean("harnesses")
    BY <1>1, SameDocuments
  <2>5. (issues = {} <=> ~Flawed(resources) /\ Clean("harnesses"))'
    BY <2>2, <2>4
  <2>6. QED BY <2>3, <2>5 DEF ValidationInv, InStage
<1>5. CASE InStage({5}, {9, 15})
  <2>1. /\ edges = Graph(resources, "modules")
        /\ issues = {} <=> /\ ~Flawed(resources) /\ Clean("harnesses")
                           /\ ~SelfDependent(resources, "modules")
    BY <1>5 DEF ValidationInv
  <2>2. issues' = {} <=> Installable(resources)
    BY <1>1, <1>2, <2>1, InstallableIsClean DEF Clean
  <2>3. InStage({6}, {10, 16})'
    BY <1>1, <1>5 DEF InStage
  <2>4. (issues = {} <=> Installable(resources))'
    BY <1>1, <2>2, SameDocuments
  <2>5. QED BY <2>3, <2>4 DEF ValidationInv, InStage
<1>6. QED BY <1>3, <1>4, <1>5 DEF InStage

LEMMA EndValidationKeeps ==
    ASSUME ValidationInv, CommandTypeOK, EndValidation
    PROVE  ValidationInv'
<1>1. InStage({6}, {10, 16}) /\ UNCHANGED <<resources, issues, command>>
  BY StepPlaces DEF EndValidation, AtStep, CommandTypeOK, Proceed, Stop, reading
<1>2. CASE issues = {}
  <2>1. Installable(resources) /\ place' = place + 1
    BY <1>1, <1>2 DEF ValidationInv, EndValidation, Proceed
  <2>2. InStage({7}, {11, 17})'
    BY <1>1, <2>1 DEF InStage
  <2>3. QED BY <1>1, <1>2, <2>1, <2>2, SameDocuments DEF ValidationInv, InStage
<1>3. CASE issues # {}
  BY <1>3 DEF EndValidation, Stop, ValidationInv, InStage
<1>4. QED BY <1>2, <1>3

LEMMA ValidationKept ==
    ASSUME ValidationInv, CommandTypeOK, IInv,
           [DeterminismNext]_<<lockVars, determinismVars, vars>>
    PROVE  ValidationInv'
<1>1. CASE UNCHANGED <<lockVars, determinismVars, vars>> \/ EditCatalogFile \/ UpdateLock \/ EditFixture
  BY <1>1, ValidationUntouched
     DEF lockVars, tree, reading, vars, EditCatalogFile, UpdateLock, EditFixture
<1>2. CASE place' = 0
  BY <1>2 DEF ValidationInv, InStage
<1>3. CASE \E c \in CatalogCommands : BeginCommand(c)
  BY <1>3 DEF BeginCommand, ValidationInv, InStage
<1>4. CASE LoadFile
  <2>1. InStage({1}, {2}) /\ UNCHANGED <<place, command, issues>>
    BY <1>4, StepPlaces DEF LoadFile, AtStep, CommandTypeOK
  <2>2. QED BY <2>1 DEF ValidationInv, InStage
<1>5. CASE ListFile
  BY <1>5, ValidationUntouched DEF ListFile, vars
<1>6. CASE SearchStep
  <2>1. edges' = edges
    BY <1>6 DEF SearchStep, Next, WalkCandidate, PassVisited, WalkTarget, ReturnCycle, Leave, ReturnNone
  <2>2. QED BY <1>6, <2>1, ValidationUntouched DEF SearchStep, reading
<1>7. CASE place' # 0 /\ (EndReading \/ ReadLock \/ Compare)
  <2>1. /\ InStage({1, 7, 8, 9}, {2, 3, 4, 5}) /\ place' = place + 1
        /\ UNCHANGED <<command, resources, issues, edges>>
    BY <1>7, StepPlaces DEF EndReading, ReadLock, Compare, AtStep, CommandTypeOK, Proceed, Stop,
                            reading, vars, InStage
  <2>2. QED BY <2>1, ValidationUntouched DEF InStage
<1>8. CASE place' # 0 /\ (ReadFixture \/ Compile \/ ReadBack \/ CompareGolden)
  <2>1. /\ InStage({}, {1, 11, 17, 20, 21}) /\ place' = place + 1
        /\ UNCHANGED <<command, resources, issues, edges>>
    BY <1>8, StepPlaces DEF ReadFixture, Compile, ReadBack, CompareGolden, AtStep, CommandTypeOK,
                            Proceed, Stop, reading, vars, InStage
  <2>2. QED BY <2>1, ValidationUntouched DEF InStage
<1>9. CASE WriteFile
  <2>1. /\ InStage({}, {18, 19}) /\ place' \in {place, place + 1}
        /\ UNCHANGED <<command, resources, issues, edges>>
    BY <1>9, StepPlaces DEF WriteFile, AtStep, CommandTypeOK, Proceed, reading, vars
  <2>2. QED BY <2>1, ValidationUntouched DEF InStage
<1>10. CASE RefuseDocument \/ RefuseLock \/ Accept \/ FailToWrite
  BY <1>2, <1>10 DEF RefuseDocument, RefuseLock, Accept, FailToWrite, Stop
<1>11. QED
  BY <1>1, <1>2, <1>3, <1>4, <1>5, <1>6, <1>7, <1>8, <1>9, <1>10, EndValidationKeeps,
     EndSearchKeepsValidation, BeginSearchKeepsValidation
     DEF DeterminismNext, DeterminismStep, LockStep

-----------------------------------------------------------------------------
\* The lock command, as long as nobody edits the catalog or the lock.
Begun(documents) ==
    /\ Len(documents) <= Len(catalog)
    /\ \A i \in 1..Len(documents) : documents[i] = catalog[i] /\ catalog[i].readable
AllReadable == \A i \in 1..Len(catalog) : catalog[i].readable
Acceptable ==
    /\ \A i \in DOMAIN catalog : catalog[i].readable
    /\ Installable(catalog)
    /\ lock = [readable |-> TRUE, entries |-> catalog]

LockProgress ==
    /\ place = 1 => Begun(resources)
    /\ place \in 1..7 => Begun(relisted)
    /\ place \in 2..10 => resources = catalog /\ AllReadable
    /\ place \in 8..10 => relisted = catalog
    /\ place \in 9..10 => lock.readable
    /\ place = 9 => lockRead = lock.entries
    /\ place = 10 => lock.entries = catalog
    /\ place = 0 => (result = 0 <=> Acceptable)
LockInv == command = "catalog-lock-check" /\ ~touched => LockProgress

LEMMA AcceptableIs ==
    ASSUME CommandTypeOK
    PROVE  Acceptable <=> /\ AllReadable /\ Installable(catalog)
                          /\ lock.readable /\ lock.entries = catalog
<1>1. DOMAIN catalog = 1..Len(catalog)
  BY DEF CommandTypeOK
<1>2. lock = [readable |-> TRUE, entries |-> catalog] <=> lock.readable /\ lock.entries = catalog
  BY DEF CommandTypeOK
<1>3. QED BY <1>1, <1>2 DEF Acceptable, AllReadable

LEMMA SameTree ==
    ASSUME UNCHANGED <<catalog, lock>>
    PROVE  /\ Acceptable' = Acceptable /\ AllReadable' = AllReadable
           /\ \A documents : Begun(documents)' = Begun(documents)
BY DEF Acceptable, AllReadable, Begun, Installable, Flawed, SelfDependent, EdgesIn, Graph,
       Residue, Deadlocked

LEMMA BegunAndEnded ==
    ASSUME CommandTypeOK, NEW documents \in Seq(Document), Begun(documents),
           Len(documents) = Len(catalog)
    PROVE  documents = catalog /\ AllReadable
<1>1. catalog \in Seq(Document)
  BY DEF CommandTypeOK
<1>2. documents = catalog
  BY <1>1 DEF Begun
<1>3. QED BY <1>2 DEF Begun, AllReadable

LEMMA OneMoreBegun ==
    ASSUME CommandTypeOK, NEW documents \in Seq(Document), Begun(documents), Readable(documents)
    PROVE  Begun(OneMore(documents))
<1>1. Len(documents) \in Nat /\ Len(catalog) \in Nat /\ Len(documents) < Len(catalog)
  BY DEF CommandTypeOK, Readable
<1>2. Len(OneMore(documents)) <= Len(catalog)
  BY <1>1, NextDocument
<1>3. ASSUME NEW i \in 1..(Len(documents) + 1)
      PROVE  OneMore(documents)[i] = catalog[i] /\ catalog[i].readable
  <2>1. CASE i = Len(documents) + 1
    BY <2>1, NextDocument
  <2>2. CASE i \in 1..Len(documents)
    BY <2>2, NextDocument DEF Begun
  <2>3. QED BY <1>1, <2>1, <2>2
<1>4. QED BY <1>2, <1>3, NextDocument DEF Begun

LEMMA LockKept ==
    ASSUME LockInv, ValidationInv, CommandTypeOK,
           [DeterminismNext]_<<lockVars, determinismVars, vars>>
    PROVE  LockInv'
<1>1. SUFFICES ASSUME command' = "catalog-lock-check", ~touched' PROVE LockProgress'
  BY DEF LockInv
<1>2. CASE \E c \in CatalogCommands : BeginCommand(c)
  <2>1. place' = 1 /\ resources' = <<>> /\ relisted' = <<>> /\ catalog' = catalog
    BY <1>2 DEF BeginCommand
  <2>2. Begun(<<>>)
    BY DEF Begun, CommandTypeOK
  <2>3. Begun(resources)' /\ Begun(relisted)'
    BY <2>1, <2>2 DEF Begun
  <2>4. QED BY <2>1, <2>3 DEF LockProgress
<1>3. CASE UNCHANGED <<lockVars, determinismVars, vars>> \/ EditFixture
  <2>1. UNCHANGED <<lockVars>>
    BY <1>3 DEF EditFixture
  <2>2. LockProgress
    BY <1>1, <2>1 DEF LockInv, lockVars, tree
  <2>3. QED BY <2>1, <2>2, SameTree DEF lockVars, tree, reading, LockProgress, Begun
<1>4. CASE EditCatalogFile \/ UpdateLock
  BY <1>1, <1>4 DEF EditCatalogFile, UpdateLock
<1>5. CASE DeterminismStep
  <2>1. /\ command = "catalog-lock-check" /\ command \in CatalogCommands
        /\ place \in 1..10 /\ UNCHANGED <<catalog, lock, touched>>
    BY <1>1, <1>5, StepPlaces DEF CommandTypeOK, DeterminismStep, LockStep, LoadFile, ListFile,
         EndReading, RefuseDocument, BeginSearch, SearchStep, EndSearch, EndValidation, ReadLock,
         RefuseLock, Compare, Accept, ReadFixture, Compile, WriteFile, FailToWrite, ReadBack,
         CompareGolden, Proceed, Stop, CatalogCommands, AtStep, tree
  <2>2. LockProgress
    BY <1>1, <2>1 DEF LockInv
  <2>3. Acceptable' = Acceptable
    BY <2>1, SameTree
  <2>4. /\ AtStep("load") => place = 1
        /\ AtStep("list") => place = 7
        /\ AtStep("lock") => place = 8
        /\ AtStep("compare") => place = 9
        /\ AtStep("harnesses") => place = 2
        /\ AtStep("search") => place \in {3, 5}
        /\ AtStep("modules") => place = 4
        /\ AtStep("validated") => place = 6
        /\ AtStep("accept") => place = 10
        /\ ~AtStep("fixture") /\ ~AtStep("compile") /\ ~AtStep("write")
        /\ ~AtStep("read-back") /\ ~AtStep("golden")
    BY <2>1, StepPlaces DEF CommandTypeOK, InStage
  <2>5. /\ resources \in Seq(Document) /\ relisted \in Seq(Document)
    BY DEF CommandTypeOK
  <2>6. CASE LoadFile
    <3>1. place = 1 /\ place' = 1 /\ Begun(resources') /\ relisted' = relisted
      BY <2>2, <2>4, <2>5, <2>6, OneMoreBegun DEF LoadFile, LockProgress
    <3>2. Begun(resources)' /\ Begun(relisted)'
      BY <2>1, <2>2, <3>1 DEF Begun, LockProgress
    <3>3. QED BY <3>1, <3>2 DEF LockProgress
  <2>7. CASE ListFile
    <3>1. /\ place = 7 /\ place' = 7 /\ Begun(relisted') /\ resources' = resources
          /\ resources = catalog /\ AllReadable
      BY <2>2, <2>4, <2>5, <2>7, OneMoreBegun DEF ListFile, LockProgress
    <3>2. Begun(relisted)' /\ AllReadable'
      BY <2>1, <3>1 DEF Begun, AllReadable
    <3>3. QED BY <2>1, <3>1, <3>2 DEF LockProgress
  <2>8. CASE EndReading
    <3>1. /\ place' = place + 1 /\ UNCHANGED <<resources, relisted>>
          /\ AllReadable' = AllReadable /\ (Begun(relisted) => Begun(relisted)')
      BY <2>1, <2>8, SameTree DEF EndReading, Proceed, reading, Begun
    <3>2. CASE place = 1
      <4>1. Len(resources) = Len(catalog)
        BY <2>4, <2>8, <3>2 DEF EndReading
      <4>2. resources = catalog /\ AllReadable
        BY <2>2, <2>5, <3>2, <4>1, BegunAndEnded DEF LockProgress
      <4>3. QED BY <2>1, <2>2, <3>1, <3>2, <4>2 DEF LockProgress
    <3>3. CASE place = 7
      <4>1. Len(relisted) = Len(catalog)
        BY <2>4, <2>8, <3>3 DEF EndReading
      <4>2. relisted = catalog /\ AllReadable
        BY <2>2, <2>5, <3>3, <4>1, BegunAndEnded DEF LockProgress
      <4>3. QED BY <2>1, <2>2, <3>1, <3>3, <4>2 DEF LockProgress
    <3>4. QED BY <2>4, <2>8, <3>2, <3>3 DEF EndReading
  <2>9. CASE RefuseDocument
    <3>1. PICK documents \in Seq(Document) : Len(documents) < Len(catalog) /\ ~Readable(documents)
      BY <2>5, <2>9 DEF RefuseDocument
    <3>2. Len(documents) + 1 \in 1..Len(catalog) /\ ~catalog[Len(documents) + 1].readable
      BY <3>1 DEF Readable, CommandTypeOK
    <3>3. ~Acceptable
      BY <3>2, AcceptableIs DEF AllReadable
    <3>4. place' = 0 /\ result' = 1
      BY <2>1, <2>9 DEF RefuseDocument, Stop, ErrorStatus
    <3>5. QED BY <2>3, <3>3, <3>4 DEF LockProgress
  <2>10. CASE (\E kind \in {"harnesses", "modules"} : BeginSearch(kind)) \/ EndSearch \/ SearchStep
    <3>1. /\ place \in 2..5 /\ place' \in {place, place + 1} /\ place' \in 2..6
          /\ UNCHANGED <<resources, relisted>>
      BY <2>4, <2>10 DEF BeginSearch, EndSearch, SearchStep, Proceed, reading
    <3>2. AllReadable' /\ resources = catalog /\ Begun(relisted)'
      BY <2>1, <2>2, <3>1 DEF LockProgress, AllReadable, Begun
    <3>3. QED BY <2>1, <3>1, <3>2 DEF LockProgress
  <2>11. CASE EndValidation
    <3>1. /\ place = 6 /\ UNCHANGED <<resources, relisted>>
          /\ resources = catalog /\ AllReadable /\ Begun(relisted)
      BY <2>2, <2>4, <2>11 DEF EndValidation, reading, LockProgress
    <3>2. issues = {} <=> Installable(catalog)
      BY <2>1, <3>1 DEF ValidationInv, InStage
    <3>3. CASE issues = {}
      <4>1. place' = 7 /\ AllReadable' /\ Begun(relisted)'
        BY <2>1, <2>11, <3>1, <3>3 DEF EndValidation, Proceed, AllReadable, Begun
      <4>2. QED BY <2>1, <3>1, <4>1 DEF LockProgress
    <3>4. CASE issues # {}
      <4>1. place' = 0 /\ result' = 1
        BY <2>11, <3>4 DEF EndValidation, Stop
      <4>2. ~Acceptable
        BY <3>2, <3>4, AcceptableIs
      <4>3. QED BY <2>3, <4>1, <4>2 DEF LockProgress
    <3>5. QED BY <3>3, <3>4
  <2>12. CASE ReadLock
    <3>1. /\ place = 8 /\ place' = 9 /\ UNCHANGED <<resources, relisted>>
          /\ lock.readable /\ lockRead' = lock.entries
      BY <2>4, <2>12 DEF ReadLock, Proceed
    <3>2. resources = catalog /\ AllReadable' /\ relisted = catalog
      BY <2>1, <2>2, <3>1 DEF LockProgress, AllReadable
    <3>3. QED BY <2>1, <3>1, <3>2 DEF LockProgress
  <2>13. CASE RefuseLock
    <3>1. place' = 0 /\ result' = 1 /\ ~lock.readable
      BY <2>13 DEF RefuseLock, Stop
    <3>2. ~Acceptable
      BY <3>1, AcceptableIs
    <3>3. QED BY <2>3, <3>1, <3>2 DEF LockProgress
  <2>14. CASE Compare
    <3>1. /\ place = 9 /\ UNCHANGED <<resources, relisted>>
          /\ resources = catalog /\ AllReadable /\ relisted = catalog
          /\ lock.readable /\ lockRead = lock.entries
      BY <2>2, <2>4, <2>14 DEF Compare, reading, LockProgress
    <3>2. CASE lockRead = relisted
      <4>1. place' = 10 /\ AllReadable'
        BY <2>1, <2>14, <3>1, <3>2 DEF Compare, Proceed, AllReadable
      <4>2. QED BY <2>1, <3>1, <3>2, <4>1 DEF LockProgress
    <3>3. CASE lockRead # relisted
      <4>1. place' = 0 /\ result' = 1
        BY <2>14, <3>3 DEF Compare, Stop
      <4>2. ~Acceptable
        BY <3>1, <3>3, AcceptableIs
      <4>3. QED BY <2>3, <4>1, <4>2 DEF LockProgress
    <3>4. QED BY <3>2, <3>3
  <2>15. CASE Accept
    <3>1. place = 10 /\ place' = 0 /\ result' = 0
      BY <2>4, <2>15 DEF Accept, Stop
    <3>2. Acceptable
      BY <2>1, <2>2, <3>1, AcceptableIs DEF LockProgress, ValidationInv, InStage
    <3>3. QED BY <2>3, <3>1, <3>2 DEF LockProgress
  <2>16. QED
    BY <1>5, <2>4, <2>6, <2>7, <2>8, <2>9, <2>10, <2>11, <2>12, <2>13, <2>14, <2>15
       DEF DeterminismStep, LockStep, ReadFixture, Compile, WriteFile, FailToWrite, ReadBack,
           CompareGolden
<1>6. QED BY <1>2, <1>3, <1>4, <1>5 DEF DeterminismNext

\* The lock command with any edits in between: what was read counts.
ReadProgress ==
    /\ place = 10 => lockRead = relisted
    /\ place = 0 /\ result = 0 => Installable(resources) /\ lockRead = relisted
ReadInv == command = "catalog-lock-check" => ReadProgress

LEMMA ReadKept ==
    ASSUME ReadInv, ValidationInv, CommandTypeOK,
           [DeterminismNext]_<<lockVars, determinismVars, vars>>
    PROVE  ReadInv'
<1>1. SUFFICES ASSUME command' = "catalog-lock-check" PROVE ReadProgress'
  BY DEF ReadInv
<1>2. CASE \E c \in CatalogCommands : BeginCommand(c)
  BY <1>2 DEF BeginCommand, ReadProgress
<1>3. CASE \/ UNCHANGED <<lockVars, determinismVars, vars>>
           \/ EditCatalogFile \/ UpdateLock \/ EditFixture
  <2>1. UNCHANGED <<command, place, result, resources, relisted, lockRead>>
    BY <1>3 DEF lockVars, reading, EditCatalogFile, UpdateLock, EditFixture
  <2>2. QED BY <1>1, <2>1, SameDocuments DEF ReadInv, ReadProgress
<1>4. CASE DeterminismStep
  <2>1. command = "catalog-lock-check" /\ command \in CatalogCommands /\ place \in 1..10
    BY <1>1, <1>4 DEF CommandTypeOK, DeterminismStep, LockStep, LoadFile, ListFile, EndReading,
         RefuseDocument, BeginSearch, SearchStep, EndSearch, EndValidation, ReadLock,
         RefuseLock, Compare, Accept, ReadFixture, Compile, WriteFile, FailToWrite, ReadBack,
         CompareGolden, Proceed, Stop, CatalogCommands, AtStep
  <2>2. /\ \A step \in {"load", "harnesses", "search", "modules", "validated", "list", "lock"} :
               AtStep(step) => place \in 1..8
        /\ AtStep("compare") => place = 9
        /\ AtStep("accept") => place = 10
        /\ \A step \in {"fixture", "compile", "write", "read-back", "golden"} : ~AtStep(step)
    BY <2>1, StepPlaces DEF CommandTypeOK, InStage
  <2>3. CASE Compare
    <3>1. place = 9 /\ UNCHANGED <<relisted, lockRead>>
      BY <2>2, <2>3 DEF Compare, reading
    <3>2. \/ lockRead = relisted /\ place' = 10
          \/ place' = 0 /\ result' = 1
      BY <2>3, <3>1 DEF Compare, Proceed, Stop
    <3>3. QED BY <3>1, <3>2 DEF ReadProgress
  <2>4. CASE Accept
    <3>1. place = 10 /\ place' = 0 /\ UNCHANGED <<resources, relisted, lockRead>>
      BY <2>2, <2>4 DEF Accept, Stop, reading
    <3>2. lockRead = relisted
      BY <2>1, <3>1 DEF ReadInv, ReadProgress
    <3>3. Installable(resources)
      BY <2>1, <3>1 DEF ValidationInv, InStage
    <3>4. QED BY <3>1, <3>2, <3>3, SameDocuments DEF ReadProgress
  <2>5. CASE RefuseDocument \/ RefuseLock
    BY <2>1, <2>5 DEF RefuseDocument, RefuseLock, Stop, ErrorStatus, ReadProgress
  <2>6. CASE \/ LoadFile \/ ListFile \/ EndReading \/ SearchStep \/ EndSearch
             \/ EndValidation \/ ReadLock
             \/ \E kind \in {"harnesses", "modules"} : BeginSearch(kind)
    <3>1. place \in 1..8 /\ (place' \in 1..9 \/ (place' = 0 /\ result' = 1))
      BY <2>1, <2>2, <2>6 DEF LoadFile, ListFile, EndReading, SearchStep, EndSearch,
           EndValidation, ReadLock, BeginSearch, Proceed, Stop
    <3>2. QED BY <3>1 DEF ReadProgress
  <2>7. QED
    BY <1>4, <2>2, <2>3, <2>4, <2>5, <2>6 DEF DeterminismStep, LockStep, ReadFixture, Compile,
         WriteFile, FailToWrite, ReadBack, CompareGolden
<1>5. QED BY <1>2, <1>3, <1>4 DEF DeterminismNext

-----------------------------------------------------------------------------
\* verify-determinism.  Nothing is assumed of the edits: what was read counts.
Fixtures ==
    [readable : BOOLEAN, admitted : BOOLEAN, expected : {Compiled(d, d) : d \in Seq(Document)}]
FixtureInv == fixture \in Fixtures /\ fixtureRead \in Fixtures

Once == Compiled(resources, lockRead)
Agree == Visible(resources) = Visible(lockRead)
DeterminismProgress ==
    /\ place \in 2..11 => compiled = <<>>
    /\ place \in 12..17 => compiled = <<Once>>
    /\ place \in 18..22 => compiled[1] = Once /\ compiled[2] = Once
    /\ place \in 2..18 => \E n \in 0..5 : directories = <<n, 0>>
    /\ place = 19 => \E n \in 0..5 : directories = <<6, n>>
    /\ place \in 20..22 => directories = <<6, 6>>
    /\ place = 22 => Agree
    /\ place = 0 /\ result = 0 =>
        /\ Agree /\ Installable(resources)
        /\ compiled[1] = Once /\ compiled[2] = Once /\ directories = <<6, 6>>
DeterminismInv == command = "verify-determinism" => DeterminismProgress

LEMMA SameReading ==
    ASSUME UNCHANGED <<resources, lockRead>>
    PROVE  Once' = Once /\ Agree' = Agree /\ Installable(resources)' = Installable(resources)
BY SameDocuments DEF Once, Agree, Compiled, Visible, EdgesIn

LEMMA GoldenMatches ==
    ASSUME NEW d, SameOutputs(Once, Compiled(d, d)) PROVE Agree
<1>1. DOMAIN OutputNames = 1..6 /\ OutputNames[1] = "profile.json"
  BY DEF OutputNames
<1>2. OutputFile(1, Once) = OutputFile(1, Compiled(d, d))
  BY <1>1 DEF SameOutputs
<1>3. <<Once.shows, Once.digest>> = <<Compiled(d, d).shows, Compiled(d, d).digest>>
  BY <1>1, <1>2 DEF OutputFile
<1>4. Visible(resources) = Visible(d) /\ lockRead = d
  BY <1>3 DEF Once, Compiled
<1>5. QED BY <1>4 DEF Agree

LEMMA AgreeingGraphs ==
    ASSUME Agree, NEW kind \in {"harnesses", "modules"}
    PROVE  Graph(resources, kind) = Graph(lockRead, kind)
<1>1. Visible(resources)[kind] = Visible(lockRead)[kind]
  BY DEF Agree
<1>2. EdgesIn(resources, kind) = EdgesIn(lockRead, kind)
  BY <1>1 DEF Visible
<1>3. QED BY <1>2 DEF Graph

LEMMA FixtureKept ==
    ASSUME FixtureInv, CommandTypeOK, [DeterminismNext]_<<lockVars, determinismVars, vars>>
    PROVE  FixtureInv'
<1>1. CASE EditFixture
  <2>1. CASE fixture' = Golden(catalog)
    BY <1>1, <2>1 DEF EditFixture, FixtureInv, Fixtures, Golden, CommandTypeOK
  <2>2. CASE fixture' \in {[fixture EXCEPT !.readable = FALSE], [fixture EXCEPT !.admitted = FALSE]}
    BY <1>1, <2>2 DEF EditFixture, FixtureInv, Fixtures
  <2>3. QED BY <1>1, <2>1, <2>2 DEF EditFixture
<1>2. CASE ReadFixture
  BY <1>2 DEF ReadFixture, FixtureInv
<1>3. CASE UNCHANGED <<fixture, fixtureRead>>
  BY <1>3 DEF FixtureInv
<1>4. EditFixture \/ ReadFixture \/ UNCHANGED <<fixture, fixtureRead>>
  BY DEF DeterminismNext, DeterminismStep, Compile, WriteFile, FailToWrite, ReadBack,
         CompareGolden, determinismVars
<1>5. QED BY <1>1, <1>2, <1>3, <1>4

LEMMA TwoOfThem ==
    ASSUME NEW x PROVE Append(<<x>>, x)[1] = x /\ Append(<<x>>, x)[2] = x
<1>1. <<x>> \in Seq({x}) /\ Len(<<x>>) = 1
  OBVIOUS
<1>2. QED BY <1>1

LEMMA DeterminismKept ==
    ASSUME DeterminismInv, ValidationInv, FixtureInv, CommandTypeOK,
           [DeterminismNext]_<<lockVars, determinismVars, vars>>
    PROVE  DeterminismInv'
<1>1. SUFFICES ASSUME command' = "verify-determinism" PROVE DeterminismProgress'
  BY DEF DeterminismInv
<1>2. CASE \E c \in CatalogCommands : BeginCommand(c)
  BY <1>2 DEF BeginCommand, DeterminismProgress
<1>3. CASE \/ UNCHANGED <<lockVars, determinismVars, vars>>
           \/ (EditCatalogFile \/ UpdateLock) /\ UNCHANGED determinismVars
           \/ EditFixture
  <2>1. UNCHANGED <<command, place, result, resources, lockRead, compiled, directories>>
    BY <1>3 DEF lockVars, reading, determinismVars, EditCatalogFile, UpdateLock, EditFixture
  <2>2. DeterminismProgress
    BY <1>1, <2>1 DEF DeterminismInv
  <2>3. QED BY <2>1, <2>2, SameReading DEF DeterminismProgress
<1>4. CASE DeterminismStep
  <2>1. /\ command = "verify-determinism" /\ command \in CatalogCommands /\ place \in 1..22
    BY <1>1, <1>4 DEF CommandTypeOK, DeterminismStep, LockStep, LoadFile, ListFile, EndReading,
         RefuseDocument, BeginSearch, SearchStep, EndSearch, EndValidation, ReadLock,
         RefuseLock, Compare, Accept, ReadFixture, Compile, WriteFile, FailToWrite, ReadBack,
         CompareGolden, Proceed, Stop, CatalogCommands, AtStep
  <2>2. DeterminismProgress
    BY <2>1 DEF DeterminismInv
  <2>3. /\ AtStep("fixture") => place = 1
        /\ AtStep("load") => place = 2
        /\ AtStep("lock") => place = 3
        /\ AtStep("list") => place = 4
        /\ AtStep("compare") => place = 5
        /\ AtStep("harnesses") => place \in {6, 12}
        /\ AtStep("search") => place \in {7, 9, 13, 15}
        /\ AtStep("modules") => place \in {8, 14}
        /\ AtStep("validated") => place \in {10, 16}
        /\ AtStep("compile") => place \in {11, 17}
        /\ AtStep("write") => place \in {18, 19}
        /\ AtStep("read-back") => place = 20
        /\ AtStep("golden") => place = 21
        /\ AtStep("accept") => place = 22
    BY <2>1, StepPlaces DEF CommandTypeOK, InStage
  <2>4. CASE place' = 0 /\ result' # 0
    BY <2>4 DEF DeterminismProgress
  <2>5. CASE ReadFixture /\ place' # 0
    <3>1. place' = 2 /\ compiled' = <<>> /\ directories' = <<0, 0>>
      BY <2>3, <2>5 DEF ReadFixture, Proceed, Stop
    <3>2. QED BY <3>1 DEF DeterminismProgress
  <2>6. CASE place' # 0 /\ (LoadFile \/ ListFile \/ EndReading \/ ReadLock \/ Compare)
    <3>1. /\ place \in 2..5 /\ place' \in {place, place + 1}
          /\ UNCHANGED determinismVars
      BY <1>4, <2>3, <2>6 DEF LoadFile, ListFile, EndReading, ReadLock, Compare, Proceed, Stop,
           DeterminismStep, ReadFixture, Compile, WriteFile, FailToWrite, ReadBack, CompareGolden,
           AtStep, LockStep
    <3>2. QED BY <2>2, <3>1 DEF DeterminismProgress, determinismVars
  <2>7. CASE Compile /\ place' # 0
    <3>1. /\ place \in {11, 17} /\ place' = place + 1 /\ compiled' = Append(compiled, Once)
          /\ UNCHANGED <<resources, lockRead, directories>>
      BY <2>3, <2>7 DEF Compile, Proceed, Stop, Once, reading
    <3>2. Once' = Once
      BY <3>1, SameReading
    <3>3. CASE place = 11
      <4>1. compiled' = <<Once>> /\ place' = 12
        BY <2>2, <3>1, <3>3 DEF DeterminismProgress
      <4>2. QED BY <2>2, <3>1, <3>2, <3>3, <4>1 DEF DeterminismProgress
    <3>4. CASE place = 17
      <4>1. compiled = <<Once>> /\ place' = 18
        BY <2>2, <3>1, <3>4 DEF DeterminismProgress
      <4>2. compiled'[1] = Once /\ compiled'[2] = Once
        BY <3>1, <4>1, TwoOfThem
      <4>3. QED BY <2>2, <3>1, <3>2, <3>4, <4>1, <4>2 DEF DeterminismProgress
    <3>5. QED BY <3>1, <3>3, <3>4
  <2>8. CASE WriteFile
    <3>1. /\ place \in {18, 19} /\ compiled' = compiled /\ UNCHANGED <<resources, lockRead>>
          /\ directories' = [directories EXCEPT ![Directory] = @ + 1]
          /\ place' = IF directories'[Directory] = 6 THEN place + 1 ELSE place
      BY <2>3, <2>8 DEF WriteFile, Proceed, OutputNames, reading
    <3>2. Once' = Once
      BY <3>1, SameReading
    <3>3. CASE place = 18
      <4>1. PICK n \in 0..5 : directories = <<n, 0>>
        BY <2>2, <3>3 DEF DeterminismProgress
      <4>2. Directory = 1
        BY <4>1 DEF Directory, OutputNames
      <4>3. directories' = <<n + 1, 0>> /\ place' = IF n = 5 THEN 19 ELSE 18
        BY <3>1, <3>3, <4>1, <4>2
      <4>4. place' = 18 => n + 1 \in 0..5
        BY <4>3
      <4>5. place' = 19 => directories' = <<6, 0>>
        BY <4>3
      <4>6. QED BY <2>2, <3>1, <3>2, <3>3, <4>3, <4>4, <4>5 DEF DeterminismProgress
    <3>4. CASE place = 19
      <4>1. PICK n \in 0..5 : directories = <<6, n>>
        BY <2>2, <3>4 DEF DeterminismProgress
      <4>2. Directory = 2
        BY <4>1 DEF Directory, OutputNames
      <4>3. directories' = <<6, n + 1>> /\ place' = IF n = 5 THEN 20 ELSE 19
        BY <3>1, <3>4, <4>1, <4>2
      <4>4. place' = 19 => n + 1 \in 0..5
        BY <4>3
      <4>5. place' = 20 => directories' = <<6, 6>>
        BY <4>3
      <4>6. QED BY <2>2, <3>1, <3>2, <3>4, <4>3, <4>4, <4>5 DEF DeterminismProgress
    <3>5. QED BY <3>1, <3>3, <3>4
  <2>9. CASE ReadBack /\ place' # 0
    <3>1. /\ place = 20 /\ place' = 21 /\ UNCHANGED <<resources, lockRead, compiled, directories>>
      BY <2>3, <2>9 DEF ReadBack, Proceed, Stop, reading, determinismVars
    <3>2. QED BY <2>2, <3>1, SameReading DEF DeterminismProgress
  <2>10. CASE CompareGolden /\ place' # 0
    <3>1. /\ place = 21 /\ place' = 22 /\ UNCHANGED <<resources, lockRead, compiled, directories>>
          /\ SameOutputs(compiled[1], fixtureRead.expected)
      BY <2>3, <2>10 DEF CompareGolden, Proceed, Stop, reading, determinismVars
    <3>2. compiled[1] = Once /\ compiled[2] = Once /\ directories = <<6, 6>>
      BY <2>2, <3>1 DEF DeterminismProgress
    <3>3. PICK d \in Seq(Document) : fixtureRead.expected = Compiled(d, d)
      BY DEF FixtureInv, Fixtures
    <3>4. Agree
      BY <3>1, <3>2, <3>3, GoldenMatches
    <3>5. QED BY <3>1, <3>2, <3>4, SameReading DEF DeterminismProgress
  <2>11. CASE Accept
    <3>1. /\ place = 22 /\ place' = 0 /\ UNCHANGED <<resources, lockRead>>
      BY <2>3, <2>11 DEF Accept, Stop, reading
    <3>2. UNCHANGED <<compiled, directories>>
      BY <1>4, <2>3, <3>1, <2>11
         DEF DeterminismStep, ReadFixture, Compile, WriteFile, FailToWrite, ReadBack,
             CompareGolden, determinismVars
    <3>3. Installable(resources)
      BY <2>1, <3>1 DEF ValidationInv, InStage
    <3>4. QED BY <2>2, <3>1, <3>2, <3>3, SameReading DEF DeterminismProgress
  <2>12. CASE (\E kind \in {"harnesses", "modules"} : BeginSearch(kind)) \/ EndSearch \/ SearchStep
              \/ EndValidation
    <3>1. /\ place \in (6..10) \cup (12..16) /\ place' \in {0, place, place + 1}
          /\ place' = 0 => result' = 1
          /\ UNCHANGED <<resources, lockRead>>
      BY <2>3, <2>12 DEF BeginSearch, EndSearch, SearchStep, EndValidation, Proceed, Stop, reading
    <3>2. UNCHANGED <<compiled, directories>>
      BY <1>4, <2>3, <3>1
         DEF DeterminismStep, ReadFixture, Compile, WriteFile, FailToWrite, ReadBack,
             CompareGolden, determinismVars
    <3>3. QED BY <2>2, <3>1, <3>2, SameReading DEF DeterminismProgress
  <2>13. CASE RefuseDocument \/ RefuseLock \/ FailToWrite
    BY <2>1, <2>4, <2>13 DEF RefuseDocument, RefuseLock, FailToWrite, Stop, ErrorStatus
  <2>14. (EndReading \/ ReadLock \/ Compare \/ ReadFixture \/ Compile \/ ReadBack \/ CompareGolden)
            /\ place' = 0 => result' # 0
    BY <2>1 DEF EndReading, ReadLock, Compare, ReadFixture, Compile, ReadBack, CompareGolden,
                Proceed, Stop
  <2>15. LoadFile \/ ListFile => place' # 0
    BY <2>1 DEF LoadFile, ListFile
  <2>16. QED
    BY <1>4, <2>4, <2>5, <2>6, <2>7, <2>8, <2>9, <2>10, <2>11, <2>12, <2>13, <2>14, <2>15
       DEF DeterminismStep, LockStep
<1>5. QED BY <1>2, <1>3, <1>4 DEF DeterminismNext

\* As long as nobody edits the catalog or the lock, verify-determinism compares
\* them in full as well: what it accepts is locked as it is.
UntouchedProgress ==
    /\ place \in 1..2 => Begun(resources)
    /\ place \in 1..4 => Begun(relisted)
    /\ place \in 3..22 => resources = catalog /\ AllReadable
    /\ place \in 4..22 => lock.readable /\ lockRead = lock.entries
    /\ place \in 5..22 => relisted = catalog
    /\ place \in 6..22 => lock.entries = catalog
    /\ place = 0 /\ result = 0 =>
        resources = catalog /\ AllReadable /\ lock.readable /\ lock.entries = catalog
UntouchedInv == command = "verify-determinism" /\ ~touched => UntouchedProgress

LEMMA UntouchedKept ==
    ASSUME UntouchedInv, CommandTypeOK,
           [DeterminismNext]_<<lockVars, determinismVars, vars>>
    PROVE  UntouchedInv'
<1>1. SUFFICES ASSUME command' = "verify-determinism", ~touched' PROVE UntouchedProgress'
  BY DEF UntouchedInv
<1>2. CASE \E c \in CatalogCommands : BeginCommand(c)
  <2>1. place' = 1 /\ resources' = <<>> /\ relisted' = <<>> /\ catalog' = catalog
    BY <1>2 DEF BeginCommand
  <2>2. Begun(<<>>)
    BY DEF Begun, CommandTypeOK
  <2>3. Begun(resources)' /\ Begun(relisted)'
    BY <2>1, <2>2 DEF Begun
  <2>4. QED BY <2>1, <2>3 DEF UntouchedProgress
<1>3. CASE UNCHANGED <<lockVars, determinismVars, vars>> \/ EditFixture
  <2>1. UNCHANGED <<lockVars>>
    BY <1>3 DEF EditFixture
  <2>2. UntouchedProgress
    BY <1>1, <2>1 DEF UntouchedInv, lockVars, tree
  <2>3. QED BY <2>1, <2>2, SameTree DEF lockVars, tree, reading, UntouchedProgress, Begun
<1>4. CASE EditCatalogFile \/ UpdateLock
  BY <1>1, <1>4 DEF EditCatalogFile, UpdateLock
<1>5. CASE DeterminismStep
  <2>1. /\ command = "verify-determinism" /\ command \in CatalogCommands
        /\ place \in 1..22 /\ UNCHANGED <<catalog, lock, touched>>
    BY <1>1, <1>5, StepPlaces DEF CommandTypeOK, DeterminismStep, LockStep, LoadFile, ListFile,
         EndReading, RefuseDocument, BeginSearch, SearchStep, EndSearch, EndValidation, ReadLock,
         RefuseLock, Compare, Accept, ReadFixture, Compile, WriteFile, FailToWrite, ReadBack,
         CompareGolden, Proceed, Stop, CatalogCommands, AtStep, tree
  <2>2. UntouchedProgress
    BY <1>1, <2>1 DEF UntouchedInv
  <2>3. /\ AllReadable' = AllReadable
        /\ \A documents : Begun(documents)' = Begun(documents)
    BY <2>1, SameTree
  <2>4. /\ AtStep("fixture") => place = 1
        /\ AtStep("load") => place = 2
        /\ AtStep("lock") => place = 3
        /\ AtStep("list") => place = 4
        /\ AtStep("compare") => place = 5
        /\ \A step \in {"harnesses", "search", "modules", "validated", "compile", "write",
                        "read-back", "golden", "accept"} : AtStep(step) => place \in 6..22
        /\ AtStep("accept") => place = 22
        /\ \A step \in Proceeding : AtStep(step) => place <= 21
    BY <2>1, StepPlaces DEF CommandTypeOK, InStage, Proceeding
  <2>5. /\ resources \in Seq(Document) /\ relisted \in Seq(Document)
    BY DEF CommandTypeOK
  <2>6. CASE LoadFile
    <3>1. place = 2 /\ place' = 2 /\ Begun(resources') /\ relisted' = relisted
      BY <2>2, <2>4, <2>5, <2>6, OneMoreBegun DEF LoadFile, UntouchedProgress
    <3>2. Begun(resources)' /\ Begun(relisted)'
      BY <2>1, <2>2, <3>1 DEF Begun, UntouchedProgress
    <3>3. QED BY <3>1, <3>2 DEF UntouchedProgress
  <2>7. CASE ListFile
    <3>1. /\ place = 4 /\ place' = 4 /\ Begun(relisted') /\ resources' = resources
          /\ resources = catalog /\ AllReadable /\ lock.readable /\ lockRead = lock.entries
          /\ lockRead' = lockRead
      BY <2>2, <2>4, <2>5, <2>7, OneMoreBegun DEF ListFile, UntouchedProgress
    <3>2. Begun(relisted)' /\ AllReadable'
      BY <2>1, <3>1 DEF Begun, AllReadable
    <3>3. QED BY <2>1, <3>1, <3>2 DEF UntouchedProgress
  <2>8. CASE EndReading
    <3>1. /\ place' = place + 1 /\ UNCHANGED <<resources, relisted, lockRead>>
          /\ (Begun(relisted) => Begun(relisted)')
      BY <2>1, <2>8 DEF EndReading, Proceed, reading, Begun
    <3>2. CASE place = 2
      <4>1. Len(resources) = Len(catalog)
        BY <2>4, <2>8, <3>2 DEF EndReading
      <4>2. resources = catalog /\ AllReadable
        BY <2>2, <2>5, <3>2, <4>1, BegunAndEnded DEF UntouchedProgress
      <4>3. QED BY <2>1, <2>2, <2>3, <3>1, <3>2, <4>2 DEF UntouchedProgress
    <3>3. CASE place = 4
      <4>1. Len(relisted) = Len(catalog)
        BY <2>4, <2>8, <3>3 DEF EndReading
      <4>2. relisted = catalog /\ AllReadable
        BY <2>2, <2>5, <3>3, <4>1, BegunAndEnded DEF UntouchedProgress
      <4>3. QED BY <2>1, <2>2, <2>3, <3>1, <3>3, <4>2 DEF UntouchedProgress
    <3>4. QED BY <2>4, <2>8, <3>2, <3>3 DEF EndReading
  <2>9. ASSUME place' = 0, result' # 0 PROVE UntouchedProgress'
    BY <2>9 DEF UntouchedProgress
  <2>10. CASE RefuseDocument \/ RefuseLock \/ FailToWrite
    BY <2>9, <2>10 DEF RefuseDocument, RefuseLock, FailToWrite, Stop, ErrorStatus
  <2>11. CASE ReadLock
    <3>1. /\ place = 3 /\ place' = 4 /\ UNCHANGED <<resources, relisted>>
          /\ lock.readable /\ lockRead' = lock.entries
      BY <2>4, <2>11 DEF ReadLock, Proceed
    <3>2. resources = catalog /\ AllReadable' /\ Begun(relisted)'
      BY <2>1, <2>2, <2>3, <3>1 DEF UntouchedProgress, Begun
    <3>3. QED BY <2>1, <3>1, <3>2 DEF UntouchedProgress
  <2>12. CASE Compare
    <3>1. /\ place = 5 /\ UNCHANGED <<resources, relisted, lockRead>>
          /\ resources = catalog /\ AllReadable /\ relisted = catalog
          /\ lock.readable /\ lockRead = lock.entries
      BY <2>2, <2>4, <2>12 DEF Compare, reading, UntouchedProgress
    <3>2. CASE lockRead = relisted
      <4>1. place' = 6 /\ AllReadable'
        BY <2>3, <2>12, <3>1, <3>2 DEF Compare, Proceed
      <4>2. QED BY <2>1, <3>1, <3>2, <4>1 DEF UntouchedProgress
    <3>3. CASE lockRead # relisted
      BY <2>9, <2>12, <3>3 DEF Compare, Stop, ErrorStatus
    <3>4. QED BY <3>2, <3>3
  <2>13. CASE ReadFixture
    <3>1. CASE place' = 2
      <4>1. place = 1 /\ UNCHANGED <<resources, relisted>>
        BY <2>4, <2>13 DEF ReadFixture, reading
      <4>2. Begun(resources)' /\ Begun(relisted)'
        BY <2>2, <2>3, <4>1 DEF UntouchedProgress, Begun
      <4>3. QED BY <3>1, <4>2 DEF UntouchedProgress
    <3>2. place = 1
      BY <2>4, <2>13 DEF ReadFixture
    <3>3. QED BY <2>9, <2>13, <3>1, <3>2 DEF ReadFixture, Proceed, Stop
  <2>14. ASSUME place \in 6..22, UNCHANGED <<resources, relisted, lockRead>>,
                place' \in 6..22 \/ place' = 0
         PROVE  UntouchedProgress'
    <3>1. /\ resources = catalog /\ AllReadable /\ lock.readable /\ lockRead = lock.entries
          /\ relisted = catalog /\ lock.entries = catalog
      BY <2>2, <2>14 DEF UntouchedProgress
    <3>2. QED BY <2>1, <2>3, <2>14, <3>1 DEF UntouchedProgress
  <2>15. CASE \/ \E kind \in {"harnesses", "modules"} : BeginSearch(kind)
              \/ EndSearch \/ SearchStep \/ EndValidation \/ Compile \/ WriteFile
              \/ ReadBack \/ CompareGolden \/ Accept
    <3>1. UNCHANGED <<resources, relisted, lockRead>> /\ place \in 6..22
      BY <2>4, <2>15 DEF BeginSearch, EndSearch, SearchStep, EndValidation, Compile, WriteFile,
           ReadBack, CompareGolden, Accept, reading
    <3>2. place' \in 6..22 \/ place' = 0
      <4>1. \/ place' = 0 \/ place' = place
            \/ place' = place + 1 /\ \E step \in Proceeding : AtStep(step)
        BY <2>15 DEF BeginSearch, EndSearch, SearchStep, EndValidation, Compile, WriteFile,
             ReadBack, CompareGolden, Accept, Proceed, Stop, Proceeding
      <4>2. QED BY <2>4, <3>1, <4>1
    <3>3. QED BY <2>14, <3>1, <3>2
  <2>16. QED
    BY <1>5, <2>6, <2>7, <2>8, <2>10, <2>11, <2>12, <2>13, <2>15 DEF DeterminismStep, LockStep
<1>6. QED BY <1>2, <1>3, <1>4, <1>5 DEF DeterminismNext

-----------------------------------------------------------------------------
CommandInv ==
    /\ IInv /\ CommandTypeOK /\ ValidationInv /\ LockInv /\ ReadInv
    /\ FixtureInv /\ DeterminismInv /\ UntouchedInv

LEMMA CommandsStart == DeterminismInit => CommandInv
<1>1. SUFFICES ASSUME DeterminismInit PROVE CommandInv
  OBVIOUS
<1>2. IInv
  BY <1>1, BeforeTheFirstSearch DEF DeterminismInit
<1>3. catalog \in Seq(Document) /\ lock \in [readable : BOOLEAN, entries : Seq(Document)]
  <2>1. PICK t \in Trees : catalog = t.catalog /\ lock = t.lock
    BY <1>1 DEF DeterminismInit, LockInit
  <2>2. QED BY <2>1, TreesAssumption
<1>4. CommandTypeOK
  BY <1>1, <1>3 DEF DeterminismInit, LockInit, CommandTypeOK
<1>5. ValidationInv /\ LockInv /\ ReadInv /\ DeterminismInv /\ UntouchedInv
  BY <1>1 DEF DeterminismInit, LockInit, ValidationInv, InStage, LockInv, ReadInv, DeterminismInv,
       UntouchedInv
<1>6. FixtureInv
  <2>1. Golden(catalog) \in Fixtures /\ Golden(<<>>) \in Fixtures
    <3>1. ASSUME NEW d \in Seq(Document) PROVE Golden(d) \in Fixtures
      BY DEF Golden, Fixtures
    <3>2. <<>> \in Seq(Document)
      OBVIOUS
    <3>3. QED BY <1>3, <3>1, <3>2
  <2>2. [Golden(<<>>) EXCEPT !.readable = FALSE] \in Fixtures
    BY <2>1 DEF Fixtures, Golden
  <2>3. QED BY <1>1, <2>1, <2>2 DEF DeterminismInit, FixtureInv
<1>7. QED BY <1>2, <1>4, <1>5, <1>6 DEF CommandInv

LEMMA SearchKept ==
    ASSUME IInv, [DeterminismNext]_<<lockVars, determinismVars, vars>> PROVE IInv'
<1>1. CASE \E kind \in {"harnesses", "modules"} : BeginSearch(kind)
  BY <1>1, SearchBegins
<1>2. CASE SearchStep
  BY <1>2, SearchPreserves DEF SearchStep
<1>3. CASE UNCHANGED vars
  BY <1>3, StutterPreserves
<1>4. LockStep => \/ SearchStep \/ UNCHANGED vars
                  \/ \E kind \in {"harnesses", "modules"} : BeginSearch(kind)
  BY DEF LockStep, LoadFile, ListFile, EndReading, RefuseDocument, EndSearch, EndValidation,
         ReadLock, RefuseLock, Compare, Accept
<1>5. DeterminismStep => LockStep \/ UNCHANGED vars
  BY DEF DeterminismStep, ReadFixture, Compile, WriteFile, FailToWrite, ReadBack, CompareGolden
<1>6. DeterminismStep \/ UNCHANGED vars
  BY DEF DeterminismNext, BeginCommand, EditCatalogFile, UpdateLock, EditFixture
<1>7. QED BY <1>1, <1>2, <1>3, <1>4, <1>5, <1>6

LEMMA CommandsInvariant == DeterminismSpec => []CommandInv
<1>1. ASSUME CommandInv, [DeterminismNext]_<<lockVars, determinismVars, vars>> PROVE CommandInv'
  BY <1>1, SearchKept, CommandTypeKept, ValidationKept, LockKept, ReadKept, FixtureKept,
     DeterminismKept, UntouchedKept DEF CommandInv
<1>2. QED BY <1>1, CommandsStart, PTL DEF DeterminismSpec

(* Also inside a command, where searches follow each other, a reported     *)
(* cycle is one.                                                           *)
THEOREM CommandsReportCycles == DeterminismSpec => []CycleIsReal
<1>1. CommandInv => CycleIsReal
  BY DEF CommandInv, IInv
<1>2. QED BY <1>1, CommandsInvariant, PTL

(* And a search that reports nothing has missed nothing.                   *)
THEOREM CommandsMissNothing == DeterminismSpec => []NothingMissed
<1>1. CommandInv => NothingMissed
  BY SilenceIsAcyclic DEF CommandInv
<1>2. QED BY <1>1, CommandsInvariant, PTL

(* "catalog lock --check" accepts an unedited tree exactly when its catalog *)
(* can be installed and its lock is the one of the catalog; of an edited   *)
(* one it accepts only what it read as installable and as locked.          *)
THEOREM LockVerdictsExact == DeterminismSpec => []LockVerdictExact
<1>1. CommandInv => LockVerdictExact
  BY DEF CommandInv, LockInv, LockProgress, Acceptable, ReadInv, ReadProgress, LockVerdictExact
<1>2. QED BY <1>1, CommandsInvariant, PTL

(* Whatever is edited while verify_determinism_command reads the catalog   *)
(* twice, what it accepts was compiled from the locked catalog.            *)
THEOREM AcceptedIsLocked == DeterminismSpec => []CompiledIsLocked
<1>1. CommandInv => CompiledIsLocked
  <2>1. SUFFICES ASSUME CommandInv, command = "verify-determinism", place = 0, result = 0
                 PROVE  CompiledIsLocked
    BY DEF CompiledIsLocked
  <2>2. /\ Agree /\ Installable(resources)
        /\ compiled[1] = Once /\ compiled[2] = Once /\ directories = <<6, 6>>
    BY <2>1 DEF CommandInv, DeterminismInv, DeterminismProgress
  <2>3. Once = Compiled(lockRead, lockRead)
    BY <2>2 DEF Once, Agree, Compiled
  <2>4. \A kind \in {"harnesses", "modules"} : Residue(Node, Graph(lockRead, kind)) = {}
    BY <2>2, AgreeingGraphs DEF Installable
  <2>5. Len(OutputNames) = 6
    BY DEF OutputNames
  <2>6. QED BY <2>2, <2>3, <2>4, <2>5 DEF CompiledIsLocked, Agree
<1>2. QED BY <1>1, CommandsInvariant, PTL
=============================================================================
