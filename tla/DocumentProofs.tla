--------------------------- MODULE DocumentProofs ---------------------------
(***************************************************************************)
(* Proofs about the documents that come from outside: the guidance bundles *)
(* of GuidanceBundle with the rules of GuidanceRules, for any limits, any  *)
(* documents and any edits while they are read, and the envelope of        *)
(* Compatibility, which is exact for any table of contracts that passes    *)
(* _definition_index.                                                      *)
(***************************************************************************)
EXTENDS GuidanceBundle, Compatibility,
        FiniteSetTheorems, SequenceTheorems, WellFoundedInduction, TLAPS

-----------------------------------------------------------------------------
\* The library's induction takes an operator; for a set it follows from the
\* numbers being well-founded.
LEMMA SetInduction ==
    ASSUME NEW S, 0 \in S, \A n \in Nat : n \in S => n + 1 \in S
    PROVE  Nat \subseteq S
<1> DEFINE Outside == Nat \ S
           Less == {pair \in Nat \X Nat : pair[1] < pair[2]}
<1>1. Less = OpToRel(<, Nat)
  BY DEF OpToRel
<1>2. IsWellFoundedOn(Less, Nat)
  BY <1>1, NatLessThanWellFounded
<1> SUFFICES ASSUME Outside # {} PROVE FALSE
  OBVIOUS
<1>3. PICK least \in Outside : \A other \in Outside : ~(<<other, least>> \in Less)
  <2>1. Outside \subseteq Nat /\ Outside # {}
    OBVIOUS
  <2> HIDE DEF Less, Outside
  <2> QED BY <1>2, <2>1, WFMin
<1>4. least # 0 /\ least - 1 \in Nat /\ (least - 1) + 1 = least
  <2>1. least \in Nat /\ least \notin S
    BY DEF Outside
  <2>2. least # 0
    BY <2>1
  <2>3. QED BY ONLY <2>1, <2>2
<1>5. least - 1 \in S
  <2>1. <<least - 1, least>> \in Less
    BY <1>4
  <2>2. least - 1 \notin Outside
    BY <1>3, <2>1
  <2>3. QED BY <1>4, <2>2
<1>6. (least - 1) + 1 \in S
  BY <1>4, <1>5
<1> QED BY <1>4, <1>6

\* The levels of a rule down to the n-th.
LevelsTo(r, n, levels) ==
    levels = [m \in 0..n |-> IF m = 0 THEN {Root(r)} ELSE BelowAny(levels[m - 1])]

LEMMA LevelsToAgree ==
    ASSUME NEW r, NEW n \in Nat, NEW m \in Nat, NEW g, NEW h,
           LevelsTo(r, n, g), LevelsTo(r, m, h)
    PROVE  \A k \in Nat : k <= n /\ k <= m => g[k] = h[k]
<1> DEFINE S == {k \in Nat : k <= n /\ k <= m => g[k] = h[k]}
<1>1. 0 \in S
  BY DEF LevelsTo
<1>2. ASSUME NEW k \in Nat, k \in S PROVE k + 1 \in S
  <2>1. CASE k + 1 <= n /\ k + 1 <= m
    <3>1. g[k] = h[k]
      BY <1>2, <2>1
    <3>2. /\ k + 1 \in 0..n /\ k + 1 \in 0..m /\ k + 1 # 0 /\ (k + 1) - 1 = k
      BY <2>1
    <3>3. g[k + 1] = BelowAny(g[k]) /\ h[k + 1] = BelowAny(h[k])
      BY <3>2 DEF LevelsTo
    <3>4. QED BY <3>1, <3>3
  <2>2. QED BY <2>1
<1>3. Nat \subseteq S
  <2> HIDE DEF S
  <2> QED BY <1>1, <1>2, SetInduction
<1>4. QED BY <1>3

LEMMA LevelsToExist ==
    ASSUME NEW r PROVE \A n \in Nat : \E levels : LevelsTo(r, n, levels)
<1> DEFINE S == {n \in Nat : \E levels : LevelsTo(r, n, levels)}
<1>1. 0 \in S
  <2>1. LevelsTo(r, 0, [m \in 0..0 |-> {Root(r)}])
    BY DEF LevelsTo
  <2>2. QED BY <2>1
<1>2. ASSUME NEW n \in Nat, n \in S PROVE n + 1 \in S
  <2>1. PICK g : LevelsTo(r, n, g)
    BY <1>2
  <2> DEFINE h == [m \in 0..(n + 1) |-> IF m = 0 THEN {Root(r)} ELSE BelowAny(g[m - 1])]
  <2>2. ASSUME NEW m \in 0..(n + 1), m # 0 PROVE h[m - 1] = g[m - 1]
    <3>1. m - 1 \in 0..n /\ m - 1 \in 0..(n + 1)
      BY <2>2
    <3>2. g[m - 1] = IF m - 1 = 0 THEN {Root(r)} ELSE BelowAny(g[(m - 1) - 1])
      BY <2>1, <3>1 DEF LevelsTo
    <3>3. QED BY <3>1, <3>2
  <2>3. h = [m \in 0..(n + 1) |-> IF m = 0 THEN {Root(r)} ELSE BelowAny(h[m - 1])]
    BY <2>2
  <2>4. LevelsTo(r, n + 1, h)
    BY <2>3 DEF LevelsTo
  <2>5. QED BY <2>4
<1>3. Nat \subseteq S
  <2> HIDE DEF S
  <2> QED BY <1>1, <1>2, SetInduction
<1>4. QED BY <1>3

\* The recursive definition of the levels has a solution.
LEMMA LevelsUnfold ==
    ASSUME NEW r
    PROVE  /\ Levels(r)[0] = {Root(r)}
           /\ \A n \in Nat : Levels(r)[n + 1] = BelowAny(Levels(r)[n])
<1> DEFINE To(n) == CHOOSE levels : LevelsTo(r, n, levels)
           F == [n \in Nat |-> To(n)[n]]
           Recursive(level) ==
               level = [n \in Nat |-> IF n = 0 THEN {Root(r)} ELSE BelowAny(level[n - 1])]
<1>1. \A n \in Nat : LevelsTo(r, n, To(n))
  BY LevelsToExist
<1>2. ASSUME NEW n \in Nat
      PROVE  F[n] = IF n = 0 THEN {Root(r)} ELSE BelowAny(F[n - 1])
  <2> HIDE DEF To
  <2>1. CASE n = 0
    BY <1>1, <2>1 DEF LevelsTo
  <2>2. CASE n # 0
    <3>1. n - 1 \in Nat /\ n \in 0..n
      BY <2>2
    <3>2. LevelsTo(r, n, To(n)) /\ LevelsTo(r, n - 1, To(n - 1))
      BY <1>1, <3>1
    <3>3. To(n)[n] = BelowAny(To(n)[n - 1])
      BY <2>2, <3>1, <3>2 DEF LevelsTo
    <3>4. To(n)[n - 1] = To(n - 1)[n - 1]
      BY <3>1, <3>2, LevelsToAgree
    <3>5. QED BY <2>2, <3>1, <3>3, <3>4
  <2>3. QED BY <2>1, <2>2
<1>3. Recursive(F)
  <2> HIDE DEF To
  <2> QED BY <1>2
<1>4. Levels(r) = CHOOSE level : Recursive(level)
  BY DEF Levels
<1>5. Recursive(Levels(r))
  <2> HIDE DEF F, Recursive
  <2> QED BY <1>3, <1>4
<1>6. \A n \in Nat : Levels(r)[n] = IF n = 0 THEN {Root(r)} ELSE BelowAny(Levels(r)[n - 1])
  <2> HIDE DEF Levels
  <2> QED BY <1>5
<1>7. QED
  <2>1. ASSUME NEW n \in Nat PROVE Levels(r)[n + 1] = BelowAny(Levels(r)[n])
    <3>1. n + 1 \in Nat /\ n + 1 # 0 /\ (n + 1) - 1 = n
      OBVIOUS
    <3>2. QED BY <1>6, <3>1
  <2>2. QED BY <1>6, <2>1

-----------------------------------------------------------------------------
Entry == [node : RuleNodes, path : Seq(Nat)]

LEMMA ChildPath ==
    ASSUME NEW path \in Seq(Nat), NEW i \in Nat
    PROVE  /\ Append(path, i) \in Seq(Nat) /\ Append(path, i) # <<>>
           /\ Len(Append(path, i)) = Len(path) + 1
BY AppendProperties

LEMMA SameChildPath ==
    ASSUME NEW path \in Seq(Nat), NEW i \in Nat, NEW other \in Seq(Nat), NEW j \in Nat,
           Append(path, i) = Append(other, j)
    PROVE  path = other /\ i = j
BY AppendInjective

LEMMA SubrulesTyped ==
    ASSUME NEW node \in RuleNodes PROVE Subrules(node) \in Seq(RuleNodes)
<1>1. CASE DOMAIN node = {"op", "rules"}
  <2>1. node.rules \in Seq(RuleNodes)
    BY <1>1, RuleNodesAssumption
  <2>2. Subrules(node) = node.rules
    BY <1>1 DEF Subrules
  <2>3. QED BY <2>1, <2>2
<1>2. CASE DOMAIN node = {"op", "rule"}
  <2>1. node.rule \in RuleNodes
    BY <1>2, RuleNodesAssumption
  <2>2. Subrules(node) = <<node.rule>>
    BY <1>2 DEF Subrules
  <2>3. QED BY <2>1, <2>2
<1>3. CASE DOMAIN node # {"op", "rules"} /\ DOMAIN node # {"op", "rule"}
  <2>1. Subrules(node) = <<>>
    BY <1>3 DEF Subrules
  <2>2. QED BY <2>1
<1>4. QED BY <1>1, <1>2, <1>3

LEMMA BelowTyped ==
    ASSUME NEW place \in Entry, NEW lower \in Below(place)
    PROVE  /\ lower \in Entry
           /\ Len(lower.path) = Len(place.path) + 1
           /\ lower.path # <<>>
           /\ \E i \in DOMAIN Subrules(place.node) :
                  lower = [node |-> Subrules(place.node)[i], path |-> Append(place.path, i)]
<1>1. Subrules(place.node) \in Seq(RuleNodes) /\ place.path \in Seq(Nat)
  BY SubrulesTyped DEF Entry
<1>2. PICK i \in DOMAIN Subrules(place.node) :
          lower = [node |-> Subrules(place.node)[i], path |-> Append(place.path, i)]
  BY DEF Below
<1>3. i \in Nat /\ Subrules(place.node)[i] \in RuleNodes
  BY <1>1
<1>4. /\ Append(place.path, i) \in Seq(Nat) /\ Append(place.path, i) # <<>>
      /\ Len(Append(place.path, i)) = Len(place.path) + 1
  BY <1>1, <1>3, ChildPath
<1>5. QED BY <1>2, <1>3, <1>4 DEF Entry

LEMMA BelowFinite ==
    ASSUME NEW place \in Entry PROVE IsFiniteSet(Below(place))
<1> DEFINE subrules == Subrules(place.node)
           f == [i \in 1..Len(subrules) |->
                    [node |-> subrules[i], path |-> Append(place.path, i)]]
<1>1. subrules \in Seq(RuleNodes)
  BY SubrulesTyped DEF Entry
<1>2. DOMAIN subrules = 1..Len(subrules) /\ Len(subrules) \in Nat
  BY <1>1
<1>3. f \in Surjection(1..Len(subrules), Below(place))
  <2> HIDE DEF subrules
  <2>1. Below(place) = {[node |-> subrules[i], path |-> Append(place.path, i)] :
                           i \in 1..Len(subrules)}
    BY <1>2 DEF Below, subrules
  <2>2. QED BY <2>1 DEF Surjection
<1>4. IsFiniteSet(1..Len(subrules))
  BY <1>2, FS_Interval
<1>5. QED
  <2> HIDE DEF f, subrules
  <2> QED BY <1>3, <1>4, FS_Surjection

LEMMA BelowAnyFinite ==
    ASSUME NEW places \in SUBSET Entry, IsFiniteSet(places)
    PROVE  IsFiniteSet(BelowAny(places))
<1> DEFINE lower == {Below(place) : place \in places}
           f == [place \in places |-> Below(place)]
<1>1. f \in Surjection(places, lower)
  BY DEF Surjection
<1>2. IsFiniteSet(lower)
  <2> HIDE DEF f, lower
  <2> QED BY <1>1, FS_Surjection
<1>3. \A T \in lower : IsFiniteSet(T)
  BY BelowFinite
<1>4. IsFiniteSet(UNION lower)
  <2> HIDE DEF lower
  <2> QED BY <1>2, <1>3, FS_UNION
<1>5. QED BY <1>4 DEF BelowAny

LEMMA LevelsTyped ==
    ASSUME NEW r \in RuleNodes
    PROVE  \A n \in Nat : /\ Levels(r)[n] \subseteq Entry
                          /\ IsFiniteSet(Levels(r)[n])
                          /\ \A place \in Levels(r)[n] : Len(place.path) = n
<1> DEFINE S == {n \in Nat : /\ Levels(r)[n] \subseteq Entry
                             /\ IsFiniteSet(Levels(r)[n])
                             /\ \A place \in Levels(r)[n] : Len(place.path) = n}
<1>1. 0 \in S
  <2>1. Levels(r)[0] = {Root(r)}
    BY LevelsUnfold
  <2>2. Root(r) \in Entry /\ Len(Root(r).path) = 0
    BY DEF Root, Entry
  <2>3. IsFiniteSet({} \union {Root(r)})
    BY FS_EmptySet, FS_AddElement
  <2>4. QED BY <2>1, <2>2, <2>3
<1>2. ASSUME NEW n \in Nat, n \in S PROVE n + 1 \in S
  <2>1. /\ Levels(r)[n] \subseteq Entry /\ IsFiniteSet(Levels(r)[n])
        /\ \A place \in Levels(r)[n] : Len(place.path) = n
    BY <1>2
  <2>2. Levels(r)[n + 1] = BelowAny(Levels(r)[n])
    BY LevelsUnfold
  <2>3. IsFiniteSet(Levels(r)[n + 1])
    BY <2>1, <2>2, BelowAnyFinite
  <2>4. ASSUME NEW lower \in Levels(r)[n + 1]
        PROVE  lower \in Entry /\ Len(lower.path) = n + 1
    <3>1. PICK place \in Levels(r)[n] : lower \in Below(place)
      BY <2>2 DEF BelowAny
    <3>2. QED BY <2>1, <3>1, BelowTyped
  <2>5. QED BY <2>3, <2>4
<1>3. Nat \subseteq S
  <2> HIDE DEF S
  <2> QED BY <1>1, <1>2, SetInduction
<1>4. QED BY <1>3

LEMMA PlacesFinite ==
    ASSUME NEW r \in RuleNodes PROVE IsFiniteSet(Places(r))
<1> DEFINE depths == 0..(MaxRuleDepth + MaxRuleNodes)
           levels == {Levels(r)[n] : n \in depths}
           f == [n \in depths |-> Levels(r)[n]]
<1>1. f \in Surjection(depths, levels)
  BY DEF Surjection
<1>2. IsFiniteSet(depths)
  BY RuleLimitsAssumption, FS_Interval
<1>3. IsFiniteSet(levels)
  <2> HIDE DEF f, levels, depths
  <2> QED BY <1>1, <1>2, FS_Surjection
<1>4. \A T \in levels : IsFiniteSet(T)
  <2>1. depths \subseteq Nat
    BY RuleLimitsAssumption
  <2>2. QED BY <2>1, LevelsTyped
<1>5. IsFiniteSet(UNION levels)
  <2> HIDE DEF levels
  <2> QED BY <1>3, <1>4, FS_UNION
<1>6. QED BY <1>5 DEF Places

-----------------------------------------------------------------------------
\* V has been walked from the rule r with no problem found, and U has been
\* found below it and is still to be walked.
Walked(V, r, U) ==
    /\ V \subseteq Entry /\ U \subseteq Entry /\ V \intersect U = {}
    /\ Root(r) \in V \union U
    /\ \A v \in V : Below(v) \subseteq V \union U
    /\ \A w \in V \union U : w \in Levels(r)[Len(w.path)]
    /\ \A w \in V \union U : w.path = <<>> \/ \E v \in V : w \in Below(v)
    /\ \A w, x \in V \union U : w.path = x.path => w = x
    /\ \A v \in V : InGrammar(v.node) /\ Len(v.path) <= MaxRuleDepth

\* What is below an entry that was not walked is met for the first time.
LEMMA BelowIsNew ==
    ASSUME NEW V, NEW r, NEW U, Walked(V, r, U), NEW e \in U, NEW lower \in Below(e),
           NEW w \in V \union U
    PROVE  lower.path # w.path
<1> SUFFICES ASSUME lower.path = w.path PROVE FALSE
  OBVIOUS
<1>1. V \subseteq Entry /\ e \in Entry /\ e \notin V
  BY DEF Walked
<1>2. lower.path # <<>>
  BY <1>1, BelowTyped
<1>3. PICK v \in V : w \in Below(v)
  BY <1>2 DEF Walked
<1>4. PICK i \in DOMAIN Subrules(e.node) :
          lower = [node |-> Subrules(e.node)[i], path |-> Append(e.path, i)]
  BY <1>1, BelowTyped
<1>5. PICK j \in DOMAIN Subrules(v.node) :
          w = [node |-> Subrules(v.node)[j], path |-> Append(v.path, j)]
  BY <1>1, <1>3, BelowTyped
<1>6. e.path \in Seq(Nat) /\ v.path \in Seq(Nat) /\ i \in Nat /\ j \in Nat
  <2>1. Subrules(e.node) \in Seq(RuleNodes) /\ Subrules(v.node) \in Seq(RuleNodes)
    BY <1>1, SubrulesTyped DEF Entry
  <2>2. QED BY <1>1, <2>1 DEF Entry
<1>7. Append(e.path, i) = Append(v.path, j)
  BY <1>4, <1>5
<1>8. e.path = v.path
  BY <1>6, <1>7, SameChildPath
<1>9. e = v
  BY <1>8 DEF Walked
<1>10. QED BY <1>1, <1>9

LEMMA WalkOn ==
    ASSUME NEW V, NEW r, NEW U, Walked(V, r, U), NEW e \in U,
           InGrammar(e.node), Len(e.path) <= MaxRuleDepth
    PROVE  Walked(V \union {e}, r, Below(e) \union (U \ {e}))
<1> DEFINE V2 == V \union {e}
           U2 == Below(e) \union (U \ {e})
<1>1. /\ V \subseteq Entry /\ U \subseteq Entry /\ V \intersect U = {} /\ e \in Entry
  BY DEF Walked
<1>2. V2 \union U2 = V \union U \union Below(e)
  OBVIOUS
<1>3. Below(e) \subseteq Entry /\ Below(e) \intersect (V \union U) = {}
  BY <1>1, BelowTyped, BelowIsNew
<1>4. V2 \subseteq Entry /\ U2 \subseteq Entry /\ V2 \intersect U2 = {}
  BY <1>1, <1>3
<1>5. Root(r) \in V2 \union U2 /\ \A v \in V2 : Below(v) \subseteq V2 \union U2
  BY <1>2 DEF Walked
<1>6. ASSUME NEW w \in V2 \union U2 PROVE w \in Levels(r)[Len(w.path)]
  <2>1. CASE w \in V \union U
    BY <2>1 DEF Walked
  <2>2. CASE w \in Below(e)
    <3>1. Len(w.path) = Len(e.path) + 1 /\ Len(e.path) \in Nat
      BY <1>1, <2>2, BelowTyped DEF Entry
    <3>2. e \in Levels(r)[Len(e.path)]
      BY DEF Walked
    <3>3. Levels(r)[Len(e.path) + 1] = BelowAny(Levels(r)[Len(e.path)])
      BY <3>1, LevelsUnfold
    <3>4. QED BY <2>2, <3>1, <3>2, <3>3 DEF BelowAny
  <2>3. QED BY <1>2, <2>1, <2>2
<1>7. \A w \in V2 \union U2 : w.path = <<>> \/ \E v \in V2 : w \in Below(v)
  BY <1>2 DEF Walked
<1>8. ASSUME NEW w \in V2 \union U2, NEW x \in V2 \union U2, w.path = x.path
      PROVE  w = x
  <2>1. \A y \in Below(e), z \in V \union U : y.path # z.path
    BY BelowIsNew
  <2>2. CASE w \in V \union U /\ x \in V \union U
    BY <1>8, <2>2 DEF Walked
  <2>3. CASE w \in Below(e) /\ x \in Below(e)
    <3>1. PICK i \in DOMAIN Subrules(e.node) :
              w = [node |-> Subrules(e.node)[i], path |-> Append(e.path, i)]
      BY <1>1, <2>3, BelowTyped
    <3>2. PICK j \in DOMAIN Subrules(e.node) :
              x = [node |-> Subrules(e.node)[j], path |-> Append(e.path, j)]
      BY <1>1, <2>3, BelowTyped
    <3>3. e.path \in Seq(Nat) /\ i \in Nat /\ j \in Nat
      <4>1. Subrules(e.node) \in Seq(RuleNodes)
        BY <1>1, SubrulesTyped DEF Entry
      <4>2. QED BY <1>1, <4>1 DEF Entry
    <3>4. Append(e.path, i) = Append(e.path, j)
      BY <1>8, <3>1, <3>2
    <3>5. i = j
      BY <3>3, <3>4, SameChildPath
    <3>6. QED BY <3>1, <3>2, <3>5
  <2>4. QED BY <1>2, <1>8, <2>1, <2>2, <2>3
<1>9. \A v \in V2 : InGrammar(v.node) /\ Len(v.path) <= MaxRuleDepth
  BY DEF Walked
<1>10. QED
  <2> HIDE DEF V2, U2
  <2>1. Walked(V2, r, U2)
    BY <1>4, <1>5, <1>6, <1>7, <1>8, <1>9 DEF Walked
  <2>2. QED BY <2>1 DEF V2, U2

-----------------------------------------------------------------------------
\* What the walk accepts: the depth of the root is 0, so that a rule may have
\* one level more than MaxRuleDepth.
RuleAdmitted(r) == InGrammarThroughout(r) /\ Levels(r)[MaxRuleDepth + 1] = {}

LEMMA PlacesMeans ==
    ASSUME NEW r \in RuleNodes, NEW place \in Entry, place \in Levels(r)[Len(place.path)],
           Len(place.path) <= MaxRuleDepth
    PROVE  place \in Places(r)
<1>1. Len(place.path) \in 0..(MaxRuleDepth + MaxRuleNodes)
  BY RuleLimitsAssumption DEF Entry
<1>2. QED BY <1>1 DEF Places

\* With nothing left to walk the whole rule was walked.
LEMMA WalkedIsAdmitted ==
    ASSUME NEW r \in RuleNodes, NEW V, Walked(V, r, {}),
           IsFiniteSet(V), Cardinality(V) <= MaxRuleNodes
    PROVE  RuleAdmitted(r)
<1> DEFINE S == {n \in Nat : Levels(r)[n] \subseteq V}
<1>1. 0 \in S
  BY LevelsUnfold DEF Walked
<1>2. ASSUME NEW n \in Nat, n \in S PROVE n + 1 \in S
  <2>1. Levels(r)[n + 1] = BelowAny(Levels(r)[n])
    BY LevelsUnfold
  <2>2. QED BY <1>2, <2>1 DEF Walked, BelowAny
<1>3. \A n \in Nat : Levels(r)[n] \subseteq V
  <2>1. Nat \subseteq S
    <3> HIDE DEF S
    <3> QED BY <1>1, <1>2, SetInduction
  <2>2. QED BY <2>1
<1>4. Places(r) \subseteq V
  BY <1>3, RuleLimitsAssumption DEF Places
<1>5. Cardinality(Places(r)) <= MaxRuleNodes
  <2>1. Cardinality(Places(r)) <= Cardinality(V)
    BY <1>4, FS_Subset
  <2>2. Cardinality(V) \in Nat /\ Cardinality(Places(r)) \in Nat
    BY <1>4, FS_Subset, FS_CardinalityType
  <2>3. QED BY <2>1, <2>2, RuleLimitsAssumption
<1>6. Levels(r)[MaxRuleDepth + 1] = {}
  <2> SUFFICES ASSUME NEW place \in Levels(r)[MaxRuleDepth + 1] PROVE FALSE
    OBVIOUS
  <2>1. MaxRuleDepth + 1 \in Nat
    BY RuleLimitsAssumption
  <2>2. place \in V /\ Len(place.path) = MaxRuleDepth + 1
    BY <1>3, <2>1, LevelsTyped
  <2>3. Len(place.path) <= MaxRuleDepth
    BY <2>2 DEF Walked
  <2>4. QED BY <2>2, <2>3, RuleLimitsAssumption
<1>7. \A place \in Places(r) : InGrammar(place.node)
  BY <1>4 DEF Walked
<1>8. QED BY <1>5, <1>6, <1>7 DEF RuleAdmitted, InGrammarThroughout

\* What walk has a problem with is out of the grammar or beyond a limit.
LEMMA TooDeepIsRefused ==
    ASSUME NEW r \in RuleNodes, NEW V, NEW U, Walked(V, r, U), NEW e \in U,
           Len(e.path) > MaxRuleDepth
    PROVE  ~RuleAdmitted(r)
<1>1. V \subseteq Entry /\ e \in Entry /\ e \in Levels(r)[Len(e.path)]
  BY DEF Walked
<1>2. e.path # <<>>
  BY RuleLimitsAssumption
<1>3. PICK v \in V : e \in Below(v)
  BY <1>2 DEF Walked
<1>4. Len(e.path) = Len(v.path) + 1 /\ Len(v.path) <= MaxRuleDepth
  BY <1>1, <1>3, BelowTyped DEF Walked
<1>5. Len(e.path) = MaxRuleDepth + 1
  BY <1>1, <1>4, RuleLimitsAssumption DEF Entry
<1>6. QED BY <1>1, <1>5 DEF RuleAdmitted

LEMMA UngrammaticalIsRefused ==
    ASSUME NEW r \in RuleNodes, NEW V, NEW U, Walked(V, r, U), NEW e \in U,
           Len(e.path) <= MaxRuleDepth, ~InGrammar(e.node)
    PROVE  ~RuleAdmitted(r)
<1>1. e \in Places(r)
  BY PlacesMeans DEF Walked
<1>2. QED BY <1>1 DEF RuleAdmitted, InGrammarThroughout

LEMMA TooLargeIsRefused ==
    ASSUME NEW r \in RuleNodes, NEW V, NEW U, Walked(V, r, U), NEW e \in U,
           Len(e.path) <= MaxRuleDepth, IsFiniteSet(V), Cardinality(V) + 1 > MaxRuleNodes
    PROVE  ~RuleAdmitted(r)
<1>1. V \subseteq Entry /\ e \in Entry /\ e \notin V
  BY DEF Walked
<1>2. e \in Places(r)
  BY <1>1, PlacesMeans DEF Walked
<1>3. V \subseteq Places(r)
  BY <1>1, PlacesMeans DEF Walked
<1>4. IsFiniteSet(V \union {e}) /\ Cardinality(V \union {e}) = Cardinality(V) + 1
  BY <1>1, FS_AddElement
<1>5. IsFiniteSet(Places(r))
  BY PlacesFinite
<1>6. Cardinality(V \union {e}) <= Cardinality(Places(r))
  BY <1>2, <1>3, <1>5, FS_Subset
<1>7. Cardinality(V) \in Nat /\ Cardinality(Places(r)) \in Nat
  BY <1>5, FS_CardinalityType
<1>8. QED BY <1>4, <1>6, <1>7, RuleLimitsAssumption DEF RuleAdmitted, InGrammarThroughout

-----------------------------------------------------------------------------
LEMMA Concatenated ==
    ASSUME NEW first \in Seq(Entry), NEW rest \in Seq(Entry)
    PROVE  /\ first \o rest \in Seq(Entry)
           /\ Len(first \o rest) = Len(first) + Len(rest)
           /\ DOMAIN (first \o rest) = 1..(Len(first) + Len(rest))
           /\ \A i \in 1..(Len(first) + Len(rest)) :
                  (first \o rest)[i] = IF i <= Len(first) THEN first[i] ELSE rest[i - Len(first)]
BY ConcatProperties

\* The entries after a node in the grammar was walked.
Becomes(u) ==
    [i \in DOMAIN Subrules(u[1].node) |->
        [node |-> Subrules(u[1].node)[i], path |-> Append(u[1].path, i)]] \o Tail(u)

LEMMA UnwalkedBecomes ==
    ASSUME NEW u \in Seq(Entry), u # <<>>, IsInjective(u),
           Below(u[1]) \intersect ToSet(u) = {}
    PROVE  /\ Becomes(u) \in Seq(Entry)
           /\ IsInjective(Becomes(u))
           /\ ToSet(Becomes(u)) = Below(u[1]) \union (ToSet(u) \ {u[1]})
<1> DEFINE children == Subrules(u[1].node)
           next == Becomes(u)
           first == [i \in DOMAIN children |->
                        [node |-> children[i], path |-> Append(u[1].path, i)]]
           rest == Tail(u)
<1>1. u[1] \in Entry /\ 1 \in DOMAIN u
  OBVIOUS
<1>2. children \in Seq(RuleNodes) /\ u[1].path \in Seq(Nat)
  BY <1>1, SubrulesTyped DEF Entry
<1>3. DOMAIN children = 1..Len(children) /\ Len(children) \in Nat
  BY <1>2
<1>4. \A i \in 1..Len(children) : first[i] \in Entry
  BY <1>2, <1>3, ChildPath DEF Entry
<1>5. first \in Seq(Entry) /\ Len(first) = Len(children)
  BY <1>3, <1>4
<1>6. /\ rest \in Seq(Entry) /\ Len(rest) = Len(u) - 1 /\ Len(u) \in Nat \ {0}
      /\ \A i \in 1..Len(rest) : rest[i] = u[i + 1]
  OBVIOUS
<1>7. ToSet(first) = Below(u[1])
  BY DEF ToSet, Below
<1>8. ToSet(rest) = ToSet(u) \ {u[1]}
  <2>1. ASSUME NEW x \in ToSet(rest) PROVE x \in ToSet(u) \ {u[1]}
    <3>1. PICK i \in 1..Len(rest) : x = rest[i]
      BY <1>6 DEF ToSet
    <3>2. i + 1 \in DOMAIN u /\ x = u[i + 1] /\ i + 1 # 1
      BY <1>6, <3>1
    <3>3. QED BY <1>1, <3>2 DEF ToSet, IsInjective
  <2>2. ASSUME NEW x \in ToSet(u) \ {u[1]} PROVE x \in ToSet(rest)
    <3>1. PICK i \in 1..Len(u) : x = u[i] /\ i # 1
      BY DEF ToSet
    <3>2. i - 1 \in 1..Len(rest) /\ (i - 1) + 1 = i
      BY <1>6, <3>1
    <3>3. rest[i - 1] = x
      BY <1>6, <3>1, <3>2
    <3>4. i - 1 \in DOMAIN rest
      BY <1>6, <3>2
    <3>5. QED BY <3>3, <3>4 DEF ToSet
  <2>3. QED BY <2>1, <2>2
<1>9. \A i, j \in 1..Len(first) : first[i] = first[j] => i = j
  <2> SUFFICES ASSUME NEW i \in 1..Len(first), NEW j \in 1..Len(first), first[i] = first[j]
               PROVE  i = j
    OBVIOUS
  <2>1. Append(u[1].path, i) = Append(u[1].path, j)
    BY <1>3, <1>5
  <2>2. i \in Nat /\ j \in Nat
    OBVIOUS
  <2>3. QED BY <1>2, <2>1, <2>2, SameChildPath
<1>10. \A i, j \in 1..Len(rest) : rest[i] = rest[j] => i = j
  <2> SUFFICES ASSUME NEW i \in 1..Len(rest), NEW j \in 1..Len(rest), rest[i] = rest[j]
               PROVE  i = j
    OBVIOUS
  <2>1. i + 1 \in DOMAIN u /\ j + 1 \in DOMAIN u /\ u[i + 1] = u[j + 1]
    BY <1>6
  <2>2. i + 1 = j + 1
    BY <2>1 DEF IsInjective
  <2>3. QED BY <2>2
<1>11. \A i \in 1..Len(first), j \in 1..Len(rest) : first[i] # rest[j]
  <2> SUFFICES ASSUME NEW i \in 1..Len(first), NEW j \in 1..Len(rest) PROVE first[i] # rest[j]
    OBVIOUS
  <2>1. first[i] \in ToSet(first) /\ rest[j] \in ToSet(rest)
    <3>1. i \in DOMAIN first /\ j \in DOMAIN rest
      BY <1>5, <1>6
    <3> HIDE DEF first, rest
    <3>2. QED BY <3>1 DEF ToSet
  <2>2. QED
    <3> HIDE DEF first, rest
    <3> QED BY <1>7, <1>8, <2>1
<1>12. next = first \o rest
  BY DEF Becomes
<1> HIDE DEF first, rest, next
<1>13. /\ next \in Seq(Entry) /\ Len(next) = Len(first) + Len(rest)
       /\ DOMAIN next = 1..(Len(first) + Len(rest))
       /\ \A i \in 1..(Len(first) + Len(rest)) :
              next[i] = IF i <= Len(first) THEN first[i] ELSE rest[i - Len(first)]
  <2>1. first \in Seq(Entry) /\ rest \in Seq(Entry)
    BY <1>5, <1>6
  <2>2. /\ first \o rest \in Seq(Entry)
        /\ Len(first \o rest) = Len(first) + Len(rest)
        /\ DOMAIN (first \o rest) = 1..(Len(first) + Len(rest))
    BY <2>1, Concatenated
  <2>3. \A i \in 1..(Len(first) + Len(rest)) :
            (first \o rest)[i] = IF i <= Len(first) THEN first[i] ELSE rest[i - Len(first)]
    BY <2>1, Concatenated
  <2>4. QED BY <1>12, <2>2, <2>3
<1>14. Len(first) \in Nat /\ Len(rest) \in Nat
  BY <1>5, <1>6
<1>15. ASSUME NEW i \in DOMAIN next
       PROVE  \/ i \in 1..Len(first) /\ next[i] = first[i]
              \/ i - Len(first) \in 1..Len(rest) /\ next[i] = rest[i - Len(first)]
  <2>1. i \in Nat /\ 1 <= i /\ i <= Len(first) + Len(rest)
    BY <1>13, <1>14
  <2>2. next[i] = IF i <= Len(first) THEN first[i] ELSE rest[i - Len(first)]
    BY <1>13
  <2>3. CASE i <= Len(first)
    BY <1>14, <2>1, <2>2, <2>3
  <2>4. CASE ~(i <= Len(first))
    <3>1. i - Len(first) \in 1..Len(rest)
      BY <1>14, <2>1, <2>4
    <3>2. QED BY <2>2, <2>4, <3>1
  <2>5. QED BY <2>3, <2>4
<1>16. IsInjective(next)
  <2> SUFFICES ASSUME NEW i \in DOMAIN next, NEW j \in DOMAIN next, next[i] = next[j]
               PROVE  i = j
    BY DEF IsInjective
  <2>1. i \in Nat /\ j \in Nat
    BY <1>13, <1>14
  <2>2. CASE i \in 1..Len(first) /\ next[i] = first[i]
    BY <1>9, <1>11, <1>15, <2>2
  <2>3. CASE i - Len(first) \in 1..Len(rest) /\ next[i] = rest[i - Len(first)]
    <3>1. j - Len(first) \in 1..Len(rest) /\ next[j] = rest[j - Len(first)]
      BY <1>11, <1>15, <2>3
    <3>2. i - Len(first) = j - Len(first)
      BY <1>10, <2>3, <3>1
    <3>3. QED BY <1>14, <2>1, <3>2
  <2>4. QED BY <1>15, <2>2, <2>3
<1>17. ToSet(next) = ToSet(first) \union ToSet(rest)
  <2>1. DOMAIN first = 1..Len(first) /\ DOMAIN rest = 1..Len(rest)
    BY <1>5, <1>6
  <2>2. ToSet(next) \subseteq ToSet(first) \union ToSet(rest)
    BY <1>15, <2>1 DEF ToSet
  <2>3. ASSUME NEW i \in 1..Len(first) PROVE first[i] \in ToSet(next)
    <3>1. i \in 1..(Len(first) + Len(rest)) /\ i <= Len(first)
      BY <1>14
    <3>2. i \in DOMAIN next /\ next[i] = first[i]
      BY <1>13, <3>1
    <3>3. QED BY <3>2 DEF ToSet
  <2>4. ASSUME NEW i \in 1..Len(rest) PROVE rest[i] \in ToSet(next)
    <3>1. /\ i + Len(first) \in DOMAIN next /\ ~(i + Len(first) <= Len(first))
          /\ (i + Len(first)) - Len(first) = i
      BY <1>13, <1>14
    <3>2. next[i + Len(first)] = rest[i]
      BY <1>13, <3>1
    <3>3. QED BY <3>1, <3>2 DEF ToSet
  <2>5. ToSet(first) \subseteq ToSet(next) /\ ToSet(rest) \subseteq ToSet(next)
    <3>1. ToSet(first) = {first[i] : i \in 1..Len(first)}
      BY <2>1 DEF ToSet
    <3>2. ToSet(rest) = {rest[i] : i \in 1..Len(rest)}
      BY <2>1 DEF ToSet
    <3>3. QED BY <2>3, <2>4, <3>1, <3>2
  <2>6. QED BY <2>2, <2>5
<1>18. QED BY <1>7, <1>8, <1>13, <1>16, <1>17 DEF next

-----------------------------------------------------------------------------
\* What the walk has found is the truth about the rule so far.
WalkInv ==
    \/ nodeCount = 0 /\ unwalked = <<>>
    \/ /\ rule \in RuleNodes /\ nodeCount \in Nat
       /\ problems # {} => ~RuleAdmitted(rule)
       /\ problems = {} =>
            /\ unwalked \in Seq(Entry) /\ IsInjective(unwalked)
            /\ nodeCount <= MaxRuleNodes
            /\ \E V : /\ IsFiniteSet(V) /\ Cardinality(V) = nodeCount
                      /\ Walked(V, rule, ToSet(unwalked))

LEMMA WalkBegins ==
    ASSUME NEW r \in RuleNodes, BeginWalk(r) PROVE WalkInv' /\ unwalked' # <<>>
<1>1. /\ rule' = r /\ unwalked' = <<Root(r)>> /\ nodeCount' = 0 /\ problems' = {}
  BY DEF BeginWalk, Root
<1>2. Root(r) \in Entry /\ Len(Root(r).path) = 0 /\ Root(r).path = <<>>
  BY DEF Root, Entry
<1>3. unwalked' \in Seq(Entry) /\ ToSet(unwalked)' = {Root(r)}
  BY <1>1, <1>2 DEF ToSet
<1>4. IsInjective(unwalked)'
  BY <1>1 DEF IsInjective
<1>5. Walked({}, r, {Root(r)})
  BY <1>2, LevelsUnfold DEF Walked
<1>6. IsFiniteSet({}) /\ Cardinality({}) = 0
  BY FS_EmptySet
<1>7. \E V : /\ IsFiniteSet(V) /\ Cardinality(V) = nodeCount'
             /\ Walked(V, rule', ToSet(unwalked)')
  BY <1>1, <1>3, <1>5, <1>6
<1>8. QED BY <1>1, <1>3, <1>4, <1>7, RuleLimitsAssumption DEF WalkInv

\* What one call of walk does: it finds a problem in a node that is beyond a
\* limit or out of the grammar, and in no other; of the others it goes into
\* all of the children.
LEMMA RuleStepMeans ==
    ASSUME RuleStep
    PROVE  /\ unwalked # <<>>
           /\ \E found : \E children :
                /\ Walk(found, children)
                /\ \/ /\ found # {}
                      /\ TooLarge \/ TooDeep \/ ~InGrammar(Candidate)
                   \/ /\ found = {} /\ ~TooLarge /\ ~TooDeep
                      /\ InGrammar(Candidate) /\ children = Subrules(Candidate)
<1> DEFINE Goal ==
        /\ unwalked # <<>>
        /\ \E found : \E children :
             /\ Walk(found, children)
             /\ \/ /\ found # {}
                   /\ TooLarge \/ TooDeep \/ ~InGrammar(Candidate)
                \/ /\ found = {} /\ ~TooLarge /\ ~TooDeep
                   /\ InGrammar(Candidate) /\ children = Subrules(Candidate)
<1>1. CASE WalkTooFar
  <2>1. {IF TooLarge THEN "RULE_TOO_LARGE" ELSE "RULE_TOO_DEEP"} # {}
    OBVIOUS
  <2>2. QED BY <1>1, <2>1 DEF WalkTooFar
<1>2. CASE WalkUnknown
  <2>1. PICK found \in {{"INVALID_RULE"}, {"EXECUTABLE_RULE_FORBIDDEN"}} : Walk(found, <<>>)
    BY <1>2 DEF WalkUnknown
  <2>2. ~IsObject(Candidate) \/ ~HasOp(Candidate, RuleOperators)
    BY <1>2 DEF WalkUnknown
  <2>3. ~InGrammar(Candidate)
    BY <2>2 DEF InGrammar, IsObject, HasOp, RuleOperators, Connectives, Comparisons
  <2>4. QED BY <1>2, <2>1, <2>3 DEF WalkUnknown, Within
<1>3. CASE WalkConnective
  <2> DEFINE children == IF "rules" \in DOMAIN Candidate THEN Candidate.rules ELSE <<>>
             found == Closed({"op", "rules"}) \union {c \in {"RULE_CHILD_REQUIRED"} : children = <<>>}
  <2>1. Walk(found, children) /\ Within /\ HasOp(Candidate, Connectives)
    BY <1>3 DEF WalkConnective
  <2>2. CASE DOMAIN Candidate = {"op", "rules"} /\ Candidate.rules # <<>>
    <3>1. found = {} /\ children = Candidate.rules
      BY <2>2 DEF Closed
    <3>2. InGrammar(Candidate) /\ Subrules(Candidate) = Candidate.rules
      BY <2>1, <2>2 DEF InGrammar, Subrules, HasOp, Connectives
    <3> HIDE DEF found, children
    <3>3. QED BY <2>1, <3>1, <3>2 DEF Within
  <2>3. CASE DOMAIN Candidate # {"op", "rules"} \/ Candidate.rules = <<>>
    <3>1. found # {}
      BY <2>3 DEF Closed
    <3>2. ~InGrammar(Candidate)
      BY <2>1, <2>3 DEF InGrammar, HasOp, Connectives
    <3> HIDE DEF found, children
    <3>3. QED BY <2>1, <3>1, <3>2 DEF Within
  <2>4. QED BY <2>2, <2>3
<1>4. CASE WalkNot
  <2>1. Within /\ HasOp(Candidate, {"not"})
    BY <1>4 DEF WalkNot
  <2>2. CASE DOMAIN Candidate = {"op", "rule"}
    <3>1. Walk(Closed({"op", "rule"}), <<Candidate.rule>>) /\ Closed({"op", "rule"}) = {}
      BY <1>4, <2>2 DEF WalkNot, Closed
    <3>2. InGrammar(Candidate) /\ Subrules(Candidate) = <<Candidate.rule>>
      BY <2>1, <2>2 DEF InGrammar, Subrules, HasOp
    <3>3. QED BY <2>1, <3>1, <3>2 DEF Within
  <2>3. CASE DOMAIN Candidate # {"op", "rule"}
    <3>1. PICK found, children : Walk(found, children) /\ Closed({"op", "rule"}) \subseteq found
      BY <1>4 DEF WalkNot
    <3>2. found # {}
      BY <2>3, <3>1 DEF Closed
    <3>3. ~InGrammar(Candidate)
      BY <2>1, <2>3 DEF InGrammar, HasOp
    <3>4. QED BY <2>1, <3>1, <3>2, <3>3 DEF Within
  <2>4. QED BY <2>2, <2>3
<1>5. CASE WalkLeaf
  <2> DEFINE found == Closed({"op", "path"} \union {f \in {"value"} : Candidate.op # "exists"})
            \union {c \in {"INVALID_FACT_PATH"} :
                ~("path" \in DOMAIN Candidate /\ Candidate.path # <<>>)}
            \union {c \in {"INVALID_RULE_VALUE"} : Candidate.op # "exists"
                /\ ~("value" \in DOMAIN Candidate /\ ValueAdmitted(Candidate.op, Candidate.value))}
  <2>1. Walk(found, <<>>) /\ Within /\ HasOp(Candidate, {"exists"} \union Comparisons)
    BY <1>5 DEF WalkLeaf
  <2>2. CASE Candidate.op = "exists"
    <3>1. found = {} <=> DOMAIN Candidate = {"op", "path"} /\ Candidate.path # <<>>
      BY <2>2 DEF Closed
    <3>2. InGrammar(Candidate) <=> DOMAIN Candidate = {"op", "path"} /\ Candidate.path # <<>>
      BY <2>2 DEF InGrammar
    <3>3. InGrammar(Candidate) => Subrules(Candidate) = <<>>
      BY <3>2 DEF Subrules
    <3> HIDE DEF found
    <3>4. QED BY <2>1, <3>1, <3>2, <3>3 DEF Within
  <2>3. CASE Candidate.op # "exists"
    <3>1. Candidate.op \in {"eq", "in", "gte", "lte"}
      BY <2>1, <2>3 DEF HasOp, Comparisons
    <3>2. found = {} <=> /\ DOMAIN Candidate = {"op", "path", "value"}
                         /\ Candidate.path # <<>>
                         /\ ValueAdmitted(Candidate.op, Candidate.value)
      BY <2>3 DEF Closed
    <3>3. ASSUME DOMAIN Candidate = {"op", "path", "value"}, Candidate.path # <<>>
          PROVE  InGrammar(Candidate) <=> ValueAdmitted(Candidate.op, Candidate.value)
      <4>1. CASE Candidate.op = "eq"
        BY <3>3, <4>1 DEF InGrammar, ValueAdmitted
      <4>2. CASE Candidate.op = "in"
        BY <3>3, <4>2 DEF InGrammar, ValueAdmitted
      <4>3. CASE Candidate.op \in {"gte", "lte"}
        BY <3>3, <4>3 DEF InGrammar, ValueAdmitted
      <4>4. QED BY <3>1, <4>1, <4>2, <4>3
    <3>4. InGrammar(Candidate) =>
              DOMAIN Candidate = {"op", "path", "value"} /\ Candidate.path # <<>>
      BY <3>1 DEF InGrammar
    <3>5. InGrammar(Candidate) => Subrules(Candidate) = <<>>
      BY <3>4 DEF Subrules
    <3> HIDE DEF found
    <3>6. QED BY <2>1, <3>2, <3>3, <3>4, <3>5 DEF Within
  <2>4. QED BY <2>2, <2>3
<1>6. QED BY <1>1, <1>2, <1>3, <1>4, <1>5 DEF RuleStep

LEMMA RuleStepKeeps ==
    ASSUME WalkInv, RuleStep
    PROVE  WalkInv' /\ nodeCount' > 0
<1>1. PICK found : \E children :
        /\ Walk(found, children)
        /\ \/ /\ found # {}
              /\ TooLarge \/ TooDeep \/ ~InGrammar(Candidate)
           \/ /\ found = {} /\ ~TooLarge /\ ~TooDeep
              /\ InGrammar(Candidate) /\ children = Subrules(Candidate)
  BY RuleStepMeans
<1>2. PICK children :
        /\ Walk(found, children)
        /\ \/ /\ found # {}
              /\ TooLarge \/ TooDeep \/ ~InGrammar(Candidate)
           \/ /\ found = {} /\ ~TooLarge /\ ~TooDeep
              /\ InGrammar(Candidate) /\ children = Subrules(Candidate)
  BY <1>1
<1>3. unwalked # <<>>
  BY RuleStepMeans
<1>4. rule \in RuleNodes /\ nodeCount \in Nat
  BY <1>3 DEF WalkInv
<1>5. /\ rule' = rule /\ nodeCount' = nodeCount + 1 /\ problems' = problems \union found
      /\ nodeCount' \in Nat /\ nodeCount' > 0
  BY <1>2, <1>4 DEF Walk
<1>6. CASE problems # {}
  <2>1. problems' # {} /\ ~RuleAdmitted(rule)
    BY <1>3, <1>5, <1>6 DEF WalkInv
  <2>2. ~RuleAdmitted(rule')
    BY <1>5, <2>1
  <2>3. QED BY <1>4, <1>5, <2>1, <2>2 DEF WalkInv
<1>7. CASE problems = {}
  <2>1. unwalked \in Seq(Entry) /\ IsInjective(unwalked) /\ nodeCount <= MaxRuleNodes
    BY <1>3, <1>7 DEF WalkInv
  <2>2. PICK V : /\ IsFiniteSet(V) /\ Cardinality(V) = nodeCount
                 /\ Walked(V, rule, ToSet(unwalked))
    BY <1>3, <1>7 DEF WalkInv
  <2> DEFINE e == unwalked[1]
  <2>3. e \in ToSet(unwalked) /\ e \in Entry /\ Candidate = e.node
    BY <1>3, <2>1 DEF ToSet, Candidate
  <2>4. CASE found # {}
    <3>1. TooLarge \/ TooDeep \/ ~InGrammar(Candidate)
      BY <1>2, <2>4
    <3>2. ~RuleAdmitted(rule)
      <4>0. Len(e.path) \in Nat
        BY <2>3 DEF Entry
      <4>1. CASE TooDeep
        <5>1. Len(e.path) > MaxRuleDepth
          BY <4>1 DEF TooDeep
        <5>2. QED BY <1>4, <2>2, <2>3, <5>1, TooDeepIsRefused
      <4>2. CASE ~TooDeep
        <5>1. Len(e.path) <= MaxRuleDepth
          BY <4>0, <4>2, RuleLimitsAssumption DEF TooDeep
        <5>2. CASE TooLarge
          <6>1. Cardinality(V) + 1 > MaxRuleNodes
            BY <2>2, <5>2 DEF TooLarge
          <6>2. QED BY <1>4, <2>2, <2>3, <5>1, <6>1, TooLargeIsRefused
        <5>3. CASE ~InGrammar(Candidate)
          BY <1>4, <2>2, <2>3, <5>1, <5>3, UngrammaticalIsRefused
        <5>4. QED BY <3>1, <4>2, <5>2, <5>3
      <4>3. QED BY <4>1, <4>2
    <3>3. problems' # {} /\ ~RuleAdmitted(rule')
      BY <1>5, <2>4, <3>2
    <3>4. QED BY <1>4, <1>5, <3>3 DEF WalkInv
  <2>5. CASE found = {}
    <3>1. /\ ~TooLarge /\ ~TooDeep /\ InGrammar(e.node) /\ children = Subrules(e.node)
          /\ Len(e.path) \in Nat
      BY <1>2, <2>3, <2>5 DEF Entry
    <3>2. Len(e.path) <= MaxRuleDepth /\ nodeCount + 1 <= MaxRuleNodes
      BY <1>4, <3>1, RuleLimitsAssumption DEF TooLarge, TooDeep
    <3>3. Walked(V \union {e}, rule, Below(e) \union (ToSet(unwalked) \ {e}))
      BY <2>2, <2>3, <3>1, <3>2, WalkOn
    <3>4. Below(e) \intersect ToSet(unwalked) = {}
      BY <2>2, <2>3, BelowIsNew
    <3>5. unwalked' = [i \in DOMAIN children |->
               [node |-> children[i], path |-> Append(unwalked[1].path, i)]] \o Tail(unwalked)
      BY <1>2 DEF Walk
    <3>6. /\ unwalked' \in Seq(Entry) /\ IsInjective(unwalked')
          /\ ToSet(unwalked') = Below(e) \union (ToSet(unwalked) \ {e})
      <4>1. unwalked' = Becomes(unwalked)
        BY <3>1, <3>5 DEF Becomes
      <4>2. /\ Becomes(unwalked) \in Seq(Entry) /\ IsInjective(Becomes(unwalked))
            /\ ToSet(Becomes(unwalked)) = Below(e) \union (ToSet(unwalked) \ {e})
        BY <1>3, <2>1, <3>4, UnwalkedBecomes
      <4>3. QED BY <4>1, <4>2
    <3>7. e \notin V
      BY <2>2, <2>3 DEF Walked
    <3>8. IsFiniteSet(V \union {e}) /\ Cardinality(V \union {e}) = nodeCount + 1
      BY <2>2, <3>7, FS_AddElement
    <3>9. problems' = {}
      BY <1>5, <1>7, <2>5
    <3>10. \E W : /\ IsFiniteSet(W) /\ Cardinality(W) = nodeCount'
                  /\ Walked(W, rule', ToSet(unwalked'))
      BY <1>5, <3>3, <3>6, <3>8
    <3>11. QED BY <1>4, <1>5, <3>2, <3>6, <3>9, <3>10 DEF WalkInv
  <2>6. QED BY <2>4, <2>5
<1>8. QED BY <1>5, <1>6, <1>7

\* A walk that is over has the right answer.
LEMMA WalkDecides ==
    ASSUME WalkInv, nodeCount > 0, unwalked = <<>>
    PROVE  problems = {} <=> RuleAdmitted(rule)
<1>1. CASE problems # {}
  BY <1>1 DEF WalkInv
<1>2. CASE problems = {}
  <2>1. nodeCount # 0
    OBVIOUS
  <2>2. PICK V : /\ IsFiniteSet(V) /\ Cardinality(V) = nodeCount /\ nodeCount <= MaxRuleNodes
                 /\ Walked(V, rule, ToSet(unwalked)) /\ rule \in RuleNodes
    BY <1>2, <2>1 DEF WalkInv
  <2>3. ToSet(unwalked) = {}
    BY DEF ToSet
  <2>4. QED BY <1>2, <2>2, <2>3, WalkedIsAdmitted
<1>3. QED BY <1>1, <1>2

-----------------------------------------------------------------------------
\* Whatever can be in a file.
Damaged == {[kind |-> kind] : kind \in Absent}
Files == Documents \union Damaged

LEMMA RulesHaveConditions ==
    ASSUME NEW d \in Files, d.kind = "GuidanceRule" PROVE d.when \in RuleNodes
<1>1. \A kind \in Absent : kind # "GuidanceRule"
  BY DEF Absent
<1>2. d \notin Damaged
  BY <1>1 DEF Damaged
<1>3. QED BY <1>2, DocumentsAssumption DEF Files

AllSound == \A i \in DOMAIN loaded : DocumentSound(loaded[i])
AllAdmitted == \A i \in Of("GuidanceRule") : RuleAdmitted(loaded[i].when)
Accepted == AllSound /\ Complete /\ ReferencesAgree /\ SectionsKnown /\ AnswersKnown

Validating == validator \in {"conditions", "walk"}

\* What the command knows at each of its places of what it has read.
BundleInv ==
    /\ \A i \in DOMAIN bundle : bundle[i] \in Files
    /\ listed \subseteq DOMAIN bundle
    /\ loaded \in Seq(Files)
    /\ validator \in {"idle", "load", "conditions", "walk"}
    /\ conditions \subseteq Of("GuidanceRule")
    /\ ~Validating => conditions = {}
    /\ Validating /\ sound => AllSound
    /\ Validating /\ sound =>
        \A i \in Of("GuidanceRule") \ conditions :
            RuleAdmitted(loaded[i].when) \/ (validator = "walk" /\ loaded[i].when = rule)
    /\ validator = "walk" => unwalked # <<>> \/ nodeCount > 0
    /\ verdict # -1 => validator = "idle"
    /\ verdict = 0 => Accepted /\ AllAdmitted
    /\ WalkInv

LEMMA BundleBegins == BundleInit => BundleInv
<1> SUFFICES ASSUME BundleInit PROVE BundleInv
  OBVIOUS
<1>1. PICK b \in Beginnings : bundle = b.bundle
  BY DEF BundleInit
<1>2. \A i \in DOMAIN bundle : bundle[i] \in Files
  <2>1. \A i \in DOMAIN bundle : bundle[i] \in ToSet(b.bundle)
    BY <1>1 DEF ToSet
  <2>2. QED BY <2>1 DEF Files, Documents
<1>3. loaded = <<>> /\ loaded \in Seq(Files) /\ Of("GuidanceRule") = {}
  BY DEF BundleInit, Of
<1>4. QED BY <1>2, <1>3 DEF BundleInit, BundleInv, Validating, WalkInv

LEMMA LoadedKeeps ==
    ASSUME loaded' = loaded
    PROVE  /\ \A kind : Of(kind)' = Of(kind)
           /\ Accepted' = Accepted /\ AllSound' = AllSound /\ AllAdmitted' = AllAdmitted
<1>1. \A kind : Of(kind)' = Of(kind)
  BY DEF Of
<1>2. \A kind : Only(kind)' = Only(kind)
  BY <1>1 DEF Only
<1>3. AllSound' = AllSound /\ AllAdmitted' = AllAdmitted
  BY <1>1 DEF AllSound, AllAdmitted
<1>4. Complete' = Complete
  BY <1>1 DEF Complete
<1>5. /\ ReferencesAgree' = ReferencesAgree /\ SectionsKnown' = SectionsKnown
      /\ AnswersKnown' = AnswersKnown
  BY <1>1, <1>2 DEF ReferencesAgree, SectionsKnown, AnswersKnown
<1>6. QED BY <1>1, <1>3, <1>4, <1>5 DEF Accepted

LEMMA ListFilesKeeps == ASSUME BundleInv, ListFiles PROVE BundleInv'
<1>1. /\ validator = "idle" /\ loaded' = <<>> /\ UNCHANGED <<bundle, conditions, ruleVars>>
      /\ \/ validator' = "idle" /\ verdict' = 2
         \/ validator' = "load" /\ verdict' = -1
  BY DEF ListFiles, Conclude
<1>2. listed' \subseteq DOMAIN bundle'
  BY DEF ListFiles
<1>3. conditions' = {} /\ Of("GuidanceRule")' = {} /\ loaded' \in Seq(Files)
  BY <1>1 DEF BundleInv, Validating, Of
<1>4. WalkInv'
  BY <1>1 DEF BundleInv, WalkInv, ruleVars
<1>5. QED BY <1>1, <1>3, <1>4, <1>2 DEF BundleInv, Validating

LEMMA LoadFileKeeps == ASSUME BundleInv, LoadFile PROVE BundleInv'
<1>1. /\ validator = "load" /\ UNCHANGED <<bundle, conditions, ruleVars>>
      /\ \/ validator' = "idle" /\ verdict' = 2 /\ loaded' = loaded
         \/ /\ UNCHANGED <<validator, verdict>>
            /\ \E i \in listed : loaded' = Append(loaded, bundle[i])
  BY DEF LoadFile, Conclude
<1>2. listed' \subseteq DOMAIN bundle'
  BY <1>1 DEF LoadFile, BundleInv
<1>3. conditions' = {} /\ verdict' # 0 /\ verdict = -1 /\ conditions = {}
  BY <1>1 DEF BundleInv, Validating
<1>4. WalkInv'
  BY <1>1 DEF BundleInv, WalkInv, ruleVars
<1>5. loaded' \in Seq(Files)
  <2>1. CASE loaded' = loaded
    BY <2>1 DEF BundleInv
  <2>2. CASE \E i \in listed : loaded' = Append(loaded, bundle[i])
    <3>1. PICK i \in listed : loaded' = Append(loaded, bundle[i])
      BY <2>2
    <3>2. bundle[i] \in Files
      BY <3>1 DEF BundleInv
    <3>3. QED BY <3>1, <3>2 DEF BundleInv
  <2>3. QED BY <1>1, <2>1, <2>2
<1>6. QED BY <1>1, <1>3, <1>4, <1>5, <1>2 DEF BundleInv, Validating

LEMMA EndLoadingKeeps == ASSUME BundleInv, EndLoading PROVE BundleInv'
<1>1. /\ validator = "load" /\ validator' = "conditions" /\ conditions' = Of("GuidanceRule")
      /\ sound' = AllSound /\ UNCHANGED <<bundle, listed, loaded, verdict, ruleVars>>
  BY DEF EndLoading, AllSound
<1>2. Of("GuidanceRule")' = Of("GuidanceRule") /\ AllSound' = AllSound
  BY <1>1, LoadedKeeps
<1>3. verdict = -1
  BY <1>1 DEF BundleInv
<1>4. WalkInv'
  BY <1>1 DEF BundleInv, WalkInv, ruleVars
<1>5. QED BY <1>1, <1>2, <1>3, <1>4 DEF BundleInv, Validating

LEMMA BeginConditionKeeps == ASSUME BundleInv, BeginCondition PROVE BundleInv'
<1>1. PICK i \in conditions :
          BeginWalk(loaded[i].when) /\ conditions' = conditions \ {i}
  BY DEF BeginCondition
<1>2. /\ validator = "conditions" /\ validator' = "walk"
      /\ UNCHANGED <<bundle, listed, loaded, sound, verdict>>
  BY DEF BeginCondition
<1>3. Of("GuidanceRule")' = Of("GuidanceRule") /\ AllSound' = AllSound
  BY <1>2, LoadedKeeps
<1>4. i \in Of("GuidanceRule") /\ loaded[i] \in Files /\ loaded[i].kind = "GuidanceRule"
  BY <1>1 DEF BundleInv, Of
<1>5. loaded[i].when \in RuleNodes
  BY <1>4, RulesHaveConditions
<1>6. WalkInv' /\ unwalked' # <<>> /\ rule' = loaded[i].when
  BY <1>1, <1>5, WalkBegins DEF BeginWalk
<1>7. ASSUME sound', NEW j \in Of("GuidanceRule") \ conditions'
      PROVE  RuleAdmitted(loaded'[j].when) \/ loaded'[j].when = rule'
  <2>1. CASE j = i
    BY <1>2, <1>6, <2>1
  <2>2. CASE j # i
    BY <1>1, <1>2, <1>7, <2>2 DEF BundleInv, Validating
  <2>3. QED BY <2>1, <2>2
<1>8. verdict' = -1
  BY <1>2 DEF BundleInv
<1>9. QED BY <1>1, <1>2, <1>3, <1>6, <1>7, <1>8 DEF BundleInv, Validating

LEMMA WalkConditionKeeps == ASSUME BundleInv, WalkCondition PROVE BundleInv'
<1>1. validator = "walk" /\ RuleStep /\ UNCHANGED bundleVars /\ WalkInv
  BY DEF WalkCondition, BundleInv
<1>2. WalkInv' /\ nodeCount' > 0
  BY <1>1, RuleStepKeeps
<1>3. rule' = rule
  <2>1. PICK found : \E children : Walk(found, children)
    BY <1>1, RuleStepMeans
  <2>2. QED BY <2>1 DEF Walk
<1>4. /\ UNCHANGED <<bundle, validator, listed, loaded, conditions, sound, verdict>>
      /\ Of("GuidanceRule")' = Of("GuidanceRule") /\ AllSound' = AllSound
      /\ Accepted' = Accepted /\ AllAdmitted' = AllAdmitted
  BY <1>1, LoadedKeeps DEF bundleVars
<1>5. QED BY <1>1, <1>2, <1>3, <1>4 DEF BundleInv, Validating

LEMMA EndConditionKeeps == ASSUME BundleInv, EndCondition PROVE BundleInv'
<1>1. /\ validator = "walk" /\ unwalked = <<>> /\ sound' = (sound /\ problems = {})
      /\ validator' = "conditions" /\ UNCHANGED <<bundle, listed, loaded, conditions, verdict, ruleVars>>
  BY DEF EndCondition
<1>2. Of("GuidanceRule")' = Of("GuidanceRule") /\ AllSound' = AllSound
  BY <1>1, LoadedKeeps
<1>3. WalkInv /\ WalkInv' /\ nodeCount > 0
  BY <1>1 DEF BundleInv, WalkInv, ruleVars
<1>4. problems = {} => RuleAdmitted(rule)
  BY <1>1, <1>3, WalkDecides
<1>5. ASSUME sound', NEW j \in Of("GuidanceRule") \ conditions
      PROVE  RuleAdmitted(loaded[j].when)
  BY <1>1, <1>4, <1>5 DEF BundleInv, Validating
<1>6. verdict' = -1
  BY <1>1 DEF BundleInv
<1>7. sound' => AllSound
  <2>1. sound' => sound
    BY <1>1
  <2>2. QED BY <1>1, <2>1 DEF BundleInv, Validating
<1>8. sound' => \A j \in Of("GuidanceRule")' \ conditions' : RuleAdmitted(loaded'[j].when)
  BY <1>1, <1>2, <1>5
<1>9. conditions' \subseteq Of("GuidanceRule")' /\ loaded' \in Seq(Files)
      /\ listed' \subseteq DOMAIN bundle'
      /\ \A i \in DOMAIN bundle' : bundle'[i] \in Files
  BY <1>1, <1>2 DEF BundleInv
<1>10. QED BY <1>1, <1>2, <1>3, <1>6, <1>7, <1>8, <1>9 DEF BundleInv, Validating

LEMMA EndValidationKeeps == ASSUME BundleInv, EndValidation PROVE BundleInv'
<1>1. /\ validator = "conditions" /\ conditions = {} /\ validator' = "idle"
      /\ UNCHANGED <<bundle, listed, loaded, conditions, sound, ruleVars>>
      /\ verdict' = IF sound /\ Complete /\ ReferencesAgree /\ SectionsKnown /\ AnswersKnown
                    THEN 0 ELSE 1
  BY DEF EndValidation, Conclude
<1>2. verdict' = 0 => Accepted /\ AllAdmitted
  BY <1>1 DEF BundleInv, Validating, Accepted, AllAdmitted
<1>3. /\ Of("GuidanceRule")' = Of("GuidanceRule")
      /\ Accepted' = Accepted /\ AllAdmitted' = AllAdmitted
  BY <1>1, LoadedKeeps
<1>4. WalkInv'
  BY <1>1 DEF BundleInv, WalkInv, ruleVars
<1>5. QED BY <1>1, <1>2, <1>3, <1>4 DEF BundleInv, Validating

LEMMA EditBundleKeeps == ASSUME BundleInv, EditBundle PROVE BundleInv'
<1>1. UNCHANGED <<validator, listed, loaded, conditions, sound, verdict, ruleVars>>
  BY DEF EditBundle
<1>2. PICK i \in DOMAIN bundle : \E d \in Files : bundle' = [bundle EXCEPT ![i] = d]
  <2>1. PICK i \in DOMAIN bundle :
        \/ \E d \in Drafts : d.kind = bundle[i].kind /\ bundle' = [bundle EXCEPT ![i] = d]
        \/ \E kind \in Absent : bundle' = [bundle EXCEPT ![i] = [kind |-> kind]]
        \/ bundle[i].kind = "nothing"
           /\ \E j \in DOMAIN bundle : bundle' = [bundle EXCEPT ![i] = bundle[j]]
    BY DEF EditBundle
  <2>2. \A j \in DOMAIN bundle : bundle[j] \in Files
    BY DEF BundleInv
  <2>3. Drafts \subseteq Files /\ \A kind \in Absent : [kind |-> kind] \in Files
    <3>1. \A kind \in Absent : [kind |-> kind] \in Damaged
      BY DEF Damaged
    <3>2. QED BY <3>1 DEF Files, Documents
  <2>4. QED BY <2>1, <2>2, <2>3
<1>3. (\A j \in DOMAIN bundle' : bundle'[j] \in Files) /\ listed' \subseteq DOMAIN bundle'
  BY <1>1, <1>2 DEF BundleInv
<1>4. /\ Of("GuidanceRule")' = Of("GuidanceRule") /\ AllSound' = AllSound
      /\ Accepted' = Accepted /\ AllAdmitted' = AllAdmitted
  BY <1>1, LoadedKeeps
<1>5. WalkInv'
  BY <1>1 DEF BundleInv, WalkInv, ruleVars
<1>6. QED BY <1>1, <1>3, <1>4, <1>5 DEF BundleInv, Validating, ruleVars

LEMMA BundleInductive == ASSUME BundleInv, [BundleNext]_<<bundleVars, ruleVars>> PROVE BundleInv'
<1>1. CASE UNCHANGED <<bundleVars, ruleVars>>
  <2>1. /\ Of("GuidanceRule")' = Of("GuidanceRule") /\ AllSound' = AllSound
        /\ Accepted' = Accepted /\ AllAdmitted' = AllAdmitted
    BY <1>1, LoadedKeeps DEF bundleVars
  <2>2. WalkInv'
    BY <1>1 DEF BundleInv, WalkInv, ruleVars
  <2>3. QED BY <1>1, <2>1, <2>2 DEF BundleInv, Validating, bundleVars, ruleVars
<1>2. CASE BundleNext
  BY <1>2, ListFilesKeeps, LoadFileKeeps, EndLoadingKeeps, BeginConditionKeeps,
     WalkConditionKeeps, EndConditionKeeps, EndValidationKeeps, EditBundleKeeps DEF BundleNext
<1>3. QED BY <1>1, <1>2

LEMMA BundleAlways == BundleSpec => []BundleInv
BY BundleBegins, BundleInductive, PTL DEF BundleSpec

-----------------------------------------------------------------------------
\* A rule within the documented levels has none below them.
LEMMA DocumentedIsAdmitted ==
    ASSUME NEW r, InGrammarThroughout(r), WithinLevels(r) PROVE RuleAdmitted(r)
<1>1. Levels(r)[MaxRuleDepth + 1] = BelowAny(Levels(r)[MaxRuleDepth])
  BY LevelsUnfold, RuleLimitsAssumption
<1>2. BelowAny({}) = {}
  BY DEF BelowAny
<1>3. QED BY <1>1, <1>2 DEF WithinLevels, RuleAdmitted

(* For any limits and any rules, however deep, validate_rule lets no node  *)
(* through that is out of the grammar and no rule with too many of them,   *)
(* and refuses none that docs/guidance-dsl.md admits.                      *)
THEOREM RuleVerdicts == BundleSpec => []RuleVerdictAsDocumented
<1>1. BundleInv => RuleVerdictAsDocumented
  <2> SUFFICES ASSUME BundleInv, nodeCount > 0, unwalked = <<>>
               PROVE  /\ problems = {} => InGrammarThroughout(rule)
                      /\ InGrammarThroughout(rule) /\ WithinLevels(rule) => problems = {}
    BY DEF RuleVerdictAsDocumented
  <2>1. problems = {} <=> RuleAdmitted(rule)
    BY WalkDecides DEF BundleInv
  <2>2. QED BY <2>1, DocumentedIsAdmitted DEF RuleAdmitted
<1>2. QED BY <1>1, BundleAlways, PTL

(* In a bundle that was accepted, however it was edited on the way, the    *)
(* condition of every rule that was read is in the grammar, has at most    *)
(* MaxRuleNodes nodes and at most one level more than MaxRuleDepth.        *)
THEOREM AcceptedRulesAreAdmitted ==
    BundleSpec => [](verdict = 0 => \A i \in Of("GuidanceRule") : RuleAdmitted(loaded[i].when))
<1>1. BundleInv => (verdict = 0 => \A i \in Of("GuidanceRule") : RuleAdmitted(loaded[i].when))
  BY DEF BundleInv, AllAdmitted
<1>2. QED BY <1>1, BundleAlways, PTL

\* The one document of a kind was checked.
LEMMA OnlyIsSound ==
    ASSUME Accepted, NEW kind \in SingleKinds
    PROVE  Only(kind).kind = kind /\ DocumentSound(Only(kind))
<1>1. PICK i \in DOMAIN loaded : Of(kind) = {i}
  BY DEF Accepted, Complete
<1>2. Only(kind) = loaded[i] /\ loaded[i].kind = kind
  BY <1>1 DEF Only, Of
<1>3. QED BY <1>2 DEF Accepted, AllSound

(* For any gates, drafts and edits, an accepted readiness assessment is    *)
(* READY exactly when every mandatory gate passed on evidence, and misses  *)
(* exactly the gates that did not.                                         *)
THEOREM AcceptedReadinessIsHonest == BundleSpec => []ReadinessHonest
<1>1. ASSUME Accepted, verdict = 0 PROVE ReadinessHonest
  <2> DEFINE d == Only("DataReadinessAssessment")
             passed == {g \in Gate : \A i \in DOMAIN d.gates :
                 d.gates[i].gate = g => d.gates[i].status = "PASS" /\ d.gates[i].evidence}
  <2>1. ReadinessSound(d)
    <3>1. d.kind = "DataReadinessAssessment" /\ DocumentSound(d)
      BY <1>1, OnlyIsSound DEF SingleKinds
    <3> HIDE DEF d
    <3>2. QED BY <3>1 DEF DocumentSound
  <2> HIDE DEF d
  <2>2. /\ {d.gates[i].gate : i \in DOMAIN d.gates} = Gate
        /\ \A i \in DOMAIN d.gates : d.gates[i].status = "PASS" => d.gates[i].evidence
    BY <2>1 DEF ReadinessSound, Results, ToSet
  <2>3. \A g : g \in NonPassing(d) <=>
                   \E i \in DOMAIN d.gates : d.gates[i].gate = g /\ d.gates[i].status # "PASS"
    BY DEF NonPassing, Results, ToSet
  <2>4. \A g \in Gate : g \in passed <=> g \notin NonPassing(d)
    BY <2>2, <2>3
  <2>5. NonPassing(d) = {} <=> passed = Gate
    <3>1. NonPassing(d) \subseteq Gate
      BY <2>2, <2>3
    <3> HIDE DEF passed
    <3>2. passed \subseteq Gate
      BY DEF passed
    <3>3. QED BY <2>4, <3>1, <3>2
  <2>6. d.overall = IF passed = Gate THEN "READY" ELSE "BLOCKED"
    BY <2>1, <2>5 DEF ReadinessSound
  <2>7. \A g \in Gate : g \in passed <=> \A i \in DOMAIN d.missing : d.missing[i] # g
    <3>1. ToSet(d.missing) = NonPassing(d)
      BY <2>1 DEF ReadinessSound
    <3> HIDE DEF passed
    <3>2. QED BY <2>4, <3>1 DEF ToSet
  <2>8. QED BY <2>2, <2>6, <2>7 DEF ReadinessHonest, d
<1>2. BundleInv => ReadinessHonest
  BY <1>1 DEF BundleInv, ReadinessHonest
<1>3. QED BY <1>2, BundleAlways, PTL

(* For any gates, definitions and edits, accepted answers that were        *)
(* submitted answer a required question for each mandatory gate.           *)
THEOREM SubmittedAnswersCoverGates == BundleSpec => []EveryGateAnswered
<1>1. ASSUME Accepted, Only("QuestionnaireAnswerSet").status = "SUBMITTED", NEW g \in Gate
      PROVE  \E s \in DOMAIN Only("QuestionnaireDefinition").sections :
                LET asked == Only("QuestionnaireDefinition").sections[s].questions IN
                \E q \in DOMAIN asked :
                    /\ asked[q].gate = g /\ asked[q].required
                    /\ \E i \in DOMAIN Only("QuestionnaireAnswerSet").answers :
                        Only("QuestionnaireAnswerSet").answers[i] = asked[q].id
  <2> DEFINE d == Only("QuestionnaireDefinition")
             a == Only("QuestionnaireAnswerSet")
  <2>1. DefinitionSound(d)
    <3>1. d.kind = "QuestionnaireDefinition" /\ DocumentSound(d)
      BY <1>1, OnlyIsSound DEF SingleKinds
    <3> HIDE DEF d
    <3>2. QED BY <3>1 DEF DocumentSound
  <2>2. {q.id : q \in RequiredQuestions(d)} \subseteq ToSet(a.answers)
    BY <1>1 DEF Accepted, AnswersKnown
  <2> HIDE DEF d, a
  <2>3. PICK q \in RequiredQuestions(d) : q.gate = g
    BY <2>1 DEF DefinitionSound
  <2>4. PICK place \in Asked(d) : q = Question(d, place) /\ q.required
    BY DEF RequiredQuestions, Questions
  <2>5. PICK s \in DOMAIN d.sections : \E n \in DOMAIN d.sections[s].questions : place = <<s, n>>
    BY DEF Asked
  <2>6. PICK n \in DOMAIN d.sections[s].questions : place = <<s, n>>
    BY <2>5
  <2>7. q = d.sections[s].questions[n]
    BY <2>4, <2>6 DEF Question
  <2>8. PICK i \in DOMAIN a.answers : a.answers[i] = q.id
    BY <2>2 DEF ToSet
  <2>9. QED BY <2>3, <2>4, <2>7, <2>8 DEF d, a
<1>2. BundleInv => EveryGateAnswered
  BY <1>1 DEF BundleInv, EveryGateAnswered
<1>3. QED BY <1>2, BundleAlways, PTL

-----------------------------------------------------------------------------
\* The strengthening: a place that was not altered still holds what
\* convert_legacy_document put there, and a restored answer passed every check.
Converted == EnvelopeOf(contract, document)

Carried ==
    /\ LegacyRefusal(contract, document) = "none"
    /\ DOMAIN envelope = Place
    /\ \A place \in Place \ altered : envelope[place] = Converted[place]

Answered ==
    /\ RestoreRefusal(envelope) = "none"
    /\ answer = [code |-> "none", contract |-> envelope.contract,
                 document |-> LegacyOf(envelope)]

IInv ==
    /\ document \in Document
    /\ phase \in {"legacy", "canonical", "restored", "compared", "refused"}
    /\ phase = "legacy" => altered = {}
    /\ phase \in {"canonical", "restored"} => Carried
    /\ phase = "restored" => Answered
    /\ RoundTripExact
-----------------------------------------------------------------------------
\* A document that validate_legacy_document accepts has its version.
LEMMA AcceptedHasVersion ==
    ASSUME NEW c, NEW doc, LegacyRefusal(c, doc) = "none"
    PROVE  c \in Contract /\ SchemaVersion \in DOMAIN doc
<1>1. c \in Contract /\ DOMAIN Const[c] \subseteq DOMAIN doc
  BY DEF LegacyRefusal
<1>2. QED BY <1>1, DefinitionsAssumption DEF DefinitionsIndexed

\* Splitting a document and joining it again gives the document.
LEMMA SplitAndJoined ==
    ASSUME NEW doc \in Document, SchemaVersion \in DOMAIN doc, NEW env,
           env.version = doc[SchemaVersion], env.fields = WithoutVersion(doc)
    PROVE  LegacyOf(env) = doc
<1>1. PICK fields \in SUBSET Field : doc \in [fields -> Value]
  BY DEF Document
<1>2. DOMAIN env.fields = DOMAIN doc \ {SchemaVersion}
  BY DEF WithoutVersion
<1>3. \A f \in DOMAIN doc \ {SchemaVersion} : env.fields[f] = doc[f]
  BY DEF WithoutVersion
<1>4. LegacyOf(env) = [f \in DOMAIN doc |-> doc[f]]
  BY <1>2, <1>3 DEF LegacyOf
<1>5. QED BY <1>1, <1>4

\* An envelope is restored only to the document its digest names.
LEMMA AcceptedMeans ==
    ASSUME NEW env, RestoreRefusal(env) = "none"
    PROVE  /\ env.contract \in Contract
           /\ env.provenance = ProvenanceOf[env.contract]
           /\ env.digest = Digest(LegacyOf(env))
BY DEF RestoreRefusal

\* An envelope nobody altered is accepted and gives back the document.
LEMMA UnalteredAccepted ==
    ASSUME document \in Document, Carried, altered = {}
    PROVE  /\ RestoreRefusal(envelope) = "none"
           /\ LegacyOf(envelope) = document
           /\ envelope.contract = contract
<1>1. contract \in Contract /\ SchemaVersion \in DOMAIN document
  BY AcceptedHasVersion DEF Carried
<1>2. /\ envelope.contract = contract
      /\ envelope.provenance = ProvenanceOf[contract]
      /\ envelope.digest = Digest(document)
      /\ envelope.version = document[SchemaVersion]
      /\ envelope.fields = WithoutVersion(document)
      /\ envelope.states = NormalizedStates(contract, WithoutVersion(document))
  BY DEF Carried, Converted, EnvelopeOf, Place
<1>3. LegacyOf(envelope) = document
  BY <1>1, <1>2, SplitAndJoined
<1>4. RestoreRefusal(envelope) = "none"
  BY <1>1, <1>2, <1>3 DEF RestoreRefusal, Carried
<1>5. QED BY <1>2, <1>3, <1>4

-----------------------------------------------------------------------------
LEMMA Initially == Init => IInv
BY DEF Init, IInv, RoundTripExact

LEMMA ConvertPreserves == ASSUME IInv, Convert PROVE IInv'
<1>1. /\ phase = "legacy" /\ phase' = "canonical" /\ altered' = altered
      /\ envelope' = EnvelopeOf(contract, document)
      /\ LegacyRefusal(contract, document) = "none"
      /\ contract' = contract /\ document' = document
  BY DEF Convert
<1>2. Carried'
  BY <1>1 DEF Carried, Converted, EnvelopeOf, Place
<1>3. QED BY <1>1, <1>2 DEF IInv, RoundTripExact

LEMMA RefuseLegacyPreserves == ASSUME IInv, RefuseLegacy PROVE IInv'
<1>1. /\ phase' = "refused" /\ document' = document /\ contract' = contract
      /\ LegacyRefusal(contract, document) # "none"
  BY DEF RefuseLegacy
<1>2. QED BY <1>1 DEF IInv, RoundTripExact

LEMMA AlterPreserves ==
    ASSUME IInv, NEW place \in Place, Alter(place) PROVE IInv'
<1>1. PICK changed : envelope' = [envelope EXCEPT ![place] = changed]
  BY DEF Alter
<1>2. /\ phase = "canonical" /\ altered' = altered \union {place}
      /\ UNCHANGED <<contract, document, phase, answer>>
  BY DEF Alter
<1>3. Carried
  BY <1>2 DEF IInv
<1>4. DOMAIN envelope' = Place
      /\ \A other \in Place \ {place} : envelope'[other] = envelope[other]
  BY <1>1, <1>3 DEF Carried
<1>5. LegacyRefusal(contract, document)' = "none" /\ Converted' = Converted
  BY <1>2, <1>3 DEF Carried, Converted
<1>6. Carried'
  BY <1>2, <1>3, <1>4, <1>5 DEF Carried
<1>7. QED BY <1>2, <1>6 DEF IInv, RoundTripExact

LEMMA RestorePreserves == ASSUME IInv, Restore PROVE IInv'
<1>1. /\ phase = "canonical" /\ phase' = "restored"
      /\ RestoreRefusal(envelope) = "none"
      /\ answer' = [code |-> "none", contract |-> envelope.contract,
                    document |-> LegacyOf(envelope)]
      /\ UNCHANGED <<contract, document, envelope, altered>>
  BY DEF Restore
<1>2. Carried /\ document \in Document
  BY <1>1 DEF IInv
<1>3. Carried' /\ Answered'
  BY <1>1, <1>2 DEF Carried, Converted, Answered
<1>4. RoundTripExact'
  BY <1>1, <1>2, UnalteredAccepted DEF RoundTripExact
<1>5. QED BY <1>1, <1>2, <1>3, <1>4 DEF IInv

LEMMA RefuseCanonicalPreserves == ASSUME IInv, RefuseCanonical PROVE IInv'
<1>1. /\ phase = "canonical" /\ phase' = "refused"
      /\ RestoreRefusal(envelope) # "none"
      /\ UNCHANGED <<contract, document, envelope, altered>>
  BY DEF RefuseCanonical
<1>2. Carried /\ document \in Document
  BY <1>1 DEF IInv
<1>3. altered # {}
  BY <1>1, <1>2, UnalteredAccepted
<1>4. QED BY <1>1, <1>2, <1>3 DEF IInv, RoundTripExact

LEMMA ComparePreserves == ASSUME IInv, Compare PROVE IInv'
<1>1. /\ phase = "restored" /\ phase' = "compared" /\ altered = {}
      /\ answer' = IF answer.document = document THEN answer
                   ELSE Refused("LEGACY_ROUND_TRIP_MISMATCH")
      /\ UNCHANGED <<contract, document, envelope, altered>>
  BY DEF Compare
<1>2. Carried /\ Answered /\ document \in Document
  BY <1>1 DEF IInv
<1>3. answer.document = document /\ answer.contract = contract /\ answer.code = "none"
  BY <1>1, <1>2, UnalteredAccepted DEF Answered
<1>4. QED BY <1>1, <1>2, <1>3 DEF IInv, RoundTripExact

LEMMA StutterPreserves == ASSUME IInv, UNCHANGED vars PROVE IInv'
BY DEF IInv, vars, Carried, Converted, Answered, RoundTripExact

LEMMA Invariant == Spec => []IInv
<1>1. ASSUME IInv, [Next]_vars PROVE IInv'
  BY <1>1, ConvertPreserves, RefuseLegacyPreserves, AlterPreserves, RestorePreserves,
     RefuseCanonicalPreserves, ComparePreserves, StutterPreserves DEF Next
<1>2. QED BY <1>1, Initially, PTL DEF Spec

(* For every table of contracts, what convert_legacy_document accepts is   *)
(* given back unchanged by restore_legacy_document.                        *)
THEOREM RoundTripsAreExact == Spec => []RoundTripExact
<1>1. IInv => RoundTripExact
  BY DEF IInv
<1>2. QED BY <1>1, Invariant, PTL

(* For every table of contracts and any changes on the way, an envelope    *)
(* with its digest, or with one change, restores the original or nothing.  *)
THEOREM OnlyOriginals == Spec => []OnlyOriginalsRestored
<1>1. ASSUME IInv, phase = "restored" PROVE OnlyOriginalsRestored
  <2>1. Carried /\ Answered /\ document \in Document
    BY <1>1 DEF IInv
  <2>2. /\ envelope.contract \in Contract
        /\ envelope.provenance = ProvenanceOf[envelope.contract]
        /\ envelope.digest = Digest(answer.document)
        /\ answer.document = LegacyOf(envelope)
        /\ answer.contract = envelope.contract
    BY <2>1, AcceptedMeans DEF Answered
  <2>3. contract \in Contract /\ SchemaVersion \in DOMAIN document
    BY <2>1, AcceptedHasVersion DEF Carried
  <2>4. ASSUME "digest" \notin altered PROVE answer.document = document
    <3>1. envelope.digest = Digest(document)
      BY <2>1, <2>4 DEF Carried, Converted, EnvelopeOf, Place
    <3>2. QED BY <2>2, <3>1 DEF Digest
  <2>5. ASSUME NEW place \in Place, altered \subseteq {place}
        PROVE  answer.document = document /\ answer.contract = contract
    <3>1. answer.document = document
      <4>1. CASE place = "digest"
        <5>1. /\ envelope.version = document[SchemaVersion]
              /\ envelope.fields = WithoutVersion(document)
          BY <2>1, <2>5, <4>1 DEF Carried, Converted, EnvelopeOf, Place
        <5>2. QED BY <5>1, <2>1, <2>2, <2>3, SplitAndJoined
      <4>2. CASE place # "digest"
        BY <2>4, <2>5, <4>2
      <4>3. QED BY <4>1, <4>2
    <3>2. answer.contract = contract
      <4>1. CASE place = "contract"
        <5>1. envelope.provenance = ProvenanceOf[contract]
          BY <2>1, <2>5, <4>1 DEF Carried, Converted, EnvelopeOf, Place
        <5>2. QED BY <5>1, <2>2, <2>3, DefinitionsAssumption DEF DefinitionsIndexed
      <4>2. CASE place # "contract"
        BY <2>1, <2>2, <2>5, <4>2 DEF Carried, Converted, EnvelopeOf, Place
      <4>3. QED BY <4>1, <4>2
    <3>3. QED BY <3>1, <3>2
  <2>6. QED BY <2>4, <2>5 DEF OnlyOriginalsRestored
<1>2. IInv => OnlyOriginalsRestored
  BY <1>1 DEF OnlyOriginalsRestored
<1>3. QED BY <1>2, Invariant, PTL
=============================================================================
