-------------------------- MODULE LifecycleProofs --------------------------
(***************************************************************************)
(* Proofs about the two halves of state_machine: no history that the       *)
(* transition tables allow skips a gate, is taken back or ends in a trap;  *)
(* the aggregate of a projection follows the documented precedence for any *)
(* number of harnesses and axes, and time only worsens it.                 *)
(***************************************************************************)
EXTENDS LifecycleHistory, StatusProjection, TLAPS

-----------------------------------------------------------------------------
\* The tables one by one.
LEMMA TableOf ==
    /\ Entity = {"Operation", "ApprovalRequest", "BundleRelease", "HarnessInstallation",
                 "EvidenceRecord", "PolicyBundle"}
    /\ Transitions["Operation"] = OperationTable
    /\ Transitions["ApprovalRequest"] = ApprovalTable
    /\ Transitions["BundleRelease"] = BundleReleaseTable
    /\ Transitions["HarnessInstallation"] = InstallationTable
    /\ Transitions["EvidenceRecord"] = EvidenceTable
    /\ Transitions["PolicyBundle"] = PolicyTable
BY DEF Entity, Transitions

LEMMA TargetsAreStates ==
    ASSUME NEW k \in Entity, NEW s \in States(k), NEW t \in Transitions[k][s]
    PROVE  t \in States(k)
<1>1. CASE k = "Operation"
  BY <1>1, TableOf DEF States, OperationTable
<1>2. CASE k = "ApprovalRequest"
  BY <1>2, TableOf DEF States, ApprovalTable
<1>3. CASE k = "BundleRelease"
  BY <1>3, TableOf DEF States, BundleReleaseTable
<1>4. CASE k = "HarnessInstallation"
  BY <1>4, TableOf DEF States, InstallationTable
<1>5. CASE k = "EvidenceRecord"
  BY <1>5, TableOf DEF States, EvidenceTable
<1>6. CASE k = "PolicyBundle"
  BY <1>6, TableOf DEF States, PolicyTable
<1>7. QED BY <1>1, <1>2, <1>3, <1>4, <1>5, <1>6, TableOf

\* An attempt holds the gates on the way to the state, not only those of the
\* states that Required names.
OnTheWay(k, s) ==
    CASE k = "BundleRelease" /\ s = "BUILT" -> {"RESOLVED"}
      [] k = "BundleRelease" /\ s = "SCANNED" -> {"RESOLVED", "BUILT"}
      [] k = "BundleRelease" /\ s = "AWAITING_SIGNATURE" -> {"RESOLVED", "BUILT", "SCANNED"}
      [] k = "BundleRelease" /\ s = "SIGNED" ->
            {"RESOLVED", "BUILT", "SCANNED", "AWAITING_SIGNATURE"}
      [] k = "PolicyBundle" /\ s = "SIGNED" -> {"VALIDATED"}
      [] k = "EvidenceRecord" /\ s = "REVOKED" -> {"VERIFIED"}
      [] k = "HarnessInstallation" /\ s # "ABSENT" -> {"PENDING"}
      [] OTHER -> {}

HistoryInv ==
    /\ kind \in Entity /\ current \in States(kind) /\ current \in attempt
    /\ Required(kind, current) \union OnTheWay(kind, current) \subseteq attempt
    /\ kind = "HarnessInstallation" /\ current \in {"READY", "UPGRADING", "DEGRADED"} =>
           attempt \intersect {"HEALTH_CHECKING", "ROLLING_BACK"} # {}
    /\ \A s \in attempt : s \in States(kind) /\ current \in Afterwards(kind, s)

-----------------------------------------------------------------------------
\* What an attempt holds after an allowed transition.
AttemptAfter(t, A) == IF t = "PENDING" THEN {t} ELSE A \union {t}
InService == {"READY", "UPGRADING", "DEGRADED"}
Checks == {"HEALTH_CHECKING", "ROLLING_BACK"}

LEMMA GatesKept ==
    ASSUME NEW k \in Entity, NEW s \in States(k), NEW t \in Transitions[k][s],
           NEW A, s \in A, Required(k, s) \union OnTheWay(k, s) \subseteq A
    PROVE  Required(k, t) \union OnTheWay(k, t) \subseteq AttemptAfter(t, A)
<1>1. CASE k = "Operation"
  BY <1>1, TableOf DEF States, OperationTable, Required, OnTheWay, AttemptAfter
<1>2. CASE k = "ApprovalRequest"
  BY <1>2, TableOf DEF States, ApprovalTable, Required, OnTheWay, AttemptAfter
<1>3. CASE k = "BundleRelease"
  BY <1>3, TableOf DEF States, BundleReleaseTable, Required, OnTheWay, AttemptAfter
<1>4. CASE k = "HarnessInstallation"
  BY <1>4, TableOf DEF States, InstallationTable, Required, OnTheWay, AttemptAfter
<1>5. CASE k = "EvidenceRecord"
  BY <1>5, TableOf DEF States, EvidenceTable, Required, OnTheWay, AttemptAfter
<1>6. CASE k = "PolicyBundle"
  BY <1>6, TableOf DEF States, PolicyTable, Required, OnTheWay, AttemptAfter
<1>7. QED BY <1>1, <1>2, <1>3, <1>4, <1>5, <1>6, TableOf

LEMMA ServiceIsChecked ==
    ASSUME NEW s \in States("HarnessInstallation"),
           NEW t \in Transitions["HarnessInstallation"][s] \intersect InService,
           NEW A, s \in A, s \in InService => A \intersect Checks # {}
    PROVE  AttemptAfter(t, A) \intersect Checks # {}
<1>1. s \in InService \union Checks
  BY TableOf DEF States, InstallationTable, InService, Checks
<1>2. t # "PENDING"
  BY DEF InService
<1>3. A \intersect Checks # {}
  BY <1>1
<1>4. QED BY <1>2, <1>3 DEF AttemptAfter

LEMMA AfterwardsHolds ==
    ASSUME NEW k \in Entity, NEW s \in States(k)
    PROVE  s \in Afterwards(k, s)
BY DEF Afterwards

LEMMA AfterwardsIsClosed ==
    ASSUME NEW k \in Entity, NEW s \in States(k), NEW x \in Afterwards(k, s), x \in States(k),
           NEW t \in Transitions[k][x]
    PROVE  t \in Afterwards(k, s)
<1>1. t \in States(k)
  BY TargetsAreStates
<1>2. CASE k = "Operation"
  BY <1>1, <1>2, TableOf DEF States, OperationTable, Afterwards, Final
<1>3. CASE k = "ApprovalRequest"
  BY <1>1, <1>3, TableOf DEF States, ApprovalTable, Afterwards, Final
<1>4. CASE k = "BundleRelease"
  BY <1>1, <1>4, TableOf DEF States, BundleReleaseTable, Afterwards, Final
<1>5. CASE k = "HarnessInstallation"
  BY <1>1, <1>5, TableOf DEF States, InstallationTable, Afterwards, Final
<1>6. CASE k = "EvidenceRecord"
  BY <1>1, <1>6, TableOf DEF States, EvidenceTable, Afterwards, Final
<1>7. CASE k = "PolicyBundle"
  BY <1>1, <1>7, TableOf DEF States, PolicyTable, Afterwards, Final
<1>8. QED BY <1>2, <1>3, <1>4, <1>5, <1>6, <1>7, TableOf

\* No state is more than three transitions from a final one.
LEMMA NoTraps ==
    ASSUME NEW k \in Entity, NEW s \in States(k)
    PROVE  s \in Nearer(k, Nearer(k, Nearer(k, Final(k))))
<1>1. \A x \in States(k) : \A y \in Transitions[k][x] : \A set :
          y \in set => x \in Nearer(k, set)
  BY DEF Nearer, TransitionAllowed
<1>2. \A set : set \subseteq Nearer(k, set)
  BY DEF Nearer
<1>3. CASE k = "Operation"
  BY <1>1, <1>2, <1>3, TableOf DEF States, OperationTable, Final
<1>4. CASE k = "ApprovalRequest"
  BY <1>1, <1>2, <1>4, TableOf DEF States, ApprovalTable, Final
<1>5. CASE k = "BundleRelease"
  BY <1>1, <1>2, <1>5, TableOf DEF States, BundleReleaseTable, Final
<1>6. CASE k = "HarnessInstallation"
  <2> DEFINE One == Nearer(k, Final(k))
             Two == Nearer(k, One)
             Three == Nearer(k, Two)
             Revocable == {"READY", "BLOCKED", "DEGRADED", "FAILED", "UPGRADING",
                           "ROLLING_BACK", "UNINSTALLING", "REMOVED", "RETIRED"}
             Failing == {"PENDING", "PREFLIGHT", "VERIFYING", "APPLYING", "HEALTH_CHECKING"}
  <2>1. States(k) = Revocable \union Failing \union {"ABSENT", "REVOKED"}
    BY <1>6, TableOf DEF States, InstallationTable
  <2>2. "REVOKED" \in Final(k)
    BY <1>6, TableOf DEF States, InstallationTable, Final
  <2>3. \A x \in Revocable : "REVOKED" \in Transitions[k][x]
    BY <1>6, TableOf DEF InstallationTable
  <2>4. \A x \in Failing : "FAILED" \in Transitions[k][x]
    BY <1>6, TableOf DEF InstallationTable
  <2>5. "PENDING" \in Transitions[k]["ABSENT"]
    BY <1>6, TableOf DEF InstallationTable
  <2>6. Revocable \union {"REVOKED"} \subseteq One
    BY <1>1, <1>2, <2>1, <2>2, <2>3
  <2> HIDE DEF One
  <2>7. Revocable \union Failing \union {"REVOKED"} \subseteq Two
    BY <1>1, <1>2, <2>1, <2>4, <2>6
  <2> HIDE DEF Two
  <2>8. States(k) \subseteq Three
    BY <1>1, <1>2, <2>1, <2>5, <2>7
  <2>9. QED BY <2>8 DEF One, Two
<1>7. CASE k = "EvidenceRecord"
  BY <1>1, <1>2, <1>7, TableOf DEF States, EvidenceTable, Final
<1>8. CASE k = "PolicyBundle"
  BY <1>1, <1>2, <1>8, TableOf DEF States, PolicyTable, Final
<1>9. QED BY <1>3, <1>4, <1>5, <1>6, <1>7, <1>8, TableOf

-----------------------------------------------------------------------------
LEMMA HistoryBegins == HistoryInit => HistoryInv
<1> SUFFICES ASSUME HistoryInit PROVE HistoryInv
  OBVIOUS
<1>1. kind \in Entity /\ current = Initial(kind) /\ attempt = {current}
  BY DEF HistoryInit
<1>2. current \in States(kind)
  BY <1>1, TableOf DEF Initial, States, OperationTable, ApprovalTable, BundleReleaseTable,
     InstallationTable, EvidenceTable, PolicyTable
<1>3. current \in Afterwards(kind, current)
  BY <1>1, <1>2, AfterwardsHolds
<1>4. Required(kind, current) \union OnTheWay(kind, current) = {}
  BY <1>1, TableOf DEF Initial, Required, OnTheWay
<1>5. current \notin {"READY", "UPGRADING", "DEGRADED"}
  BY <1>1, TableOf DEF Initial
<1>6. QED BY <1>1, <1>2, <1>3, <1>4, <1>5 DEF HistoryInv

\* A request that is not refused follows an arrow of the table.
LEMMA RequestFollowsTable ==
    ASSUME HistoryInv, NEW to, Request(to)
    PROVE  to \in Transitions[kind][current]
<1>1. Refusal(kind, current, to) = "none" /\ kind \in Entity /\ current \in States(kind)
  BY DEF Request, HistoryInv
<1>2. to \in States(kind)
  BY <1>1 DEF Refusal
<1>3. TransitionAllowed(kind, current, to)
  BY <1>1, <1>2 DEF Refusal
<1>4. QED BY <1>3 DEF TransitionAllowed

LEMMA RequestKeeps ==
    ASSUME HistoryInv, NEW to, Request(to)
    PROVE  HistoryInv' /\ \A s \in attempt : current' \in Afterwards(kind, s)
<1>1. /\ kind' = kind /\ current' = to /\ attempt' = AttemptAfter(to, attempt)
      /\ to \in Transitions[kind][current]
  BY RequestFollowsTable DEF Request, AttemptAfter
<1>2. /\ kind \in Entity /\ current \in States(kind) /\ current \in attempt
      /\ Required(kind, current) \union OnTheWay(kind, current) \subseteq attempt
      /\ \A s \in attempt : s \in States(kind) /\ current \in Afterwards(kind, s)
  BY DEF HistoryInv
<1>3. to \in States(kind)
  BY <1>1, <1>2, TargetsAreStates
<1>4. to \in attempt' /\ attempt' \subseteq attempt \union {to}
  BY <1>1 DEF AttemptAfter
<1>5. Required(kind, to) \union OnTheWay(kind, to) \subseteq attempt'
  BY <1>1, <1>2, GatesKept
<1>6. ASSUME kind = "HarnessInstallation", to \in InService
      PROVE  attempt' \intersect Checks # {}
  <2>1. current \in InService => attempt \intersect Checks # {}
    BY <1>6 DEF HistoryInv, InService, Checks
  <2>2. QED BY <1>1, <1>2, <1>6, <2>1, ServiceIsChecked
<1>7. \A s \in attempt : to \in Afterwards(kind, s)
  BY <1>1, <1>2, AfterwardsIsClosed
<1>8. \A s \in attempt' : s \in States(kind) /\ to \in Afterwards(kind, s)
  BY <1>2, <1>3, <1>4, <1>7, AfterwardsHolds
<1>9. HistoryInv'
  BY <1>1, <1>2, <1>3, <1>4, <1>5, <1>6, <1>8 DEF HistoryInv, InService, Checks
<1>10. QED BY <1>1, <1>7, <1>9

LEMMA HistoryInductive ==
    ASSUME HistoryInv, [HistoryNext]_historyVars
    PROVE  HistoryInv' /\ \A s \in attempt : current' \in Afterwards(kind, s)
<1>1. ASSUME NEW to, Request(to)
      PROVE  HistoryInv' /\ \A s \in attempt : current' \in Afterwards(kind, s)
  BY <1>1, RequestKeeps
<1>2. ASSUME UNCHANGED <<kind, current, attempt>>
      PROVE  HistoryInv' /\ \A s \in attempt : current' \in Afterwards(kind, s)
  BY <1>2 DEF HistoryInv
<1>3. QED BY <1>1, <1>2 DEF HistoryNext, RequestRefused, historyVars

LEMMA HistoryAlways == HistorySpec => []HistoryInv
BY HistoryBegins, HistoryInductive, PTL DEF HistorySpec

(* On every path through the tables no gate is skipped, and what is in     *)
(* service was checked or rolled back in the attempt.                      *)
THEOREM NoGateIsSkipped == HistorySpec => []GatesPassed
<1>1. HistoryInv => GatesPassed
  BY DEF HistoryInv, GatesPassed
<1>2. QED BY <1>1, HistoryAlways, PTL

(* From every state an owner can bring an entity to, three allowed         *)
(* transitions at the most lead to a final one.                            *)
THEOREM NoStateIsATrap == HistorySpec => []CanFinish
<1>1. HistoryInv => CanFinish
  BY NoTraps DEF HistoryInv, CanFinish
<1>2. QED BY <1>1, HistoryAlways, PTL

(* What was retired, superseded, released, cancelled or revoked is never   *)
(* taken back by a later request.                                          *)
THEOREM NothingIsTakenBack == HistorySpec => NoWayBack
<1>1. HistoryInv /\ [HistoryNext]_historyVars
          => [\A s \in attempt : current' \in Afterwards(kind, s)]_historyVars
  BY HistoryInductive
<1>2. QED BY <1>1, HistoryAlways, PTL DEF HistorySpec, NoWayBack

-----------------------------------------------------------------------------
LEMMA HealthIs == Health = {"READY", "DEGRADED", "BLOCKED", "FAILED", "REVOKED"}
BY DEF Health, Precedence

LEMMA Ranks ==
    /\ Precedence["READY"] = 0 /\ Precedence["DEGRADED"] = 1
    /\ Precedence["BLOCKED"] = 2 /\ Precedence["FAILED"] = 3
    /\ Precedence["REVOKED"] = 4
BY DEF Precedence

\* The worst of some health words is one of them, and the highest ranked.
LEMMA WorstOf ==
    ASSUME NEW S \in SUBSET Health, S # {}
    PROVE  Worst(S) \in S /\ \A t \in S : Precedence[t] <= Precedence[Worst(S)]
<1>1. \E s \in S : \A t \in S : Precedence[t] <= Precedence[s]
  <2>1. CASE "REVOKED" \in S
    BY <2>1, HealthIs, Ranks
  <2>2. CASE "REVOKED" \notin S /\ "FAILED" \in S
    BY <2>2, HealthIs, Ranks
  <2>3. CASE "REVOKED" \notin S /\ "FAILED" \notin S /\ "BLOCKED" \in S
    BY <2>3, HealthIs, Ranks
  <2>4. CASE /\ "REVOKED" \notin S /\ "FAILED" \notin S /\ "BLOCKED" \notin S
             /\ "DEGRADED" \in S
    BY <2>4, HealthIs, Ranks
  <2>5. CASE /\ "REVOKED" \notin S /\ "FAILED" \notin S /\ "BLOCKED" \notin S
             /\ "DEGRADED" \notin S
    <3>1. S = {"READY"}
      BY <2>5, HealthIs
    <3>2. QED BY <3>1, Ranks
  <2>6. QED BY <2>1, <2>2, <2>3, <2>4, <2>5
<1>2. QED BY <1>1 DEF Worst

\* The same as a list of cases.
LEMMA WorstByCases ==
    ASSUME NEW S \in SUBSET Health, S # {}
    PROVE  /\ "REVOKED" \in S => Worst(S) = "REVOKED"
           /\ "REVOKED" \notin S /\ "FAILED" \in S => Worst(S) = "FAILED"
           /\ "REVOKED" \notin S /\ "FAILED" \notin S /\ "BLOCKED" \in S =>
                  Worst(S) = "BLOCKED"
           /\ "REVOKED" \notin S /\ "FAILED" \notin S /\ "BLOCKED" \notin S
              /\ "DEGRADED" \in S => Worst(S) = "DEGRADED"
           /\ "REVOKED" \notin S /\ "FAILED" \notin S /\ "BLOCKED" \notin S
              /\ "DEGRADED" \notin S => Worst(S) = "READY"
<1>1. Worst(S) \in S /\ \A t \in S : Precedence[t] <= Precedence[Worst(S)]
  BY WorstOf
<1>2. Worst(S) \in {"READY", "DEGRADED", "BLOCKED", "FAILED", "REVOKED"}
  BY <1>1, HealthIs
<1>3. "REVOKED" \in S => Worst(S) = "REVOKED"
  BY <1>1, <1>2, Ranks
<1>4. "FAILED" \in S => Worst(S) \in {"FAILED", "REVOKED"}
  BY <1>1, <1>2, Ranks
<1>5. "BLOCKED" \in S => Worst(S) \in {"BLOCKED", "FAILED", "REVOKED"}
  BY <1>1, <1>2, Ranks
<1>6. "DEGRADED" \in S => Worst(S) \in {"DEGRADED", "BLOCKED", "FAILED", "REVOKED"}
  BY <1>1, <1>2, Ranks
<1>7. QED BY <1>1, <1>2, <1>3, <1>4, <1>5, <1>6

LEMMA AxisHealth ==
    ASSUME NEW x, x.required \in BOOLEAN, ~AxisRefused(x)
    PROVE  /\ AxisContribution(x) \in {"READY", "DEGRADED", "BLOCKED", "FAILED"}
           /\ AxisContribution(x) = "FAILED" <=> x.required /\ x.state = "FAIL"
           /\ AxisContribution(x) = "BLOCKED" <=>
                x.required /\ x.state \in {"MISSING", "COLLECTING", "STALE",
                                           "NOT_RUN_ENV_UNAVAILABLE"}
           /\ AxisContribution(x) = "DEGRADED" <=>
                \/ x.state \in {"WARN", "WAIVED"}
                \/ ~x.required /\ x.state \notin {"PASS", "NOT_APPLICABLE"}
BY DEF AxisContribution, AxisRefused, EvidenceStates

LEMMA InstallationHealth ==
    ASSUME NEW h
    PROVE  /\ OfInstallation(h) \in Health
           /\ OfInstallation(h) = "REVOKED" <=> h.installationState = "REVOKED"
           /\ OfInstallation(h) = "FAILED" <=> h.installationState = "FAILED"
           /\ OfInstallation(h) = "BLOCKED" <=>
                /\ h.installationState \notin {"REVOKED", "FAILED"}
                /\ \/ h.selectionState = "BLOCKED"
                   \/ h.installationState \notin {"READY", "DEGRADED"}
           /\ OfInstallation(h) = "DEGRADED" <=>
                /\ h.selectionState # "BLOCKED"
                /\ h.installationState = "DEGRADED"
BY HealthIs DEF OfInstallation

-----------------------------------------------------------------------------
\* A list of statuses that aggregate_status does not refuse.
Usable(list) ==
    /\ ~AggregateRefused(list)
    /\ \A i \in DOMAIN list :
        \A j \in DOMAIN list[i].axes : list[i].axes[j].required \in BOOLEAN

Words(h) == {OfInstallation(h)} \union
            {AxisContribution(h.axes[j]) : j \in DOMAIN h.axes}

LEMMA UsableAxes ==
    ASSUME NEW list, Usable(list), NEW h \in ActiveIn(list),
           NEW j \in DOMAIN h.axes
    PROVE  h.axes[j].required \in BOOLEAN /\ ~AxisRefused(h.axes[j])
BY DEF Usable, AggregateRefused, ActiveIn

LEMMA WordsAreHealth ==
    ASSUME NEW list, Usable(list), NEW h \in ActiveIn(list)
    PROVE  Words(h) \in SUBSET Health /\ Words(h) # {}
<1>1. \A j \in DOMAIN h.axes : AxisContribution(h.axes[j]) \in Health
  BY UsableAxes, AxisHealth, HealthIs
<1>2. QED BY <1>1, InstallationHealth DEF Words

(* All that is said of the active harnesses, with BLOCKED for an outdated  *)
(* projection.                                                             *)
Said(list, freshness) ==
    {w \in Health : \/ \E h \in ActiveIn(list) : w \in Words(h)
                    \/ freshness # "CURRENT" /\ w = "BLOCKED"}

LEMMA SaidHas ==
    ASSUME NEW list, Usable(list), NEW freshness, NEW w
    PROVE  w \in Said(list, freshness) <=>
             \/ \E h \in ActiveIn(list) : w \in Words(h)
             \/ freshness # "CURRENT" /\ w = "BLOCKED"
<1>1. \A h \in ActiveIn(list) : Words(h) \in SUBSET Health
  BY WordsAreHealth
<1>2. "BLOCKED" \in Health
  BY HealthIs
<1>3. QED BY <1>1, <1>2 DEF Said

\* Taking the worst per harness and then the worst of all is one worst.
LEMMA AggregateIsWorst ==
    ASSUME NEW list, Usable(list), ActiveIn(list) # {}, NEW freshness
    PROVE  /\ Said(list, freshness) \in SUBSET Health /\ Said(list, freshness) # {}
           /\ Aggregate(list, freshness) = Worst(Said(list, freshness))
<1> DEFINE late == IF freshness = "CURRENT" THEN {} ELSE {"BLOCKED"}
           C == {Contribution(h) : h \in ActiveIn(list)} \union late
           A == Said(list, freshness)
<1> HIDE DEF late
<1>0. /\ \A w : w \in late <=> freshness # "CURRENT" /\ w = "BLOCKED"
      /\ \A w : w \in A <=> \/ \E h \in ActiveIn(list) : w \in Words(h)
                          \/ w \in late
  <2>1. \A w : w \in late <=> freshness # "CURRENT" /\ w = "BLOCKED"
    <3>1. CASE freshness = "CURRENT"
      BY <3>1 DEF late
    <3>2. CASE freshness # "CURRENT"
      BY <3>2 DEF late
    <3>3. QED BY <3>1, <3>2
  <2>2. QED BY <2>1, SaidHas
<1>1. \A h \in ActiveIn(list) :
        /\ Words(h) \in SUBSET Health /\ Words(h) # {}
        /\ Contribution(h) = Worst(Words(h)) /\ Contribution(h) \in Words(h)
        /\ \A t \in Words(h) : Precedence[t] <= Precedence[Contribution(h)]
  BY WordsAreHealth, WorstOf DEF Contribution, Words
<1>2. A \in SUBSET Health /\ A # {}
  <2>1. A \in SUBSET Health
    BY DEF Said
  <2>2. PICK h \in ActiveIn(list) : TRUE
    OBVIOUS
  <2>3. Contribution(h) \in A
    BY <1>0, <1>1
  <2>4. QED BY <2>1, <2>3
<1>3. C \in SUBSET Health /\ C # {}
  BY <1>0, <1>1, HealthIs
<1>4. C \subseteq A
  BY <1>0, <1>1
<1>5. Worst(C) \in C /\ \A c \in C : Precedence[c] <= Precedence[Worst(C)]
  BY <1>3, WorstOf
<1>6. Worst(A) \in A /\ \A c \in A : Precedence[c] <= Precedence[Worst(A)]
  BY <1>2, WorstOf
<1>7. \A t \in Health : Precedence[t] \in Nat
  BY HealthIs, Ranks
<1>8. \A t \in A : \E c \in C : Precedence[t] <= Precedence[c]
  <2>1. ASSUME NEW t \in A PROVE \E c \in C : Precedence[t] <= Precedence[c]
    <3>1. CASE t \in late
      <4>1. t \in C /\ t \in Health
        BY <3>1, <1>3
      <4>2. QED BY <4>1, <1>7
    <3>2. CASE t \notin late
      <4>1. PICK h \in ActiveIn(list) : t \in Words(h)
        BY <3>2, <1>0
      <4>2. QED BY <4>1, <1>1
    <3>3. QED BY <3>1, <3>2
  <2>2. QED BY <2>1
<1>9. Precedence[Worst(A)] = Precedence[Worst(C)]
  BY <1>2, <1>3, <1>4, <1>5, <1>6, <1>7, <1>8
<1>10. Worst(A) = Worst(C)
  BY <1>2, <1>3, <1>5, <1>6, <1>9, HealthIs, Ranks
<1>11. QED BY <1>2, <1>10 DEF Aggregate, late

LEMMA SomeoneSays ==
    ASSUME NEW list, Usable(list), NEW freshness, NEW w, w # "BLOCKED"
    PROVE  w \in Said(list, freshness) <=>
             \/ \E h \in ActiveIn(list) : OfInstallation(h) = w
             \/ \E x \in AxesOf(ActiveIn(list)) : AxisContribution(x) = w
<1> DEFINE S == ActiveIn(list)
<1>1. w \in Said(list, freshness) <=> \E h \in S : w \in Words(h)
  BY SaidHas
<1>2. \A h \in S : w \in Words(h) <=>
        OfInstallation(h) = w \/ \E j \in DOMAIN h.axes : AxisContribution(h.axes[j]) = w
  BY DEF Words
<1>3. (\E x \in AxesOf(S) : AxisContribution(x) = w) <=>
        \E h \in S : \E j \in DOMAIN h.axes : AxisContribution(h.axes[j]) = w
  BY DEF AxesOf
<1>4. QED BY <1>1, <1>2, <1>3

LEMMA SomeoneBlocks ==
    ASSUME NEW list, Usable(list), NEW freshness
    PROVE  "BLOCKED" \in Said(list, freshness) <=>
             \/ freshness # "CURRENT"
             \/ \E h \in ActiveIn(list) : OfInstallation(h) = "BLOCKED"
             \/ \E x \in AxesOf(ActiveIn(list)) : AxisContribution(x) = "BLOCKED"
<1> DEFINE S == ActiveIn(list)
<1>1. "BLOCKED" \in Said(list, freshness) <=>
        freshness # "CURRENT" \/ \E h \in S : "BLOCKED" \in Words(h)
  BY SaidHas
<1>2. \A h \in S : "BLOCKED" \in Words(h) <=>
        \/ OfInstallation(h) = "BLOCKED"
        \/ \E j \in DOMAIN h.axes : AxisContribution(h.axes[j]) = "BLOCKED"
  BY DEF Words
<1>3. (\E x \in AxesOf(S) : AxisContribution(x) = "BLOCKED") <=>
        \E h \in S : \E j \in DOMAIN h.axes : AxisContribution(h.axes[j]) = "BLOCKED"
  BY DEF AxesOf
<1>4. QED BY <1>1, <1>2, <1>3

LEMMA AggregateAsDocumented ==
    ASSUME NEW list, Usable(list), NEW freshness
    PROVE  Aggregate(list, freshness) = Documented(list, freshness)
<1> DEFINE S == ActiveIn(list)
           A == Said(list, freshness)
<1>1. CASE S = {}
  BY <1>1 DEF Aggregate, Documented
<1>2. CASE S # {}
  <2>1. A \in SUBSET Health /\ A # {} /\ Aggregate(list, freshness) = Worst(A)
    BY <1>2, AggregateIsWorst
  <2>2. \A x \in AxesOf(S) : x.required \in BOOLEAN /\ ~AxisRefused(x)
    BY UsableAxes DEF AxesOf
  <2>3. "REVOKED" \in A <=> \E h \in S : h.installationState = "REVOKED"
    <3>1. \A x \in AxesOf(S) : AxisContribution(x) # "REVOKED"
      BY <2>2, AxisHealth
    <3>2. QED BY <3>1, SomeoneSays, InstallationHealth
  <2>4. "FAILED" \in A <=>
          \/ \E h \in S : h.installationState = "FAILED"
          \/ \E x \in AxesOf(S) : x.required /\ x.state = "FAIL"
    <3>1. \A x \in AxesOf(S) :
            AxisContribution(x) = "FAILED" <=> x.required /\ x.state = "FAIL"
      BY <2>2, AxisHealth
    <3>2. QED BY <3>1, SomeoneSays, InstallationHealth
  <2> DEFINE Held == \/ \E h \in S : h.selectionState = "BLOCKED"
                     \/ \E h \in S : h.installationState \notin {"READY", "DEGRADED"}
             Missed == \E x \in AxesOf(S) :
                         x.required /\ x.state \in {"MISSING", "COLLECTING",
                           "STALE", "NOT_RUN_ENV_UNAVAILABLE"}
             Weak == \E x \in AxesOf(S) :
                       \/ x.state \in {"WARN", "WAIVED"}
                       \/ ~x.required /\ x.state \notin {"PASS", "NOT_APPLICABLE"}
  <2>5. ASSUME "REVOKED" \notin A, "FAILED" \notin A
        PROVE  "BLOCKED" \in A <=> Held \/ Missed \/ freshness # "CURRENT"
    <3>1. \A h \in S : h.installationState \notin {"REVOKED", "FAILED"}
      BY <2>3, <2>4, <2>5
    <3>2. \A h \in S : OfInstallation(h) = "BLOCKED" <=>
            \/ h.selectionState = "BLOCKED"
            \/ h.installationState \notin {"READY", "DEGRADED"}
      BY <3>1, InstallationHealth
    <3>3. \A x \in AxesOf(S) : AxisContribution(x) = "BLOCKED" <=>
            x.required /\ x.state \in {"MISSING", "COLLECTING",
                                       "STALE", "NOT_RUN_ENV_UNAVAILABLE"}
      BY <2>2, AxisHealth
    <3>4. QED BY <3>2, <3>3, SomeoneBlocks
  <2>6. ASSUME "REVOKED" \notin A, "FAILED" \notin A, "BLOCKED" \notin A
        PROVE  "DEGRADED" \in A <=>
                 (\E h \in S : h.installationState = "DEGRADED") \/ Weak
    <3>1. \A h \in S : h.selectionState # "BLOCKED"
      <4>1. ~Held
        BY <2>5, <2>6
      <4>2. QED BY <4>1
    <3>2. \A h \in S : OfInstallation(h) = "DEGRADED" <=>
            h.installationState = "DEGRADED"
      BY <3>1, InstallationHealth
    <3>3. \A x \in AxesOf(S) : AxisContribution(x) = "DEGRADED" <=>
            \/ x.state \in {"WARN", "WAIVED"}
            \/ ~x.required /\ x.state \notin {"PASS", "NOT_APPLICABLE"}
      BY <2>2, AxisHealth
    <3>4. QED BY <3>2, <3>3, SomeoneSays
  <2>7. CASE "REVOKED" \in A
    BY <1>2, <2>1, <2>3, <2>7, WorstByCases DEF Documented
  <2>8. CASE "REVOKED" \notin A /\ "FAILED" \in A
    BY <1>2, <2>1, <2>3, <2>4, <2>8, WorstByCases DEF Documented
  <2>9. CASE "REVOKED" \notin A /\ "FAILED" \notin A /\ "BLOCKED" \in A
    BY <1>2, <2>1, <2>3, <2>4, <2>5, <2>9, WorstByCases DEF Documented
  <2>10. CASE /\ "REVOKED" \notin A /\ "FAILED" \notin A /\ "BLOCKED" \notin A
              /\ "DEGRADED" \in A
    BY <1>2, <2>1, <2>3, <2>4, <2>5, <2>6, <2>10, WorstByCases DEF Documented
  <2>11. CASE /\ "REVOKED" \notin A /\ "FAILED" \notin A /\ "BLOCKED" \notin A
              /\ "DEGRADED" \notin A
    BY <1>2, <2>1, <2>3, <2>4, <2>5, <2>6, <2>11, WorstByCases DEF Documented
  <2>12. QED BY <2>7, <2>8, <2>9, <2>10, <2>11
<1>3. QED BY <1>1, <1>2
-----------------------------------------------------------------------------
\* What is shown was computed from snapshot and binding, and both were accepted.
Computed ==
    /\ harnesses \in Snapshots /\ binding \in Bindings /\ now \in Nat
    /\ Shown => /\ ~AggregateRefused(harnesses) /\ ~FreshnessRefused(binding, result.at)
                /\ result.at \in Nat /\ result.at <= now
                /\ result.freshness = Freshness(binding, result.at)
                /\ result.outcome = Aggregate(harnesses, result.freshness)
                /\ result.worst # None =>
                     /\ ActiveIn(harnesses) # {}
                     /\ result.worst =
                          WorstInstallation({h.installationState : h \in ActiveIn(harnesses)})

LEMMA ComputedKept == Computed /\ [Next]_vars => Computed'
<1> SUFFICES ASSUME Computed, [Next]_vars PROVE Computed'
  OBVIOUS
<1>1. CASE Evaluate
  <2>1. /\ harnesses' = harnesses /\ binding' = binding /\ now' = now
        /\ result' = Evaluation(harnesses, binding, now)
    BY <1>1 DEF Evaluate
  <2>2. CASE FreshnessRefused(binding, now) \/ AggregateRefused(harnesses)
    <3>1. result'.outcome = "refused"
      BY <2>1, <2>2 DEF Evaluation, NoResult
    <3> QED BY <2>1, <3>1 DEF Computed, Shown
  <2>3. CASE ~FreshnessRefused(binding, now) /\ ~AggregateRefused(harnesses)
    <3>1. /\ result'.outcome = Aggregate(harnesses, Freshness(binding, now))
          /\ result'.freshness = Freshness(binding, now) /\ result'.at = now
          /\ result'.worst # None =>
               /\ ActiveIn(harnesses) # {}
               /\ result'.worst = WorstInstallation({h.installationState : h \in ActiveIn(harnesses)})
      BY <2>1, <2>3 DEF Evaluation
    <3>2. harnesses \in Snapshots /\ binding \in Bindings /\ now \in Nat /\ now <= now
      BY DEF Computed
    <3>3. ~FreshnessRefused(binding', result'.at) /\ ~AggregateRefused(harnesses')
      BY <2>1, <2>3, <3>1
    <3>4. Freshness(binding', result'.at) = result'.freshness
      BY <2>1, <3>1
    <3> QED BY <2>1, <3>1, <3>2, <3>3, <3>4 DEF Computed
  <2> QED BY <2>2, <2>3
<1>2. CASE Tick
  BY <1>2 DEF Tick, Computed, Shown
<1>3. CASE UNCHANGED vars
  BY <1>3 DEF vars, Computed, Shown
<1> QED BY <1>1, <1>2, <1>3 DEF Next

LEMMA ComputedAlways == Spec => []Computed
<1>1. Init => Computed
  BY DEF Init, Computed, Shown, NoResult
<1> QED BY <1>1, ComputedKept, PTL DEF Spec

LEMMA ShownIsUsable == Computed /\ Shown => Usable(harnesses)
BY SnapshotsTyped DEF Usable, Computed

(* Whatever the snapshot, what is shown of it is what the documented       *)
(* precedence gives (aggregate_status against                              *)
(* docs/status-projections.md).                                            *)
THEOREM PrecedenceAsDocumented == Spec => []FollowsDocumentedPrecedence
<1>1. Computed => FollowsDocumentedPrecedence
  BY ShownIsUsable, AggregateAsDocumented DEF Computed, FollowsDocumentedPrecedence
<1>2. QED BY <1>1, ComputedAlways, PTL

-----------------------------------------------------------------------------
\* A word of health weighs at least what an outdated projection does.
LEMMA OutdatedIsBlocked ==
    ASSUME NEW list, Usable(list), ActiveIn(list) # {}, NEW freshness, freshness # "CURRENT"
    PROVE  Aggregate(list, freshness) \notin {"READY", "DEGRADED"}
<1>1. /\ Said(list, freshness) \in SUBSET Health
      /\ Aggregate(list, freshness) = Worst(Said(list, freshness))
  BY AggregateIsWorst
<1>2. "BLOCKED" \in Said(list, freshness)
  BY HealthIs DEF Said
<1>3. Precedence["BLOCKED"] <= Precedence[Worst(Said(list, freshness))]
  BY <1>1, <1>2, WorstOf
<1> QED BY <1>1, <1>3, Ranks

(* For any snapshot and binding a healthy answer is what an evaluation     *)
(* would still give until freshUntil, and is healthy no longer after it    *)
(* (classify_freshness as aggregate_status uses it).                       *)
THEOREM HealthLastsWhileFresh == Spec => []HealthyUntilFreshUntil
<1>1. Computed => HealthyUntilFreshUntil
  <2> DEFINE again == Evaluation(harnesses, binding, now).outcome
             Unavailable == \E i \in DOMAIN binding.sourceCursors :
                                binding.sourceCursors[i].state = "SOURCE_UNAVAILABLE"
  <2> SUFFICES ASSUME Computed, result.outcome \in {"READY", "DEGRADED"}
               PROVE  /\ binding.projectedAt <= result.at
                      /\ \A i \in DOMAIN binding.sourceCursors :
                             binding.sourceCursors[i].state = "CURRENT"
                      /\ now <= binding.freshUntil => again = result.outcome
                      /\ ~(now <= binding.freshUntil) => again \notin {"READY", "DEGRADED"}
    BY DEF HealthyUntilFreshUntil
  <2>1. Shown
    BY DEF Shown, None
  <2>2. ActiveIn(harnesses) # {} /\ Usable(harnesses)
    BY <2>1, ShownIsUsable DEF Computed, Aggregate
  <2>3. Freshness(binding, result.at) = "CURRENT"
    BY <2>1, <2>2, OutdatedIsBlocked DEF Computed
  <2>4. /\ binding.projectedAt \in Nat /\ binding.freshUntil \in Nat
        /\ result.at \in Nat /\ now \in Nat /\ result.at <= now
        /\ ~FreshnessRefused(binding, result.at) /\ ~AggregateRefused(harnesses)
    BY <2>1, BindingsTyped DEF Computed
  <2>5. /\ binding.projectedAt <= result.at /\ ~Unavailable
        /\ \A i \in DOMAIN binding.sourceCursors :
               binding.sourceCursors[i].state = "CURRENT"
    BY <2>3, <2>4 DEF Freshness, FreshnessRefused
  <2>6. ~FreshnessRefused(binding, now)
    BY <2>4 DEF FreshnessRefused
  <2>7. again = Aggregate(harnesses, Freshness(binding, now))
    BY <2>4, <2>6 DEF Evaluation
  <2>8. ASSUME now <= binding.freshUntil PROVE again = result.outcome
    <3>1. Freshness(binding, now) = "CURRENT"
      BY <2>4, <2>5, <2>8 DEF Freshness
    <3>2. result.outcome = Aggregate(harnesses, "CURRENT")
      BY <2>1, <2>3 DEF Computed
    <3> QED BY <2>7, <3>1, <3>2
  <2>9. ASSUME ~(now <= binding.freshUntil) PROVE again \notin {"READY", "DEGRADED"}
    <3>1. Freshness(binding, now) # "CURRENT"
      BY <2>4, <2>9 DEF Freshness
    <3> QED BY <2>2, <2>7, <3>1, OutdatedIsBlocked
  <2> HIDE DEF again
  <2> QED BY <2>5, <2>8, <2>9
<1> QED BY <1>1, ComputedAlways, PTL

-----------------------------------------------------------------------------
InstallationStates ==
    {"REVOKED", "FAILED", "BLOCKED", "DEGRADED", "ROLLING_BACK", "UNINSTALLING",
     "UPGRADING", "HEALTH_CHECKING", "APPLYING", "VERIFYING", "PREFLIGHT", "PENDING",
     "ABSENT", "REMOVED", "RETIRED", "READY"}

LEMMA InstallationRanks ==
    /\ States("HarnessInstallation") = InstallationStates
    /\ InstallationPrecedence["REVOKED"] = 150
    /\ InstallationPrecedence["FAILED"] = 140
    /\ InstallationPrecedence["BLOCKED"] = 130
    /\ InstallationPrecedence["DEGRADED"] = 120
    /\ InstallationPrecedence["ROLLING_BACK"] = 110
    /\ InstallationPrecedence["UNINSTALLING"] = 100
    /\ InstallationPrecedence["UPGRADING"] = 90
    /\ InstallationPrecedence["HEALTH_CHECKING"] = 80
    /\ InstallationPrecedence["APPLYING"] = 70
    /\ InstallationPrecedence["VERIFYING"] = 60
    /\ InstallationPrecedence["PREFLIGHT"] = 50
    /\ InstallationPrecedence["PENDING"] = 40
    /\ InstallationPrecedence["ABSENT"] = 30
    /\ InstallationPrecedence["REMOVED"] = 20
    /\ InstallationPrecedence["RETIRED"] = 10
    /\ InstallationPrecedence["READY"] = 0
BY DEF States, Transitions, InstallationTable, InstallationStates, InstallationPrecedence

\* The worst of some installation states is one of them, and no other is worse.
LEMMA WorstInstallationOf ==
    ASSUME NEW S \in SUBSET InstallationStates, S # {}
    PROVE  /\ WorstInstallation(S) \in S
           /\ \A t \in S :
                InstallationPrecedence[t] <= InstallationPrecedence[WorstInstallation(S)]
<1> DEFINE Above(r) == \E t \in S : r <= InstallationPrecedence[t]
           Top == \E s \in S : \A t \in S : InstallationPrecedence[t] <= InstallationPrecedence[s]
<1>1. Above(130) => Top
  BY InstallationRanks DEF InstallationStates
<1>2. ~Above(130) /\ Above(100) => Top
  BY InstallationRanks DEF InstallationStates
<1>3. ~Above(100) /\ Above(70) => Top
  BY InstallationRanks DEF InstallationStates
<1>4. ~Above(70) /\ Above(40) => Top
  BY InstallationRanks DEF InstallationStates
<1>5. ~Above(40) /\ Above(0) => Top
  BY InstallationRanks DEF InstallationStates
<1>6. Above(0)
  <2>1. PICK t \in S : TRUE
    OBVIOUS
  <2>2. 0 <= InstallationPrecedence[t]
    BY <2>1, InstallationRanks DEF InstallationStates
  <2> QED BY <2>2
<1>7. Top
  BY <1>6, <1>1, <1>2, <1>3, <1>4, <1>5
<1> QED BY <1>7 DEF WorstInstallation

(* What is displayed as the worst installation state does not contradict   *)
(* the aggregate next to it, for any number of harnesses                   *)
(* (worst_installation_state and aggregate_status).                        *)
THEOREM DisplayIsConsistent == Spec => []DisplayAgrees
<1>1. Computed => DisplayAgrees
  <2> SUFFICES ASSUME Computed, Shown, result.worst # None PROVE DisplayAgrees
    BY DEF DisplayAgrees
  <2> DEFINE active == ActiveIn(harnesses)
             S == {h.installationState : h \in active}
             A == Said(harnesses, result.freshness)
  <2>1. /\ Usable(harnesses) /\ active # {} /\ result.worst = WorstInstallation(S)
        /\ result.outcome = Aggregate(harnesses, result.freshness)
    BY ShownIsUsable DEF Computed
  <2>2. S \in SUBSET InstallationStates /\ S # {}
    <3>1. \A i \in DOMAIN harnesses : harnesses[i].installationState \in InstallationStates
      BY <2>1, InstallationRanks DEF Usable, AggregateRefused
    <3>2. \A h \in active : h.installationState \in InstallationStates
      BY <3>1 DEF ActiveIn
    <3> QED BY <2>1, <3>2
  <2>3. result.worst \in S
        /\ \A t \in S : InstallationPrecedence[t] <= InstallationPrecedence[result.worst]
    BY <2>1, <2>2, WorstInstallationOf
  <2>4. A \in SUBSET Health /\ A # {} /\ result.outcome = Worst(A)
    BY <2>1, AggregateIsWorst
  <2>5. \A h \in active : OfInstallation(h) \in A
    BY <2>1, InstallationHealth, SaidHas DEF Words
  <2>6. "REVOKED" \in A <=> "REVOKED" \in S
    <3>1. \A x \in AxesOf(active) : AxisContribution(x) # "REVOKED"
      BY <2>1, UsableAxes, AxisHealth DEF AxesOf
    <3>2. "REVOKED" \in A <=> \E h \in active : OfInstallation(h) = "REVOKED"
      BY <2>1, <3>1, SomeoneSays
    <3> QED BY <3>2, InstallationHealth
  <2>7. "FAILED" \in S => "FAILED" \in A
    BY <2>5, InstallationHealth
  <2>8. result.worst = "REVOKED" <=> "REVOKED" \in S
    BY <2>2, <2>3, InstallationRanks DEF InstallationStates
  <2>9. result.worst = "REVOKED" <=> result.outcome = "REVOKED"
    BY <2>4, <2>6, <2>8, WorstByCases
  <2>10. result.worst = "FAILED" => result.outcome = "FAILED"
    BY <2>3, <2>4, <2>6, <2>7, <2>8, WorstByCases
  <2>11. ASSUME result.outcome = "READY" PROVE result.worst = "READY"
    <3>1. A = {"READY"}
      BY <2>4, <2>11, WorstByCases, HealthIs
    <3>2. \A h \in active : h.installationState = "READY"
      BY <3>1, <2>5 DEF OfInstallation
    <3> QED BY <3>2, <2>3
  <2> QED BY <2>9, <2>10, <2>11 DEF DisplayAgrees
<1> QED BY <1>1, ComputedAlways, PTL

-----------------------------------------------------------------------------
\* Losing freshness never improves the aggregate.
LEMMA OutdatedIsNoBetter ==
    ASSUME NEW list, Usable(list), ActiveIn(list) # {}, NEW freshness
    PROVE  Precedence[Aggregate(list, "CURRENT")] <= Precedence[Aggregate(list, freshness)]
<1>1. /\ Said(list, "CURRENT") \in SUBSET Health /\ Said(list, "CURRENT") # {}
      /\ Aggregate(list, "CURRENT") = Worst(Said(list, "CURRENT"))
      /\ Said(list, freshness) \in SUBSET Health /\ Said(list, freshness) # {}
      /\ Aggregate(list, freshness) = Worst(Said(list, freshness))
  BY AggregateIsWorst
<1>2. Said(list, "CURRENT") \subseteq Said(list, freshness)
  BY DEF Said
<1> QED BY <1>1, <1>2, WorstOf

(* Time alone never improves what is shown of a projection, nor makes an   *)
(* accepted one refused (repeated calls of classify_freshness and          *)
(* aggregate_status at later times).                                       *)
THEOREM TimeOnlyWorsens == Spec => OnlyWorsens
<1> DEFINE A == Shown =>
         /\ result'.outcome # "refused"
         /\ result.outcome \in Health =>
                Precedence[result.outcome] <= Precedence[result'.outcome]
<1>1. Computed /\ Computed' /\ [Next]_vars => [A]_vars
  <2> SUFFICES ASSUME Computed, Computed', Evaluate \/ Tick, Shown
               PROVE  /\ result'.outcome # "refused"
                      /\ result.outcome \in Health =>
                             Precedence[result.outcome] <= Precedence[result'.outcome]
    BY DEF Next
  <2>0. \A w \in Health : Precedence[w] \in Nat
    BY HealthIs, Ranks
  <2>1. CASE Tick
    BY <2>0, <2>1 DEF Tick, Shown
  <2>2. CASE Evaluate
    <3>1. /\ result' = Evaluation(harnesses, binding, now)
          /\ ~AggregateRefused(harnesses) /\ ~FreshnessRefused(binding, result.at)
          /\ result.at \in Nat /\ now \in Nat /\ result.at <= now
          /\ binding.projectedAt \in Nat /\ binding.freshUntil \in Nat
      BY <2>2, BindingsTyped DEF Evaluate, Computed
    <3>2. ~FreshnessRefused(binding, now)
      BY <3>1 DEF FreshnessRefused
    <3>3. result'.outcome = Aggregate(harnesses, Freshness(binding, now))
      BY <3>1, <3>2 DEF Evaluation
    <3>4. result.outcome = Aggregate(harnesses, Freshness(binding, result.at))
      BY DEF Computed
    <3>5. ActiveIn(harnesses) = {} => result'.outcome = "EMPTY" /\ result.outcome = "EMPTY"
      BY <3>3, <3>4 DEF Aggregate
    <3>6. ASSUME ActiveIn(harnesses) # {}
          PROVE  /\ result'.outcome \in Health
                 /\ Precedence[result.outcome] <= Precedence[result'.outcome]
      <4>1. result'.outcome \in Health
        BY <3>3, <3>6, ShownIsUsable, AggregateIsWorst, WorstOf
      <4>2. CASE Freshness(binding, result.at) = "CURRENT"
        <5>1. Usable(harnesses)
          BY ShownIsUsable
        <5> DEFINE later == Aggregate(harnesses, Freshness(binding, now))
        <5>2. Precedence[Aggregate(harnesses, "CURRENT")] <= Precedence[later]
          BY <3>6, <5>1, OutdatedIsNoBetter
        <5>3. Aggregate(harnesses, "CURRENT") = result.outcome
          BY <4>2, <3>4
        <5>4. result'.outcome = later
          BY <3>3
        <5> HIDE DEF later
        <5>5. Precedence[result.outcome] <= Precedence[result'.outcome]
          BY <5>2, <5>3, <5>4
        <5> QED BY <5>5, <4>1
      <4>3. CASE Freshness(binding, result.at) # "CURRENT"
        <5>1. Freshness(binding, now) = Freshness(binding, result.at)
          BY <4>3, <3>1 DEF Freshness
        <5> QED BY <5>1, <4>1, <3>3, <3>4, <2>0
      <4> QED BY <4>1, <4>2, <4>3
    <3>7. "EMPTY" \notin Health /\ "refused" \notin Health
      BY HealthIs
    <3> QED BY <3>5, <3>6, <3>7
  <2> QED BY <2>1, <2>2
<1> QED BY <1>1, ComputedAlways, PTL DEF Spec, OnlyWorsens
=============================================================================
