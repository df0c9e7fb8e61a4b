-------------------------- MODULE StatusProjection --------------------------
(***************************************************************************)
(* state_machine.classify_freshness and aggregate_status: one projection   *)
(* (a snapshot of harness statuses with the times and sources it was made  *)
(* from) that is evaluated again and again while time passes.              *)
(***************************************************************************)
EXTENDS Lifecycle, Sequences, Naturals, FiniteSets

CONSTANTS
    Snapshots,   \* lists of harness statuses, in arrival order
    Bindings,    \* times and source cursors
    MaxTime      \* bound of the clock

ASSUME SnapshotsTyped ==
    \A list \in Snapshots : \A i \in DOMAIN list :
        \A j \in DOMAIN list[i].axes : list[i].axes[j].required \in BOOLEAN
ASSUME TimeTyped == MaxTime \in Nat
ASSUME BindingsTyped == \A b \in Bindings : b.projectedAt \in Nat /\ b.freshUntil \in Nat

VARIABLES
    harnesses,   \* argument of aggregate_status
    binding,     \* argument of classify_freshness
    now,         \* evaluated_at of the next evaluation
    result       \* what the last evaluation gave

vars == <<harnesses, binding, now, result>>

SelectionStates == {"NOT_SELECTED", "PROPOSED", "SELECTED", "BLOCKED"}
EvidenceStates ==
    {"NOT_APPLICABLE", "MISSING", "COLLECTING", "PASS", "WARN", "FAIL",
     "STALE", "WAIVED", "NOT_RUN_ENV_UNAVAILABLE"}
None == "none"

Distinct(list, id(_)) ==
    \A i, j \in DOMAIN list : id(list[i]) = id(list[j]) => i = j
-----------------------------------------------------------------------------
(* classify_freshness.                                                     *)

FreshnessRefused(b, evaluatedAt) ==
    \/ b.freshUntil < b.projectedAt
    \/ evaluatedAt < b.projectedAt
    \/ b.sourceCursors = <<>>
    \/ ~Distinct(b.sourceCursors, LAMBDA c : c.sourceId)
    \/ \E i \in DOMAIN b.sourceCursors :
           \/ b.sourceCursors[i].observedAt > b.projectedAt
           \/ b.sourceCursors[i].state \notin {"CURRENT", "SOURCE_UNAVAILABLE"}

\* Mutant: outdated at freshUntil already.
FreshnessBeforeTheEnd(b, evaluatedAt) ==
    IF \E i \in DOMAIN b.sourceCursors :
           b.sourceCursors[i].state = "SOURCE_UNAVAILABLE"
      THEN "SOURCE_UNAVAILABLE"
      ELSE IF evaluatedAt >= b.freshUntil THEN "STALE" ELSE "CURRENT"

\* Mutant: the age is compared for equality.
FreshnessAtTheEnd(b, evaluatedAt) ==
    IF \E i \in DOMAIN b.sourceCursors :
           b.sourceCursors[i].state = "SOURCE_UNAVAILABLE"
      THEN "SOURCE_UNAVAILABLE"
      ELSE IF evaluatedAt = b.freshUntil + 1 THEN "STALE" ELSE "CURRENT"

Freshness(b, evaluatedAt) ==
    IF \E i \in DOMAIN b.sourceCursors :
           b.sourceCursors[i].state = "SOURCE_UNAVAILABLE"
      THEN "SOURCE_UNAVAILABLE"
      ELSE IF evaluatedAt > b.freshUntil THEN "STALE" ELSE "CURRENT"
-----------------------------------------------------------------------------
(* _axis_contribution.                                                     *)

AxisRefused(x) ==
    \/ x.state \notin EvidenceStates
    \/ /\ x.state = "WAIVED"
       /\ x.underlyingState \notin EvidenceStates \
              {"PASS", "NOT_APPLICABLE", "WAIVED"}
    \/ x.state # "WAIVED" /\ x.underlyingState # None
    \/ x.state = "NOT_APPLICABLE" /\ ~x.applicability

AxisContribution(x) ==
    CASE x.state \in {"PASS", "NOT_APPLICABLE"} -> "READY"
      [] x.state = "FAIL" /\ x.required -> "FAILED"
      [] x.state \in {"MISSING", "COLLECTING", "STALE",
                      "NOT_RUN_ENV_UNAVAILABLE"} /\ x.required -> "BLOCKED"
      [] OTHER -> "DEGRADED"
-----------------------------------------------------------------------------
(* aggregate_status.                                                       *)

Active(h) == h.selectionState \in {"SELECTED", "BLOCKED"}

\* Axes are looked at only for harnesses that contribute.
AggregateRefused(list) ==
    \/ ~Distinct(list, LAMBDA h : h.harnessId)
    \/ \E i \in DOMAIN list :
           \/ list[i].selectionState \notin SelectionStates
           \/ list[i].installationState \notin States("HarnessInstallation")
           \/ ~Distinct(list[i].axes, LAMBDA x : x.axis)
           \/ /\ Active(list[i])
              /\ \E j \in DOMAIN list[i].axes : AxisRefused(list[i].axes[j])

Precedence == [READY |-> 0, DEGRADED |-> 1, BLOCKED |-> 2, FAILED |-> 3,
               REVOKED |-> 4]
Health == DOMAIN Precedence

\* The inner loop keeps the worse of two, and REVOKED once it is there.
Worst(S) == CHOOSE s \in S : \A t \in S : Precedence[t] <= Precedence[s]

OfInstallation(h) ==
    IF h.installationState \in {"REVOKED", "FAILED"} THEN h.installationState
    ELSE IF h.selectionState = "BLOCKED" THEN "BLOCKED"
    ELSE IF h.installationState \in {"READY", "DEGRADED"}
         THEN h.installationState
    ELSE "BLOCKED"

Contribution(h) ==
    Worst({OfInstallation(h)} \union
          {AxisContribution(h.axes[j]) : j \in DOMAIN h.axes})

ActiveIn(list) == {list[i] : i \in {j \in DOMAIN list : Active(list[j])}}

\* Mutant: an outdated projection is blocked before anything is looked at.
AggregateOutdatedFirst(list, freshness) ==
    IF ActiveIn(list) = {} THEN "EMPTY"
    ELSE IF freshness # "CURRENT" THEN "BLOCKED"
    ELSE Worst({Contribution(h) : h \in ActiveIn(list)})

\* An outdated projection weighs as much as a blocked harness.
Aggregate(list, freshness) ==
    IF ActiveIn(list) = {} THEN "EMPTY"
    ELSE Worst({Contribution(h) : h \in ActiveIn(list)}
               \union IF freshness = "CURRENT" THEN {} ELSE {"BLOCKED"})

Contributing(list) ==
    {h.harnessId : h \in {a \in ActiveIn(list) : Contribution(a) # "READY"}}

InstallationPrecedence ==
    [REVOKED |-> 150, FAILED |-> 140, BLOCKED |-> 130, DEGRADED |-> 120,
     ROLLING_BACK |-> 110, UNINSTALLING |-> 100, UPGRADING |-> 90,
     HEALTH_CHECKING |-> 80, APPLYING |-> 70, VERIFYING |-> 60,
     PREFLIGHT |-> 50, PENDING |-> 40, ABSENT |-> 30, REMOVED |-> 20,
     RETIRED |-> 10, READY |-> 0]

\* Mutant: min and max confused.
WorstInstallationLeast(S) ==
    CHOOSE s \in S : \A t \in S :
        InstallationPrecedence[s] <= InstallationPrecedence[t]

WorstInstallation(S) ==
    CHOOSE s \in S : \A t \in S :
        InstallationPrecedence[t] <= InstallationPrecedence[s]
-----------------------------------------------------------------------------
(* A service evaluates the projection at the present time, any number of   *)
(* times, and shows what comes out.                                        *)

NoResult == [outcome |-> None, freshness |-> None, contributing |-> {},
             worst |-> None, at |-> 0]

Evaluation(list, b, time) ==
    IF FreshnessRefused(b, time) \/ AggregateRefused(list)
    THEN [NoResult EXCEPT !.outcome = "refused", !.at = time]
    ELSE [outcome |-> Aggregate(list, Freshness(b, time)),
          freshness |-> Freshness(b, time),
          contributing |-> Contributing(list),
          worst |-> IF ActiveIn(list) = {} THEN None
                    ELSE WorstInstallation({h.installationState :
                                               h \in ActiveIn(list)}),
          at |-> time]

Evaluate ==
    /\ result' = Evaluation(harnesses, binding, now)
    /\ UNCHANGED <<harnesses, binding, now>>

Tick ==
    /\ now < MaxTime
    /\ now' = now + 1
    /\ UNCHANGED <<harnesses, binding, result>>

Init ==
    /\ harnesses \in Snapshots
    /\ binding \in Bindings
    /\ now = 0
    /\ result = NoResult

Next == Evaluate \/ Tick

Spec == Init /\ [][Next]_vars
-----------------------------------------------------------------------------
Shown == result.outcome \notin {None, "refused"}

(* The rules of docs/status-projections.md, 1 to 6, read on the raw         *)
(* statuses.  NOT_APPLICABLE counts as pass where it passed validation.     *)
AxesOf(S) == UNION {{h.axes[j] : j \in DOMAIN h.axes} : h \in S}

Documented(list, freshness) ==
    LET S == ActiveIn(list)
    IN  IF S = {} THEN "EMPTY"
        ELSE IF \E h \in S : h.installationState = "REVOKED" THEN "REVOKED"
        ELSE IF \/ \E h \in S : h.installationState = "FAILED"
                \/ \E x \in AxesOf(S) : x.required /\ x.state = "FAIL"
             THEN "FAILED"
        ELSE IF \/ \E h \in S : h.selectionState = "BLOCKED"
                \/ \E h \in S : h.installationState \notin {"READY", "DEGRADED"}
                \/ \E x \in AxesOf(S) :
                       x.required /\ x.state \in {"MISSING", "COLLECTING",
                           "STALE", "NOT_RUN_ENV_UNAVAILABLE"}
                \/ freshness # "CURRENT"
             THEN "BLOCKED"
        ELSE IF \/ \E h \in S : h.installationState = "DEGRADED"
                \/ \E x \in AxesOf(S) :
                       \/ x.state \in {"WARN", "WAIVED"}
                       \/ ~x.required /\ x.state \notin {"PASS", "NOT_APPLICABLE"}
             THEN "DEGRADED"
        ELSE "READY"

(* The two-level aggregation over installations, selections, axes and      *)
(* freshness gives what the documented precedence gives on the whole       *)
(* snapshot (aggregate_status against docs/status-projections.md).         *)
FollowsDocumentedPrecedence ==
    Shown => result.outcome = Documented(harnesses, result.freshness)

(* A healthy answer is of a projection whose sources were all there, and   *)
(* whoever still shows it later can tell by freshUntil alone whether it    *)
(* holds: up to then an evaluation would give the same, after it nothing   *)
(* healthy (classify_freshness and aggregate_status between an evaluation  *)
(* and the use of its result).                                             *)
HealthyUntilFreshUntil ==
    result.outcome \in {"READY", "DEGRADED"} =>
        /\ binding.projectedAt <= result.at
        /\ \A i \in DOMAIN binding.sourceCursors :
               binding.sourceCursors[i].state = "CURRENT"
        /\ LET again == Evaluation(harnesses, binding, now).outcome
           IN  IF now <= binding.freshUntil THEN again = result.outcome
               ELSE again \notin {"READY", "DEGRADED"}

(* The worst installation state that is displayed does not contradict the  *)
(* aggregate next to it.                                                   *)
DisplayAgrees ==
    Shown /\ result.worst # None =>
        /\ result.worst = "REVOKED" <=> result.outcome = "REVOKED"
        /\ result.worst = "FAILED" => result.outcome = "FAILED"
        /\ result.outcome = "READY" => result.worst = "READY"

(* While one projection is served, time alone never improves what is       *)
(* shown, and what was shown is not refused later.                         *)
OnlyWorsens ==
    [][Shown =>
         /\ result'.outcome # "refused"
         /\ result.outcome \in Health =>
                Precedence[result.outcome] <= Precedence[result'.outcome]]_vars
=============================================================================
