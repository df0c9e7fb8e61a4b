----------------------------- MODULE Lifecycle -----------------------------
(***************************************************************************)
(* state_machine.TRANSITIONS and the two functions that answer from it.    *)
(* A table maps each state of an entity kind to the states it may go to.   *)
(***************************************************************************)

OperationTable ==
    [PENDING    |-> {"RUNNING", "CANCELLED"},
     RUNNING    |-> {"SUCCEEDED", "FAILED", "CANCELLING"},
     CANCELLING |-> {"CANCELLED", "FAILED"},
     SUCCEEDED  |-> {},
     FAILED     |-> {},
     CANCELLED  |-> {}]

ApprovalTable ==
    [PENDING   |-> {"APPROVED", "REJECTED", "EXPIRED", "CANCELLED"},
     APPROVED  |-> {},
     REJECTED  |-> {},
     EXPIRED   |-> {},
     CANCELLED |-> {}]

BundleReleaseTable ==
    [DRAFT              |-> {"RESOLVED", "FAILED", "SUPERSEDED"},
     RESOLVED           |-> {"BUILT", "FAILED", "SUPERSEDED"},
     BUILT              |-> {"SCANNED", "FAILED", "SUPERSEDED"},
     SCANNED            |-> {"AWAITING_SIGNATURE", "FAILED", "SUPERSEDED"},
     AWAITING_SIGNATURE |-> {"SIGNED", "FAILED", "SUPERSEDED"},
     SIGNED             |-> {"RELEASED", "FAILED", "SUPERSEDED"},
     RELEASED           |-> {"SUPERSEDED", "REVOKED"},
     FAILED             |-> {},
     SUPERSEDED         |-> {"REVOKED"},
     REVOKED            |-> {}]

InstallationTable ==
    [ABSENT          |-> {"PENDING"},
     PENDING         |-> {"PREFLIGHT", "BLOCKED", "FAILED"},
     PREFLIGHT       |-> {"VERIFYING", "BLOCKED", "FAILED"},
     VERIFYING       |-> {"APPLYING", "BLOCKED", "FAILED"},
     APPLYING        |-> {"HEALTH_CHECKING", "BLOCKED", "FAILED",
                          "ROLLING_BACK"},
     HEALTH_CHECKING |-> {"READY", "DEGRADED", "BLOCKED", "FAILED",
                          "ROLLING_BACK"},
     READY           |-> {"DEGRADED", "UPGRADING", "UNINSTALLING", "RETIRED",
                          "REVOKED"},
     BLOCKED         |-> {"PENDING", "ROLLING_BACK", "UNINSTALLING",
                          "REVOKED"},
     DEGRADED        |-> {"READY", "BLOCKED", "FAILED", "UPGRADING",
                          "ROLLING_BACK", "UNINSTALLING", "REVOKED"},
     FAILED          |-> {"PENDING", "ROLLING_BACK", "UNINSTALLING",
                          "REVOKED"},
     UPGRADING       |-> {"VERIFYING", "HEALTH_CHECKING", "READY", "DEGRADED",
                          "FAILED", "ROLLING_BACK", "REVOKED"},
     ROLLING_BACK    |-> {"VERIFYING", "HEALTH_CHECKING", "READY", "DEGRADED",
                          "FAILED", "REVOKED"},
     UNINSTALLING    |-> {"REMOVED", "FAILED", "REVOKED"},
     REMOVED         |-> {"PENDING", "RETIRED", "REVOKED"},
     RETIRED         |-> {"REVOKED"},
     REVOKED         |-> {}]

EvidenceTable ==
    [RECEIVED   |-> {"VERIFIED", "REJECTED"},
     VERIFIED   |-> {"SUPERSEDED", "REVOKED"},
     REJECTED   |-> {},
     SUPERSEDED |-> {"REVOKED"},
     REVOKED    |-> {}]

PolicyTable ==
    [DRAFT     |-> {"VALIDATED", "REJECTED"},
     VALIDATED |-> {"SIGNED", "REJECTED"},
     SIGNED    |-> {"ACTIVE", "REVOKED"},
     ACTIVE    |-> {"RETIRED", "REVOKED"},
     REJECTED  |-> {},
     RETIRED   |-> {"REVOKED"},
     REVOKED   |-> {}]

Transitions ==
    [Operation           |-> OperationTable,
     ApprovalRequest     |-> ApprovalTable,
     BundleRelease       |-> BundleReleaseTable,
     HarnessInstallation |-> InstallationTable,
     EvidenceRecord      |-> EvidenceTable,
     PolicyBundle        |-> PolicyTable]

Entity == DOMAIN Transitions
States(kind) == DOMAIN Transitions[kind]
AnyState == UNION {States(k) : k \in Entity}

\* Mutant: any state of the entity is accepted as a target.
TransitionAllowedToKnown(kind, from, to) ==
    /\ kind \in Entity
    /\ from \in States(kind)
    /\ to \in States(kind)

\* Mutant: the two states are looked up in the wrong order.
TransitionAllowedReversed(kind, from, to) ==
    /\ kind \in Entity
    /\ to \in States(kind)
    /\ from \in Transitions[kind][to]

\* Mutant: any state with a PENDING may be retried, final ones included.
TransitionAllowedRetrying(kind, from, to) ==
    /\ kind \in Entity
    /\ from \in States(kind)
    /\ to \in Transitions[kind][from] \union ({"PENDING"} \intersect States(kind))

TransitionAllowed(kind, from, to) ==
    /\ kind \in Entity
    /\ from \in States(kind)
    /\ to \in Transitions[kind][from]

(* What require_transition raises, in the order of its tests; "none" when  *)
(* it returns.                                                             *)
Refusal(kind, from, to) ==
    CASE kind \notin Entity                    -> "UNKNOWN_LIFECYCLE_ENTITY"
      [] kind \in Entity /\ from \notin States(kind) -> "UNKNOWN_FROM_STATE"
      [] kind \in Entity /\ from \in States(kind) /\ to \notin States(kind)
                                               -> "UNKNOWN_TO_STATE"
      [] kind \in Entity /\ from \in States(kind) /\ to \in States(kind)
         /\ ~TransitionAllowed(kind, from, to) -> "ILLEGAL_TRANSITION"
      [] OTHER                                 -> "none"

Final(kind) == {s \in States(kind) : Transitions[kind][s] = {}}

(* The tables name no first state; owners begin in the first one a table   *)
(* lists: work not begun, a draft, evidence just received.                 *)
Initial(kind) ==
    CASE kind \in {"Operation", "ApprovalRequest"}   -> "PENDING"
      [] kind \in {"BundleRelease", "PolicyBundle"}  -> "DRAFT"
      [] kind = "HarnessInstallation"                -> "ABSENT"
      [] kind = "EvidenceRecord"                     -> "RECEIVED"
=============================================================================
