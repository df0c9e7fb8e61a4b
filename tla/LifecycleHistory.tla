-------------------------- MODULE LifecycleHistory --------------------------
(***************************************************************************)
(* One entity whose owner asks require_transition before every change and  *)
(* makes the change when it is allowed.  Owners are other services; what   *)
(* they may do over time is what the tables of state_machine are for.      *)
(***************************************************************************)
EXTENDS Lifecycle

VARIABLES
    kind,      \* the entity kind
    current,   \* its present state
    attempt,   \* states held since it was last pending (or was created)
    verdict    \* what the last request was told

historyVars == <<kind, current, attempt, verdict>>

Request(to) ==
    /\ Refusal(kind, current, to) = "none"
    /\ verdict' = "none"
    /\ current' = to
    /\ attempt' = IF to = "PENDING" THEN {to} ELSE attempt \union {to}
    /\ UNCHANGED kind

RequestRefused(to) ==
    /\ Refusal(kind, current, to) # "none"
    /\ verdict' = Refusal(kind, current, to)
    /\ UNCHANGED <<kind, current, attempt>>

HistoryInit ==
    /\ kind \in Entity
    /\ current = Initial(kind)
    /\ attempt = {current}
    /\ verdict = "none"

HistoryNext == \E to \in AnyState : Request(to) \/ RequestRefused(to)

HistorySpec == HistoryInit /\ [][HistoryNext]_historyVars

-----------------------------------------------------------------------------
(* What must have happened, whatever the path, before an entity is in the  *)
(* state: no release without scan and signature, no active policy that was *)
(* not validated and signed, nothing applied that was not verified in the  *)
(* same attempt.                                                           *)
Required(k, s) ==
    CASE k = "BundleRelease" /\ s = "RELEASED" ->
            {"RESOLVED", "BUILT", "SCANNED", "AWAITING_SIGNATURE", "SIGNED"}
      [] k = "PolicyBundle" /\ s \in {"ACTIVE", "RETIRED"} ->
            {"VALIDATED", "SIGNED"}
      [] k = "EvidenceRecord" /\ s \in {"SUPERSEDED", "REVOKED"} ->
            {"VERIFIED"}
      [] k = "HarnessInstallation" /\ s \in {"APPLYING"} ->
            {"PENDING", "VERIFYING"}
      [] k = "HarnessInstallation" /\ s = "REMOVED" ->
            {"PENDING", "UNINSTALLING"}
      [] k = "Operation" /\ s = "SUCCEEDED" -> {"RUNNING"}
      [] OTHER -> {}

(* No sequence of allowed transitions skips a gate                         *)
(* (state_machine.TRANSITIONS read as paths, not as single steps); and an  *)
(* installation is in service only after a health check or a rollback in   *)
(* the attempt that brought it there.                                      *)
GatesPassed ==
    /\ Required(kind, current) \subseteq attempt
    /\ kind = "HarnessInstallation" /\ current \in {"READY", "UPGRADING"} =>
           attempt \intersect {"HEALTH_CHECKING", "ROLLING_BACK"} # {}

(* Where an entity can still be once it has been in state s.               *)
Afterwards(k, s) ==
    CASE s \in {"RETIRED", "SUPERSEDED"}        -> {s, "REVOKED"}
      [] k = "BundleRelease" /\ s = "RELEASED"  -> {s, "SUPERSEDED", "REVOKED"}
      [] k = "Operation" /\ s = "CANCELLING"    -> {s, "CANCELLED", "FAILED"}
      [] s \in Final(k)                         -> {s}
      [] OTHER                                  -> States(k)

(* What was retired, superseded, released, cancelled or revoked is never   *)
(* taken back by any later sequence of allowed transitions.                *)
NoWayBack == [][\A s \in attempt : current' \in Afterwards(kind, s)]_historyVars

\* The states from which at most one allowed transition leads into the set.
Nearer(k, set) == set \union {s \in States(k) : \E t \in set : TransitionAllowed(k, s, t)}

(* The tables hold no trap: from wherever an entity is, three allowed      *)
(* transitions at the most lead to a final state.                          *)
CanFinish == current \in Nearer(kind, Nearer(kind, Nearer(kind, Final(kind))))
=============================================================================
