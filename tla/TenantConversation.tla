------------------------- MODULE TenantConversation ------------------------
(***************************************************************************)
(* A tenant and the compiler: the tenant submits a request and, where the  *)
(* refusal says what is missing, changes the request as told and submits   *)
(* again.  The compiler keeps nothing between two calls, so each refusal   *)
(* is computed from scratch; the question is whether following them leads  *)
(* anywhere.  The tenant's side is no code of this repository: it is the   *)
(* use that docs/compiler.md describes under "Stable errors".              *)
(***************************************************************************)
EXTENDS Compiler

VARIABLES
    followed,   \* the refusals whose advice the tenant took
    taken       \* selectors the tenant took from a proposal
allVars == <<vars, followed, taken>>

\* The registered catalog owns the model classes that compile_profile names in
\* its advice about the judge; validate_catalog does not require it.
ASSUME JudgeModelsOwned == Judge \in Public => JudgeModels \subseteq Public

ConversationInit == Init /\ followed = {} /\ taken = {}

\* A compiler step leaves the tenant's memory alone.
CompilerStep == Next /\ UNCHANGED <<followed, taken>>

\* Submit the changed request: a new call, with new locals.
Resubmit(req) ==
    /\ request' = req
    /\ stage' = "request"
    /\ providers' = {} /\ proposals' = <<>>
    /\ direct' = {} /\ links' = [h \in Harness |-> {}] /\ selected' = {}
    /\ modules' = {} /\ plan' = <<>>
    /\ refusal' = NoRefusal
    /\ followed' = followed \cup {refusal}

\* One of the proposed selectors, or one of the model classes, is requested.
TakeProposal ==
    /\ refusal.code = "NEEDS_INPUT" /\ refusal.about \in {"group", "judge"}
    /\ \E c \in refusal.names :
        /\ Resubmit([request EXCEPT !.requested = @ \cup {c}])
        /\ taken' = taken \cup ({c} \cap SelectorsOf(Provider))

KeepOneChoice ==
    /\ refusal.code = "AMBIGUOUS_PROVIDER"
    /\ \E c \in refusal.names :
        Resubmit([request EXCEPT !.requested = (@ \ refusal.names) \cup {c}])
    /\ UNCHANGED taken

AcceptPrerequisites ==
    /\ refusal.about = "missing"
    /\ Resubmit([request EXCEPT !.prerequisites = @ \cup refusal.names])
    /\ UNCHANGED taken

DropSurplus ==
    /\ refusal.about = "surplus"
    /\ Resubmit([request EXCEPT !.prerequisites = @ \ refusal.names])
    /\ UNCHANGED taken

DropInactive ==
    /\ refusal.about = "selector"
    /\ Resubmit([request EXCEPT !.requested = @ \ refusal.names])
    /\ UNCHANGED taken

Revise ==
    /\ stage = "refused"
    /\ TakeProposal \/ KeepOneChoice \/ AcceptPrerequisites \/ DropSurplus \/ DropInactive

ConversationNext == CompilerStep \/ Revise

\* A call runs to its end; the tenant is assumed to keep following advice.
ConversationSpec ==
    /\ ConversationInit /\ [][ConversationNext]_allVars
    /\ WF_allVars(CompilerStep) /\ WF_allVars(Revise)

-----------------------------------------------------------------------------
\* Advice that was followed is never given again.
NoAdviceTwice == refusal \notin followed

\* A proposed selector is a safe choice: once taken, no later refusal is about
\* it, neither as inactive nor as incompatible nor as one of too many.
ProposalsAreUsable ==
    refusal.about \in {"roles", "selector", "group", "choice"} => refusal.names \cap taken = {}

\* Prerequisites are the last thing to be settled: once the tenant was told
\* about them, the demand itself is accepted for good.
PrerequisitesComeLast ==
    (\E r \in followed : r.about \in {"missing", "surplus"}) =>
        refusal.about \in {"none", "missing", "surplus", "modules"}

\* Following the advice ends, with a plan or with a refusal that no change of
\* demand or acceptance can cure.
Advisable ==
    \/ refusal.code = "NEEDS_INPUT" /\ refusal.about \in {"group", "judge"}
    \/ refusal.code = "AMBIGUOUS_PROVIDER"
    \/ refusal.about \in {"missing", "surplus", "selector"}
Settles == <>(stage = "compiled" \/ (stage = "refused" /\ ~Advisable))
=============================================================================
