--------------------------- MODULE Compatibility ---------------------------
(***************************************************************************)
(* compatibility_data_harness_v1: a legacy document is wrapped into a      *)
(* canonical envelope, stored or sent, and restored.  A document is a      *)
(* function from its fields to values; the schemaVersion travels outside   *)
(* the fields.  What convert_legacy_document records of the contract's     *)
(* schema (identifier, Git object, digest) is one value, its provenance;   *)
(* the digest of a document tells documents apart.  What stores or carries *)
(* the envelope may change it, one place at a time.                        *)
(***************************************************************************)
EXTENDS Naturals, FiniteSets

CONSTANTS
    Contract, UnknownContract,   \* supported slugs, and one that is not
    Field, SchemaVersion,        \* top-level fields; one is the version
    Value,
    TypesOf,        \* value -> the JSON types it matches
    Required, Allowed,   \* contract -> fields
    FieldTypes,     \* contract -> field -> types, none when not observed
    Const, Enum,    \* contract -> field -> the value, the values
    Canonical,      \* contract -> field -> legacy state -> canonical state
    ProvenanceOf,   \* contract -> provenance of its schema
    MaxAlterations

Slug == Contract \union {UnknownContract}

\* What _definition_index checks of CONTRACT_DEFINITIONS, and that no two
\* contracts come from one schema, as in the table.
DefinitionsIndexed ==
    /\ UnknownContract \notin Contract
    /\ SchemaVersion \in Field
    /\ \A c \in Contract :
           /\ Required[c] \subseteq Allowed[c] /\ Allowed[c] \subseteq Field
           /\ DOMAIN FieldTypes[c] \subseteq Allowed[c]
           /\ DOMAIN Const[c] \subseteq Allowed[c]
           /\ DOMAIN Enum[c] \subseteq Allowed[c]
           /\ SchemaVersion \in DOMAIN Const[c]
    /\ \A c, d \in Contract : ProvenanceOf[c] = ProvenanceOf[d] => c = d

ASSUME DefinitionsAssumption == DefinitionsIndexed

Document == UNION {[fields -> Value] : fields \in SUBSET Field}

\* canonical_sha256, without collisions.
Digest(document) == <<"sha256", document>>

VARIABLES
    contract, document,   \* what the owner of a legacy document has
    envelope,             \* the canonical document
    altered,              \* places of it that were changed on the way
    phase,                \* "legacy", "canonical", "restored", "compared", "refused"
    answer                \* what the last call returned or raised

vars == <<contract, document, envelope, altered, phase, answer>>

None == [code |-> "none"]
Refused(code) == [code |-> code]
-----------------------------------------------------------------------------
Matches(value, expected) == TypesOf[value] \intersect expected # {}

\* validate_legacy_document: the first check that fails, in code order.
LegacyRefusal(c, doc) ==
    IF c \notin Contract THEN "UNKNOWN_LEGACY_CONTRACT"
    ELSE IF ~(Required[c] \subseteq DOMAIN doc) THEN "LEGACY_REQUIRED_FIELD_MISSING"
    ELSE IF ~(DOMAIN doc \subseteq Allowed[c]) THEN "LEGACY_UNKNOWN_FIELD"
    ELSE IF \E f \in DOMAIN Const[c] :
                f \notin DOMAIN doc \/ doc[f] # Const[c][f] THEN "LEGACY_CONST_MISMATCH"
    ELSE IF \E f \in DOMAIN Enum[c] \intersect DOMAIN doc : doc[f] \notin Enum[c][f]
         THEN "LEGACY_ENUM_MISMATCH"
    ELSE IF \E f \in DOMAIN FieldTypes[c] \intersect DOMAIN doc :
                FieldTypes[c][f] # {} /\ ~Matches(doc[f], FieldTypes[c][f])
         THEN "LEGACY_TYPE_MISMATCH"
    ELSE "none"

\* Views exist for the mappings that name a top-level field.
NormalizedStates(c, fields) ==
    {<<f, fields[f], Canonical[c][f][fields[f]]>> :
        f \in {g \in DOMAIN Canonical[c] \intersect DOMAIN fields :
                   fields[g] \in DOMAIN Canonical[c][g]}}

WithoutVersion(doc) == [f \in DOMAIN doc \ {SchemaVersion} |-> doc[f]]

EnvelopeOf(c, doc) ==
    [contract   |-> c,
     provenance |-> ProvenanceOf[c],
     digest     |-> Digest(doc),
     version    |-> doc[SchemaVersion],
     fields     |-> WithoutVersion(doc),
     states     |-> NormalizedStates(c, WithoutVersion(doc))]

\* Mutant: the document is the fields alone.
LegacyOfFields(env) == env.fields

\* The version first, then the fields over it.
LegacyOf(env) ==
    [f \in {SchemaVersion} \union DOMAIN env.fields |->
        IF f \in DOMAIN env.fields THEN env.fields[f] ELSE env.version]

\* Mutant: the provenance is taken on trust.
RestoreRefusalAnyProvenance(env) ==
    IF env.contract \notin Contract THEN "UNKNOWN_LEGACY_CONTRACT"
    ELSE IF LegacyRefusal(env.contract, LegacyOf(env)) # "none"
         THEN LegacyRefusal(env.contract, LegacyOf(env))
    ELSE IF env.digest # Digest(LegacyOf(env)) THEN "CANONICAL_DOCUMENT_DIGEST_MISMATCH"
    ELSE IF env.states # NormalizedStates(env.contract, env.fields)
         THEN "CANONICAL_STATE_VIEW_MISMATCH"
    ELSE "none"

\* restore_legacy_document: the first check that fails, in code order.
RestoreRefusal(env) ==
    IF env.contract \notin Contract THEN "UNKNOWN_LEGACY_CONTRACT"
    ELSE IF env.provenance # ProvenanceOf[env.contract]
         THEN "CANONICAL_PROVENANCE_MISMATCH"
    ELSE IF LegacyRefusal(env.contract, LegacyOf(env)) # "none"
         THEN LegacyRefusal(env.contract, LegacyOf(env))
    ELSE IF env.digest # Digest(LegacyOf(env)) THEN "CANONICAL_DOCUMENT_DIGEST_MISMATCH"
    ELSE IF env.states # NormalizedStates(env.contract, env.fields)
         THEN "CANONICAL_STATE_VIEW_MISMATCH"
    ELSE "none"
-----------------------------------------------------------------------------
Init ==
    /\ contract \in Slug
    /\ document \in Document
    /\ envelope = None
    /\ altered = {}
    /\ phase = "legacy"
    /\ answer = None

Convert ==
    /\ phase = "legacy"
    /\ LegacyRefusal(contract, document) = "none"
    /\ envelope' = EnvelopeOf(contract, document)
    /\ phase' = "canonical"
    /\ UNCHANGED <<contract, document, altered, answer>>

RefuseLegacy ==
    /\ phase = "legacy"
    /\ LegacyRefusal(contract, document) # "none"
    /\ answer' = Refused(LegacyRefusal(contract, document))
    /\ phase' = "refused"
    /\ UNCHANGED <<contract, document, envelope, altered>>

Place == {"contract", "provenance", "digest", "version", "fields", "states"}

\* What a place may be changed to: a value that could stand there.
FieldsChanged(fields) ==
    {[g \in DOMAIN fields \ {f} |-> fields[g]] : f \in DOMAIN fields} \union
    {[g \in DOMAIN fields \union {f} |-> IF g = f THEN v ELSE fields[g]] :
        f \in Field, v \in Value}
Alterations(place) ==
    CASE place = "contract"   -> Slug
      [] place = "provenance" -> {ProvenanceOf[c] : c \in Contract}
      [] place = "digest"     -> {Digest(doc) : doc \in {LegacyOf([envelope EXCEPT
                                     !.fields = fields]) :
                                         fields \in FieldsChanged(envelope.fields)}}
      [] place = "version"    -> Value
      [] place = "fields"     -> FieldsChanged(envelope.fields)
      [] place = "states"     -> {{}} \union
                                 {NormalizedStates(c, envelope.fields) : c \in Contract}

Alter(place) ==
    /\ phase = "canonical"
    /\ place \notin altered
    /\ Cardinality(altered) < MaxAlterations
    /\ \E changed \in Alterations(place) \ {envelope[place]} :
           envelope' = [envelope EXCEPT ![place] = changed]
    /\ altered' = altered \union {place}
    /\ UNCHANGED <<contract, document, phase, answer>>

Restore ==
    /\ phase = "canonical"
    /\ RestoreRefusal(envelope) = "none"
    /\ answer' = [code |-> "none", contract |-> envelope.contract,
                  document |-> LegacyOf(envelope)]
    /\ phase' = "restored"
    /\ UNCHANGED <<contract, document, envelope, altered>>

RefuseCanonical ==
    /\ phase = "canonical"
    /\ RestoreRefusal(envelope) # "none"
    /\ answer' = Refused(RestoreRefusal(envelope))
    /\ phase' = "refused"
    /\ UNCHANGED <<contract, document, envelope, altered>>

\* round_trip_evidence converts and restores in one call, so nothing can have
\* changed in between, and compares.
Compare ==
    /\ phase = "restored" /\ altered = {}
    /\ answer' = IF answer.document = document THEN answer
                 ELSE Refused("LEGACY_ROUND_TRIP_MISMATCH")
    /\ phase' = "compared"
    /\ UNCHANGED <<contract, document, envelope, altered>>

Next ==
    \/ Convert \/ RefuseLegacy
    \/ \E place \in Place : Alter(place)
    \/ Restore \/ RefuseCanonical
    \/ Compare

Spec == Init /\ [][Next]_vars
-----------------------------------------------------------------------------
(* A document that convert_legacy_document accepts comes back as it was,   *)
(* with its contract, when nothing happened to the envelope: neither       *)
(* restore_legacy_document nor round_trip_evidence refuses it.             *)
RoundTripExact ==
    phase \in {"restored", "compared", "refused"} /\ altered = {}
        /\ LegacyRefusal(contract, document) = "none" =>
        /\ answer.code = "none"
        /\ answer.document = document /\ answer.contract = contract

(* Whatever else happened to the envelope, with its digest intact it is    *)
(* restored to the original document or not at all; and no single change   *)
(* gets a document restored that is not the original of its contract.      *)
OnlyOriginalsRestored ==
    phase = "restored" =>
        /\ "digest" \notin altered => answer.document = document
        /\ (\E place \in Place : altered \subseteq {place}) =>
               answer.document = document /\ answer.contract = contract

(* docs/migrations/data-harness-v1.md maps /schemaVersion to               *)
(* /spec/legacySchemaVersion as BIDIRECTIONAL_EXACT: a restored document   *)
(* has the version that its envelope states there.                         *)
VersionMappedExactly ==
    phase = "restored" => answer.document[SchemaVersion] = envelope.version
=============================================================================
