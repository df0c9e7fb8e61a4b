-------------------------- MODULE EventStreamProofs --------------------------
(***************************************************************************)
(* What an accepted stream says about the history, for any organizations,  *)
(* subjects, aggregates and bounds.                                        *)
(***************************************************************************)
EXTENDS EventStream, TLAPS

LEMMA KindsDisjoint ==
    /\ \A k \in ProjectionKind : k \notin Entity
    /\ ProjectionUpdated \notin Entity
    /\ "unknown" \notin EventType
BY DEF ProjectionKind, Entity, Transitions, ProjectionUpdated, EventType

\* What require_transition lets pass is in the table.
LEMMA AllowedWhenNotRefused ==
    ASSUME NEW k \in Entity, NEW f, NEW t, Refusal(k, f, t) = "none"
    PROVE  f \in States(k) /\ t \in States(k) /\ t \in Transitions[k][f]
BY DEF Refusal, TransitionAllowed

\* No table leads from a success back to pending work.
LEMMA SuccessNotPending ==
    ASSUME NEW k \in Entity PROVE Refusal(k, "SUCCEEDED", "PENDING") # "none"
<1>1. CASE k = "Operation"
  BY <1>1, AllowedWhenNotRefused DEF Transitions, OperationTable, States
<1>2. CASE k = "ApprovalRequest"
  BY <1>2, AllowedWhenNotRefused DEF Transitions, ApprovalTable, States
<1>3. CASE k = "BundleRelease"
  BY <1>3, AllowedWhenNotRefused DEF Transitions, BundleReleaseTable, States
<1>4. CASE k = "HarnessInstallation"
  BY <1>4, AllowedWhenNotRefused DEF Transitions, InstallationTable, States
<1>5. CASE k = "EvidenceRecord"
  BY <1>5, AllowedWhenNotRefused DEF Transitions, EvidenceTable, States
<1>6. CASE k = "PolicyBundle"
  BY <1>6, AllowedWhenNotRefused DEF Transitions, PolicyTable, States
<1>7. QED BY <1>1, <1>2, <1>3, <1>4, <1>5, <1>6 DEF Entity, Transitions

\* Owners begin in a state of their table.
LEMMA InitialInTable ==
    ASSUME NEW k \in Entity PROVE Initial(k) \in States(k)
<1>1. CASE k = "Operation"
  BY <1>1 DEF Initial, Transitions, OperationTable, States
<1>2. CASE k = "ApprovalRequest"
  BY <1>2 DEF Initial, Transitions, ApprovalTable, States
<1>3. CASE k = "BundleRelease"
  BY <1>3 DEF Initial, Transitions, BundleReleaseTable, States
<1>4. CASE k = "HarnessInstallation"
  BY <1>4 DEF Initial, Transitions, InstallationTable, States
<1>5. CASE k = "EvidenceRecord"
  BY <1>5 DEF Initial, Transitions, EvidenceTable, States
<1>6. CASE k = "PolicyBundle"
  BY <1>6 DEF Initial, Transitions, PolicyTable, States
<1>7. QED BY <1>1, <1>2, <1>3, <1>4, <1>5, <1>6 DEF Entity, Transitions

LEMMA OperationStates == "SUCCEEDED" \in AnyState /\ "PENDING" \in AnyState
<1>1. "Operation" \in Entity
  BY DEF Entity, Transitions
<1>2. "SUCCEEDED" \in States("Operation") /\ "PENDING" \in States("Operation")
  BY DEF States, Transitions, OperationTable
<1>3. QED BY <1>1, <1>2 DEF AnyState

(* An altered copy of a well-formed event never passes validate_event.     *)
WellFormed(e) ==
    /\ e \in Event
    /\ e.organizationid = e.partitionkey
    /\ e.subject = e.aggregateId
    /\ e.type = TypeFor(e.aggregateKind)
    /\ [organizationid |-> e.organizationid, subject |-> e.subject,
        kind |-> e.aggregateKind] \in Aggregate
    /\ e.aggregateKind \in Entity =>
          /\ e.transition \in AnyState \X AnyState
          /\ Refusal(e.aggregateKind, e.transition[1], e.transition[2]) = "none"
    /\ e.aggregateKind \notin Entity => e.transition = NoTransition

LEMMA AlteredIsInvalid ==
    ASSUME NEW e, WellFormed(e), NEW x \in Alterations(e) \ {e}
    PROVE  ~EventValid(x)
<1> USE KindsDisjoint, AggregateTyped
<1>0. e \in Event
  BY DEF WellFormed
<1>1. ASSUME NEW o \in Organization, x = [e EXCEPT !.organizationid = o]
      PROVE ~EventValid(x)
  BY <1>0, <1>1 DEF WellFormed, EventValid, Event
<1>2. ASSUME NEW o \in Organization, x = [e EXCEPT !.partitionkey = o]
      PROVE ~EventValid(x)
  BY <1>0, <1>2 DEF WellFormed, EventValid, Event
<1>3. ASSUME NEW s \in Subject \union {"unknown"}, x = [e EXCEPT !.subject = s]
      PROVE ~EventValid(x)
  BY <1>0, <1>3 DEF WellFormed, EventValid, Event
<1>4. ASSUME NEW s \in Subject \union {"unknown"},
             x = [e EXCEPT !.aggregateId = s]
      PROVE ~EventValid(x)
  BY <1>0, <1>4 DEF WellFormed, EventValid, Event
<1>5. ASSUME NEW t \in EventType \union {"unknown"}, x = [e EXCEPT !.type = t]
      PROVE ~EventValid(x)
  BY <1>0, <1>5 DEF WellFormed, EventValid, Event, TypeFor, EventType
<1>6. ASSUME NEW k \in Entity, x = [e EXCEPT !.aggregateKind = k]
      PROVE ~EventValid(x)
  BY <1>0, <1>6 DEF WellFormed, EventValid, Event, TypeFor, EventType
<1>7. ASSUME x = [e EXCEPT !.transition = NoTransition] PROVE ~EventValid(x)
  BY <1>0, <1>7 DEF WellFormed, EventValid, Event, TypeFor, EventType
<1>8. ASSUME x = [e EXCEPT !.transition = <<"SUCCEEDED", "PENDING">>]
      PROVE ~EventValid(x)
  <2>1. /\ x.transition[1] = "SUCCEEDED" /\ x.transition[2] = "PENDING"
        /\ x.transition # NoTransition
        /\ x.type = e.type /\ x.aggregateKind = e.aggregateKind
    BY <1>0, <1>8 DEF Event, NoTransition
  <2>2. QED BY <1>0, <2>1, SuccessNotPending DEF WellFormed, EventValid, Event, TypeFor, EventType
<1>9. \A a \in Aggregate : TypeFor(a.kind) \in EventType
  BY DEF TypeFor, EventType
<1>10. QED BY <1>1, <1>2, <1>3, <1>4, <1>5, <1>6, <1>7, <1>8, <1>9 DEF Alterations
-----------------------------------------------------------------------------
(* The invariant.  The history tells the story of every aggregate: numbers *)
(* grow, the newest event names the present state, nothing follows a final *)
(* state.  What is delivered is a copy or an altered copy, and what the    *)
(* validator holds is the validated part of what is delivered.             *)

HistoryWellFormed ==
    \A p \in DOMAIN history : WellFormed(history[p])

HistoryNumbered ==
    /\ \A p \in DOMAIN history :
           /\ history[p].id = p
           /\ history[p].sequence <= sequence[Stream(history[p])]
    /\ \A p, q \in DOMAIN history :
           p < q /\ Stream(history[p]) = Stream(history[q]) =>
               history[p].sequence < history[q].sequence

NewestEvent(p) ==
    \A q \in DOMAIN history : p < q => ~SameAggregate(history[p], history[q])

About(e, a) == Stream(e) = Stream(a) /\ e.aggregateKind = a.kind

NewestNamesState ==
    \A p \in DOMAIN history : \A a \in Aggregate :
        a.kind \in Entity /\ About(history[p], a) /\ NewestEvent(p) =>
            history[p].transition[2] = state[a]

NothingAfterFinal ==
    \A p, q \in DOMAIN history :
        p < q /\ SameAggregate(history[p], history[q])
              /\ history[p].aggregateKind \in Entity =>
            history[p].transition[2] \notin Final(history[p].aggregateKind)

DeliveredFromHistory ==
    \A i \in DOMAIN directory :
        \E e \in EventsOf(history) : directory[i] \in {e} \union Alterations(e)

AcceptedValid ==
    /\ \A i \in DOMAIN accepted : EventValid(accepted[i])
    /\ verdict = "accepted" => ~Disordered

RefusalGrounds ==
    /\ \A i, j \in DOMAIN accepted : i < j => accepted[i].id # accepted[j].id
    /\ verdict = "invalid event" =>
           Len(accepted) < Len(directory) /\ ~EventValid(Document)
    /\ verdict = "duplicate event id" =>
           /\ Len(accepted) < Len(directory)
           /\ EventValid(Document)
           /\ Document.id \in SeenIds
    /\ verdict = "event sequence is not strictly increasing" => Disordered

IInv ==
    /\ TypeOK
    /\ HistoryWellFormed
    /\ HistoryNumbered
    /\ NewestNamesState
    /\ NothingAfterFinal
    /\ DeliveredFromHistory
    /\ AcceptedValid
    /\ RefusalGrounds

LEMMA InitInvariant == Init => IInv
<1> SUFFICES ASSUME Init PROVE IInv
  OBVIOUS
<1>1. state \in [Aggregate -> AnyState \union {"none"}]
  BY InitialInTable DEF Init, AnyState
<1>2. /\ history \in Seq(Event) /\ Len(history) = 0
      /\ directory \in Seq(File) /\ Len(directory) = 0
      /\ accepted \in Seq(File) /\ Len(accepted) = 0
      /\ DOMAIN history = {} /\ DOMAIN directory = {} /\ DOMAIN accepted = {}
  BY DEF Init
<1>3. TypeOK
  BY <1>1, <1>2, BoundsTyped DEF Init, TypeOK
<1>4. HistoryWellFormed /\ HistoryNumbered /\ NewestNamesState /\ NothingAfterFinal
  BY <1>2 DEF HistoryWellFormed, HistoryNumbered, NewestNamesState, NothingAfterFinal
<1>5. DeliveredFromHistory /\ AcceptedValid /\ RefusalGrounds
  BY <1>2 DEF DeliveredFromHistory, AcceptedValid, RefusalGrounds, Init
<1>6. QED BY <1>3, <1>4, <1>5 DEF IInv

\* What a published event adds to the history, for a change and a projection.
LEMMA PublishedHistory ==
    ASSUME TypeOK, HistoryWellFormed, HistoryNumbered,
           NEW a \in Aggregate, NEW t, Publish(a, t),
           t \in {NoTransition} \union (AnyState \X AnyState),
           a.kind \in Entity => t \in AnyState \X AnyState
                                /\ Refusal(a.kind, t[1], t[2]) = "none",
           a.kind \notin Entity => t = NoTransition
    PROVE  /\ history' \in Seq(Event)
           /\ sequence' \in [Organization \X Subject -> Nat]
           /\ HistoryWellFormed' /\ HistoryNumbered'
           /\ DOMAIN history' = DOMAIN history \union {Len(history) + 1}
           /\ history'[Len(history) + 1] = EventAbout(a, t)
           /\ \A p \in DOMAIN history : history'[p] = history[p]
<1> DEFINE e == EventAbout(a, t)
           n == Len(history) + 1
<1>1. /\ a \in [organizationid : Organization, subject : Subject,
                kind : Entity \union ProjectionKind]
      /\ Stream(a) \in Organization \X Subject
      /\ [organizationid |-> a.organizationid, subject |-> a.subject,
          kind |-> a.kind] = a
  BY AggregateTyped DEF Stream
<1>2. /\ sequence \in [Organization \X Subject -> Nat]
      /\ history \in Seq(Event) /\ Len(history) \in Nat
      /\ DOMAIN history = 1..Len(history)
  BY DEF TypeOK
<1>3. e \in Event /\ e.id = n /\ Stream(e) = Stream(a)
      /\ e.sequence = sequence[Stream(a)] + 1
      /\ e.aggregateKind = a.kind /\ e.transition = t
  BY <1>1, <1>2 DEF EventAbout, Event, TypeFor, EventType, Stream
<1>4. WellFormed(e)
  BY <1>1, <1>3 DEF WellFormed, EventAbout
<1>5. /\ history' \in Seq(Event)
      /\ DOMAIN history' = DOMAIN history \union {n}
      /\ history'[n] = e
      /\ \A p \in DOMAIN history : history'[p] = history[p]
  BY <1>2, <1>3 DEF Publish
<1>6. /\ sequence' \in [Organization \X Subject -> Nat]
      /\ sequence'[Stream(a)] = sequence[Stream(a)] + 1
      /\ \A k \in Organization \X Subject : k # Stream(a) => sequence'[k] = sequence[k]
  BY <1>1, <1>2 DEF Publish
<1>7. HistoryWellFormed'
  BY <1>4, <1>5 DEF HistoryWellFormed
<1>8. \A p \in DOMAIN history :
         /\ history[p] \in Event /\ history[p].sequence \in Nat
         /\ Stream(history[p]) \in Organization \X Subject
         /\ history[p].id = p
         /\ history[p].sequence <= sequence[Stream(history[p])]
  <2> SUFFICES ASSUME NEW p \in DOMAIN history
               PROVE  /\ history[p] \in Event /\ history[p].sequence \in Nat
                      /\ Stream(history[p]) \in Organization \X Subject
    BY DEF HistoryNumbered
  <2>1. history[p] \in Event
    BY <1>2
  <2>2. QED BY <2>1 DEF Event, Stream
<1>9. ASSUME NEW p \in DOMAIN history'
      PROVE  /\ history'[p].id = p
             /\ history'[p].sequence <= sequence'[Stream(history'[p])]
  <2>1. CASE p = n
    BY <2>1, <1>1, <1>2, <1>3, <1>5, <1>6
  <2>2. CASE p \in DOMAIN history
    <3>1. history'[p] = history[p]
      BY <2>2, <1>5
    <3>2. sequence[Stream(history[p])] <= sequence'[Stream(history[p])]
      BY <2>2, <1>1, <1>2, <1>6, <1>8
    <3>3. sequence'[Stream(history[p])] \in Nat /\ sequence[Stream(history[p])] \in Nat
      BY <2>2, <1>2, <1>6, <1>8
    <3>4. QED BY <2>2, <3>1, <3>2, <3>3, <1>8
  <2>3. QED BY <2>1, <2>2, <1>5
<1>10. ASSUME NEW p \in DOMAIN history', NEW q \in DOMAIN history', p < q,
              Stream(history'[p]) = Stream(history'[q])
       PROVE  history'[p].sequence < history'[q].sequence
  <2>1. p \in DOMAIN history
    BY <1>2, <1>5, <1>10
  <2>2. CASE q \in DOMAIN history
    BY <2>1, <2>2, <1>5, <1>10 DEF HistoryNumbered
  <2>3. CASE q = n
    BY <2>1, <2>3, <1>1, <1>2, <1>3, <1>5, <1>8, <1>10
  <2>4. QED BY <2>2, <2>3, <1>5
<1>11. HistoryNumbered'
  BY <1>9, <1>10 DEF HistoryNumbered, Stream
<1>12. QED BY <1>5, <1>6, <1>7, <1>11

\* Publishing leaves what was delivered and validated as it was.
LEMMA PublishKeepsDeliveries ==
    ASSUME IInv, NEW a \in Aggregate, NEW t, Publish(a, t),
           DOMAIN history' = DOMAIN history \union {Len(history) + 1},
           \A p \in DOMAIN history : history'[p] = history[p]
    PROVE  DeliveredFromHistory' /\ AcceptedValid' /\ RefusalGrounds'
<1>1. directory' = directory /\ accepted' = accepted /\ verdict' = verdict
  BY DEF Publish, reader
<1>2. EventsOf(history) \subseteq EventsOf(history')
  BY DEF EventsOf
<1>3. DeliveredFromHistory'
  BY <1>1, <1>2 DEF IInv, DeliveredFromHistory
<1>4. AcceptedValid'
  BY <1>1 DEF IInv, AcceptedValid, Disordered
<1>5. RefusalGrounds'
  BY <1>1 DEF IInv, RefusalGrounds, Disordered, Document, SeenIds, EventsOf
<1>6. QED BY <1>3, <1>4, <1>5

LEMMA AboutIdentifies ==
    ASSUME NEW a \in Aggregate, NEW b \in Aggregate,
           Stream(a) = Stream(b), a.kind = b.kind
    PROVE  a = b
<1>1. /\ a \in [organizationid : Organization, subject : Subject,
                kind : Entity \union ProjectionKind]
      /\ b \in [organizationid : Organization, subject : Subject,
                kind : Entity \union ProjectionKind]
  BY AggregateTyped
<1>2. a.organizationid = b.organizationid /\ a.subject = b.subject
  BY DEF Stream
<1>3. QED BY <1>1, <1>2

LEMMA ChangeKeeps ==
    ASSUME IInv, NEW a \in Aggregate, NEW to \in AnyState, Change(a, to)
    PROVE  IInv'
<1> DEFINE t == <<state[a], to>>
           n == Len(history) + 1
<1>1. /\ a.kind \in Entity /\ Publish(a, t)
      /\ Refusal(a.kind, state[a], to) = "none"
      /\ state' = [state EXCEPT ![a] = to]
  BY DEF Change
<1>2. /\ state[a] \in States(a.kind) /\ to \in States(a.kind)
      /\ to \in Transitions[a.kind][state[a]]
  BY <1>1, AllowedWhenNotRefused
<1>3. state[a] \in AnyState /\ state[a] \notin Final(a.kind)
  BY <1>1, <1>2 DEF AnyState, Final
<1>4. TypeOK /\ HistoryWellFormed /\ HistoryNumbered
  BY DEF IInv
<1>5. t \in AnyState \X AnyState /\ t[1] = state[a] /\ t[2] = to
  BY <1>3
<1>6. /\ history' \in Seq(Event)
      /\ sequence' \in [Organization \X Subject -> Nat]
      /\ HistoryWellFormed' /\ HistoryNumbered'
      /\ DOMAIN history' = DOMAIN history \union {n}
      /\ history'[n] = EventAbout(a, t)
      /\ \A p \in DOMAIN history : history'[p] = history[p]
  BY <1>1, <1>4, <1>5, PublishedHistory
<1>7. /\ history'[n].transition = t /\ history'[n].aggregateKind = a.kind
      /\ Stream(history'[n]) = Stream(a)
  BY <1>6 DEF EventAbout, Stream
<1>8. /\ n \in Nat /\ \A p \in DOMAIN history : p \in Nat /\ p < n
      /\ DOMAIN history = 1..Len(history)
  BY <1>4 DEF TypeOK
<1>9. TypeOK'
  <2>1. state' \in [Aggregate -> AnyState \union {"none"}]
    BY <1>1, <1>4 DEF TypeOK
  <2>2. Len(history') <= MaxEvents
    BY <1>1, <1>4, <1>8, BoundsTyped DEF TypeOK, Publish
  <2>3. QED BY <1>1, <1>4, <1>6, <2>1, <2>2 DEF TypeOK, Publish, reader
<1>10. NewestNamesState'
  <2> SUFFICES ASSUME NEW p \in DOMAIN history', NEW b \in Aggregate,
                      b.kind \in Entity, About(history'[p], b), NewestEvent(p)'
               PROVE  history'[p].transition[2] = state'[b]
    BY DEF NewestNamesState, About, Stream
  <2>1. CASE p = n
    <3>1. b = a
      BY <2>1, <1>7, AboutIdentifies DEF About
    <3>2. QED BY <2>1, <3>1, <1>1, <1>4, <1>5, <1>7 DEF TypeOK
  <2>2. CASE p \in DOMAIN history
    <3>1. ~SameAggregate(history[p], history'[n])
      BY <2>2, <1>6, <1>8 DEF NewestEvent, SameAggregate, Stream
    <3>2. b # a
      BY <2>2, <3>1, <1>6, <1>7 DEF About, SameAggregate
    <3>3. NewestEvent(p)
      BY <2>2, <1>6 DEF NewestEvent, SameAggregate, Stream
    <3>4. history[p].transition[2] = state[b]
      BY <2>2, <3>3, <1>6 DEF IInv, NewestNamesState, About
    <3>5. QED BY <2>2, <3>2, <3>4, <1>1, <1>4, <1>6 DEF TypeOK
  <2>3. QED BY <2>1, <2>2, <1>6
<1>11. NothingAfterFinal'
  <2> SUFFICES ASSUME NEW p \in DOMAIN history', NEW q \in DOMAIN history', p < q,
                      SameAggregate(history'[p], history'[q]),
                      history'[p].aggregateKind \in Entity
               PROVE  history'[p].transition[2] \notin Final(history'[p].aggregateKind)
    BY DEF NothingAfterFinal, SameAggregate, Stream
  <2>1. p \in DOMAIN history
    BY <1>6, <1>8
  <2>2. CASE q \in DOMAIN history
    BY <2>1, <2>2, <1>6 DEF IInv, NothingAfterFinal
  <2>3. CASE q = n /\ NewestEvent(p)
    <3>1. About(history[p], a)
      BY <2>1, <2>3, <1>6, <1>7 DEF SameAggregate, About
    <3>2. history[p].transition[2] = state[a]
      BY <2>1, <2>3, <3>1, <1>1 DEF IInv, NewestNamesState
    <3>3. history[p].aggregateKind = a.kind
      BY <3>1 DEF About
    <3>4. QED BY <2>1, <3>2, <3>3, <1>3, <1>6
  <2>4. CASE q = n /\ ~NewestEvent(p)
    BY <2>1, <2>4, <1>6 DEF IInv, NothingAfterFinal, NewestEvent
  <2>5. QED BY <2>2, <2>3, <2>4, <1>6
<1>12. DeliveredFromHistory' /\ AcceptedValid' /\ RefusalGrounds'
  BY <1>1, <1>6, PublishKeepsDeliveries
<1>13. QED BY <1>6, <1>9, <1>10, <1>11, <1>12 DEF IInv

LEMMA ProjectKeeps ==
    ASSUME IInv, NEW a \in Aggregate, Project(a)
    PROVE  IInv'
<1> DEFINE n == Len(history) + 1
<1>1. /\ a.kind \notin Entity /\ Publish(a, NoTransition) /\ state' = state
  BY KindsDisjoint DEF Project
<1>2. TypeOK /\ HistoryWellFormed /\ HistoryNumbered
  BY DEF IInv
<1>3. /\ history' \in Seq(Event)
      /\ sequence' \in [Organization \X Subject -> Nat]
      /\ HistoryWellFormed' /\ HistoryNumbered'
      /\ DOMAIN history' = DOMAIN history \union {n}
      /\ history'[n] = EventAbout(a, NoTransition)
      /\ \A p \in DOMAIN history : history'[p] = history[p]
  BY <1>1, <1>2, PublishedHistory
<1>4. history'[n].aggregateKind \notin Entity
  BY <1>1, <1>3 DEF EventAbout
<1>5. /\ n \in Nat /\ \A p \in DOMAIN history : p \in Nat /\ p < n
      /\ DOMAIN history = 1..Len(history)
  BY <1>2 DEF TypeOK
<1>6. TypeOK'
  <2>1. Len(history') <= MaxEvents
    BY <1>1, <1>2, <1>5, BoundsTyped DEF TypeOK, Publish
  <2>2. QED BY <1>1, <1>2, <1>3, <2>1 DEF TypeOK, Publish, reader
<1>7. NewestNamesState'
  <2> SUFFICES ASSUME NEW p \in DOMAIN history', NEW b \in Aggregate,
                      b.kind \in Entity, About(history'[p], b), NewestEvent(p)'
               PROVE  history'[p].transition[2] = state'[b]
    BY DEF NewestNamesState, About, Stream
  <2>1. p \in DOMAIN history
    BY <1>3, <1>4 DEF About
  <2>2. NewestEvent(p)
    BY <2>1, <1>3 DEF NewestEvent, SameAggregate, Stream
  <2>3. QED BY <2>1, <2>2, <1>1, <1>3 DEF IInv, NewestNamesState
<1>8. NothingAfterFinal'
  <2> SUFFICES ASSUME NEW p \in DOMAIN history', NEW q \in DOMAIN history', p < q,
                      SameAggregate(history'[p], history'[q]),
                      history'[p].aggregateKind \in Entity
               PROVE  history'[p].transition[2] \notin Final(history'[p].aggregateKind)
    BY DEF NothingAfterFinal, SameAggregate, Stream
  <2>1. p \in DOMAIN history /\ q \in DOMAIN history
    BY <1>3, <1>4 DEF SameAggregate
  <2>2. QED BY <2>1, <1>3 DEF IInv, NothingAfterFinal
<1>9. DeliveredFromHistory' /\ AcceptedValid' /\ RefusalGrounds'
  BY <1>1, <1>3, PublishKeepsDeliveries
<1>10. QED BY <1>3, <1>6, <1>7, <1>8, <1>9 DEF IInv

\* A step that leaves the owners alone keeps what is said of them.
LEMMA OwnersUntouched ==
    ASSUME IInv, UNCHANGED owners
    PROVE  /\ HistoryWellFormed' /\ HistoryNumbered'
           /\ NewestNamesState' /\ NothingAfterFinal'
<1>1. state' = state /\ sequence' = sequence /\ history' = history
  BY DEF owners
<1>2. HistoryWellFormed' /\ HistoryNumbered'
  BY <1>1 DEF IInv, HistoryWellFormed, HistoryNumbered
<1>3. NewestNamesState'
  BY <1>1 DEF IInv, NewestNamesState, NewestEvent
<1>4. NothingAfterFinal'
  BY <1>1 DEF IInv, NothingAfterFinal
<1>5. QED BY <1>2, <1>3, <1>4

LEMMA FilesAreTyped ==
    ASSUME NEW e, WellFormed(e), NEW x \in {e} \union Alterations(e)
    PROVE  x \in File
<1>1. e \in Event
  BY DEF WellFormed
<1>2. <<"SUCCEEDED", "PENDING">> \in AnyState \X AnyState
  BY OperationStates
<1>3. \A a \in Aggregate : TypeFor(a.kind) \in EventType
  BY AggregateTyped DEF TypeFor, EventType
<1>4. \A a \in Aggregate : a.kind \in Entity \union ProjectionKind
  BY AggregateTyped
<1>5. CASE x = e
  BY <1>1, <1>5 DEF Event, File
<1>6. CASE x \in Alterations(e)
  BY <1>1, <1>2, <1>3, <1>4, <1>6 DEF Alterations, Event, File, NoTransition
<1>7. QED BY <1>5, <1>6

LEMMA DeliverKeeps ==
    ASSUME IInv, NEW e \in EventsOf(history), NEW x \in {e} \union Alterations(e),
           Deliver(x)
    PROVE  IInv'
<1>1. /\ UNCHANGED owners /\ accepted' = accepted /\ verdict' = verdict
      /\ history' = history /\ state' = state /\ sequence' = sequence
      /\ verdict = "idle" /\ directory' = Append(directory, x)
      /\ Len(directory) < MaxFiles
  BY DEF Deliver, owners, reader
<1>2. WellFormed(e)
  BY DEF IInv, HistoryWellFormed, EventsOf
<1>3. x \in File
  BY <1>2, FilesAreTyped
<1>4. TypeOK
  BY DEF IInv
<1>5. /\ directory' \in Seq(File) /\ Len(directory') = Len(directory) + 1
      /\ \A i \in DOMAIN directory : directory'[i] = directory[i]
      /\ directory'[Len(directory) + 1] = x
      /\ DOMAIN directory' = DOMAIN directory \union {Len(directory) + 1}
      /\ DOMAIN directory = 1..Len(directory) /\ Len(directory) \in Nat
  BY <1>1, <1>3, <1>4 DEF TypeOK
<1>6. DOMAIN accepted \subseteq DOMAIN directory
  BY <1>4, <1>5 DEF TypeOK
<1>7. Len(accepted) <= Len(directory') /\ Len(directory') <= MaxFiles
  BY <1>1, <1>4, <1>5, BoundsTyped DEF TypeOK
<1>8. TypeOK'
  BY <1>1, <1>4, <1>5, <1>6, <1>7 DEF TypeOK
<1>9. DeliveredFromHistory'
  BY <1>1, <1>5 DEF IInv, DeliveredFromHistory
<1>10. AcceptedValid'
  BY <1>1 DEF IInv, AcceptedValid, Disordered
<1>11. RefusalGrounds'
  BY <1>1 DEF IInv, RefusalGrounds
<1>12. QED BY <1>1, <1>8, <1>9, <1>10, <1>11, OwnersUntouched DEF IInv

\* Listing the directory and every way to end a call.
LEMMA VerdictKeeps ==
    ASSUME IInv, UNCHANGED <<owners, directory, accepted>>,
           verdict' \in {"reading"} \union Outcome,
           verdict' = "accepted" => ~Disordered,
           verdict' = "invalid event" => Reading /\ ~EventValid(Document),
           verdict' = "duplicate event id" =>
               Reading /\ EventValid(Document) /\ Document.id \in SeenIds,
           verdict' = "event sequence is not strictly increasing" => Disordered
    PROVE  IInv'
<1>1. /\ UNCHANGED owners /\ directory' = directory /\ accepted' = accepted
      /\ history' = history /\ state' = state /\ sequence' = sequence
  BY DEF owners
<1>2. TypeOK'
  BY <1>1 DEF IInv, TypeOK
<1>3. DeliveredFromHistory'
  BY <1>1 DEF IInv, DeliveredFromHistory
<1>4. AcceptedValid'
  BY <1>1 DEF IInv, AcceptedValid, Disordered
<1>5. RefusalGrounds'
  BY <1>1 DEF IInv, RefusalGrounds, Disordered, Document, SeenIds, EventsOf, Reading
<1>6. QED BY <1>1, <1>2, <1>3, <1>4, <1>5, OwnersUntouched DEF IInv

LEMMA AcceptEventKeeps == ASSUME IInv, AcceptEvent PROVE IInv'
<1> DEFINE n == Len(accepted) + 1
<1>1. /\ UNCHANGED owners /\ directory' = directory /\ verdict' = verdict
      /\ history' = history /\ state' = state /\ sequence' = sequence
      /\ verdict = "reading" /\ Len(accepted) < Len(directory)
      /\ EventValid(directory[n]) /\ accepted' = Append(accepted, directory[n])
  BY DEF AcceptEvent, owners, Reading, Document
<1>2. TypeOK
  BY DEF IInv
<1>3. n \in DOMAIN directory /\ directory[n] \in File
  BY <1>1, <1>2 DEF TypeOK
<1>4. /\ accepted' \in Seq(File) /\ Len(accepted') = n
      /\ DOMAIN accepted' = DOMAIN accepted \union {n}
      /\ accepted'[n] = directory[n]
      /\ \A i \in DOMAIN accepted : accepted'[i] = accepted[i]
      /\ n <= Len(directory)
  BY <1>1, <1>2, <1>3 DEF TypeOK
<1>5. TypeOK'
  BY <1>1, <1>2, <1>4 DEF TypeOK
<1>6. DeliveredFromHistory'
  BY <1>1 DEF IInv, DeliveredFromHistory
<1>7. AcceptedValid'
  BY <1>1, <1>4 DEF IInv, AcceptedValid
<1>8. directory[n].id \notin SeenIds
  BY DEF AcceptEvent, Document
<1>9. \A i \in DOMAIN accepted : accepted[i].id # directory[n].id /\ i < n
  <2>1. \A i \in DOMAIN accepted : i < n
    BY <1>2 DEF TypeOK
  <2>2. \A i \in DOMAIN accepted : accepted[i].id # directory[n].id
    BY <1>8 DEF SeenIds, EventsOf
  <2>3. QED BY <2>1, <2>2
<1>10. RefusalGrounds'
  BY <1>1, <1>2, <1>4, <1>9 DEF IInv, RefusalGrounds, TypeOK
<1>11. QED BY <1>1, <1>5, <1>6, <1>7, <1>10, OwnersUntouched DEF IInv

LEMMA StepInvariant == IInv /\ [Next]_vars => IInv'
<1> SUFFICES ASSUME IInv, [Next]_vars PROVE IInv'
  OBVIOUS
<1>1. ASSUME NEW a \in Aggregate, NEW to \in AnyState, Change(a, to) PROVE IInv'
  BY <1>1, ChangeKeeps
<1>2. ASSUME NEW a \in Aggregate, Project(a) PROVE IInv'
  BY <1>2, ProjectKeeps
<1>3. CASE Transport
  BY <1>3, DeliverKeeps DEF Transport, DeliverCopy, DeliverAltered
<1>4. CASE ListFiles
  BY <1>4, VerdictKeeps DEF ListFiles
<1>5. CASE RefuseEmptyDirectory
  BY <1>5, VerdictKeeps DEF RefuseEmptyDirectory, End, Outcome
<1>6. CASE RefuseInvalidEvent
  BY <1>6, VerdictKeeps DEF RefuseInvalidEvent, End, Outcome
<1>7. CASE RefuseDuplicateId
  BY <1>7, VerdictKeeps DEF RefuseDuplicateId, End, Outcome
<1>8. CASE AcceptEvent
  BY <1>8, AcceptEventKeeps
<1>9. CASE RefuseDisorder
  BY <1>9, VerdictKeeps DEF RefuseDisorder, End, Outcome
<1>10. CASE Return
  BY <1>10, VerdictKeeps DEF Return, End, Outcome
<1>11. CASE UNCHANGED vars
  <2>1. /\ UNCHANGED owners /\ directory' = directory /\ accepted' = accepted
        /\ verdict' = verdict /\ history' = history /\ state' = state
        /\ sequence' = sequence
    BY <1>11 DEF vars, owners, reader
  <2>2. TypeOK'
    BY <2>1 DEF IInv, TypeOK
  <2>3. DeliveredFromHistory' /\ AcceptedValid'
    BY <2>1 DEF IInv, DeliveredFromHistory, AcceptedValid, Disordered
  <2>4. RefusalGrounds'
    BY <2>1 DEF IInv, RefusalGrounds, Disordered, Document, SeenIds, EventsOf
  <2>5. QED BY <2>1, <2>2, <2>3, <2>4, OwnersUntouched DEF IInv
<1>12. QED BY <1>1, <1>2, <1>3, <1>4, <1>5, <1>6, <1>7, <1>8, <1>9, <1>10, <1>11
              DEF Next, Own, Validate

LEMMA Invariant == Spec => []IInv
<1>1. QED BY InitInvariant, StepInvariant, PTL DEF Spec

(* Published events are well formed and the validator holds a prefix of    *)
(* the directory (events.validate_event_path, its loop over the files).    *)
THEOREM TypeCorrect == Spec => []TypeOK
<1>1. IInv => TypeOK
  BY DEF IInv
<1>2. QED BY <1>1, Invariant, PTL

-----------------------------------------------------------------------------
\* What passes validation was published as it stands.
LEMMA ValidWasPublished ==
    ASSUME IInv, NEW i \in DOMAIN directory, EventValid(directory[i])
    PROVE  \E p \in DOMAIN history : history[p] = directory[i]
<1>1. PICK p \in DOMAIN history :
        directory[i] \in {history[p]} \union Alterations(history[p])
  BY DEF IInv, DeliveredFromHistory, EventsOf
<1>2. WellFormed(history[p])
  BY DEF IInv, HistoryWellFormed
<1>3. QED BY <1>1, <1>2, AlteredIsInvalid

LEMMA AcceptedWasPublished ==
    ASSUME IInv, NEW i \in DOMAIN accepted
    PROVE  /\ i \in DOMAIN directory /\ directory[i] = accepted[i]
           /\ \E p \in DOMAIN history : history[p] = accepted[i]
<1>1. accepted[i] = directory[i] /\ i \in DOMAIN directory /\ EventValid(accepted[i])
  BY DEF IInv, TypeOK, AcceptedValid
<1>2. QED BY <1>1, ValidWasPublished

LEMMA OrderFromNumbers ==
    ASSUME IInv, NEW p \in DOMAIN history, NEW q \in DOMAIN history,
           Stream(history[p]) = Stream(history[q]),
           history[p].sequence < history[q].sequence
    PROVE  p < q
<1>1. /\ history[p].sequence \in Nat /\ history[q].sequence \in Nat
      /\ p \in Nat /\ q \in Nat
  <2>1. history[p] \in Event /\ history[q] \in Event
    BY DEF IInv, HistoryWellFormed, WellFormed
  <2>2. QED BY <2>1 DEF Event, IInv, TypeOK
<1>2. q < p => history[q].sequence < history[p].sequence
  BY DEF IInv, HistoryNumbered
<1>3. p # q
  BY <1>1
<1>4. QED BY <1>1, <1>2, <1>3

LEMMA OrderedPart == IInv => AcceptedIsOrderedPart
<1> SUFFICES ASSUME IInv, verdict = "accepted"
             PROVE  /\ EventsOf(accepted) \subseteq EventsOf(history)
                    /\ \A i, j \in DOMAIN accepted :
                         i < j /\ Stream(accepted[i]) = Stream(accepted[j]) =>
                           \E p, q \in DOMAIN history :
                             /\ p < q
                             /\ history[p] = accepted[i] /\ history[q] = accepted[j]
  BY DEF AcceptedIsOrderedPart
<1>1. EventsOf(accepted) \subseteq EventsOf(history)
  BY AcceptedWasPublished DEF EventsOf
<1>2. ASSUME NEW i \in DOMAIN accepted, NEW j \in DOMAIN accepted, i < j,
             Stream(accepted[i]) = Stream(accepted[j])
      PROVE  \E p, q \in DOMAIN history :
               p < q /\ history[p] = accepted[i] /\ history[q] = accepted[j]
  <2>1. PICK p \in DOMAIN history : history[p] = accepted[i]
    BY AcceptedWasPublished
  <2>2. PICK q \in DOMAIN history : history[q] = accepted[j]
    BY AcceptedWasPublished
  <2>3. ~(accepted[i].sequence >= accepted[j].sequence)
    BY <1>2 DEF IInv, AcceptedValid, Disordered, Key, Stream
  <2>4. accepted[i] \in File /\ accepted[j] \in File
    BY DEF IInv, TypeOK
  <2>5. accepted[i].sequence < accepted[j].sequence
    BY <2>3, <2>4 DEF File
  <2>6. p < q
    BY <1>2, <2>1, <2>2, <2>5, OrderFromNumbers
  <2>7. QED BY <2>1, <2>2, <2>6
<1>3. QED BY <1>1, <1>2

(* Whatever the transport loses, repeats or delays, and whichever field it *)
(* alters that the envelope says twice, an accepted stream is an ordered   *)
(* part of what was published.                                             *)
THEOREM AcceptedStreamsAreOrdered == Spec => []AcceptedIsOrderedPart
<1>1. QED BY Invariant, OrderedPart, PTL

LEMMA FinalLast == IInv => FinalStatesLast
<1> SUFFICES ASSUME IInv, verdict = "accepted",
                    NEW i \in DOMAIN accepted, NEW j \in DOMAIN accepted, i < j,
                    SameAggregate(accepted[i], accepted[j]),
                    accepted[i].type \in Entity
             PROVE  accepted[i].transition[2] \notin Final(accepted[i].aggregateKind)
  BY DEF FinalStatesLast
<1>1. PICK p \in DOMAIN history, q \in DOMAIN history :
        p < q /\ history[p] = accepted[i] /\ history[q] = accepted[j]
  BY OrderedPart DEF AcceptedIsOrderedPart, SameAggregate
<1>2. accepted[i].aggregateKind \in Entity
  BY <1>1, KindsDisjoint DEF IInv, HistoryWellFormed, WellFormed, TypeFor
<1>3. QED BY <1>1, <1>2 DEF IInv, NothingAfterFinal

(* An accepted stream never reports anything of an aggregate after its     *)
(* final state: a finished operation stays finished, a revoked release     *)
(* stays revoked.                                                          *)
THEOREM FinalStatesStayLast == Spec => []FinalStatesLast
<1>1. QED BY Invariant, FinalLast, PTL

LEMMA ReplayEnds == IInv => ReplayReachesState
<1> DEFINE Among(s, a) == {i \in DOMAIN s : Stream(s[i]) = Stream(a) /\ s[i].aggregateKind = a.kind}
<1> SUFFICES ASSUME IInv, verdict = "accepted", NEW a \in Aggregate, a.kind \in Entity,
                    NEW i \in Among(accepted, a), NEW p \in Among(history, a),
                    \A j \in Among(accepted, a) : j <= i,
                    \A q \in Among(history, a) : q <= p,
                    history[p] \in EventsOf(accepted)
             PROVE  accepted[i].transition[2] = state[a]
  BY DEF ReplayReachesState
<1>1. PICK k \in DOMAIN accepted : accepted[k] = history[p]
  BY DEF EventsOf
<1>2. k \in Among(accepted, a) /\ k <= i /\ p \in Nat
  BY <1>1 DEF IInv, TypeOK
<1>3. k = i
  <2> SUFFICES ASSUME k < i PROVE FALSE
    BY <1>2 DEF IInv, TypeOK
  <2>1. /\ k \in DOMAIN accepted /\ i \in DOMAIN accepted /\ k < i
        /\ Stream(accepted[k]) = Stream(accepted[i])
    BY <1>2
  <2>2. AcceptedIsOrderedPart
    BY OrderedPart
  <2>3. PICK p1 \in DOMAIN history, q1 \in DOMAIN history :
          p1 < q1 /\ history[p1] = accepted[k] /\ history[q1] = accepted[i]
    <3> HIDE DEF Among
    <3> QED BY <2>1, <2>2 DEF AcceptedIsOrderedPart
  <2>4. p1 = p
    BY <1>1, <2>3 DEF IInv, HistoryNumbered
  <2>5. q1 \in Among(history, a) /\ q1 \in Nat
    BY <2>3 DEF IInv, TypeOK
  <2> QED BY <1>2, <2>3, <2>4, <2>5
<1>4. NewestEvent(p)
  <2> SUFFICES ASSUME NEW q \in DOMAIN history, p < q, SameAggregate(history[p], history[q])
               PROVE  FALSE
    BY DEF NewestEvent
  <2>1. q \in Among(history, a) /\ q \in Nat
    BY DEF SameAggregate, IInv, TypeOK
  <2> QED BY <1>2, <2>1
<1>5. history[p].transition[2] = state[a]
  BY <1>4 DEF IInv, NewestNamesState, About
<1> QED BY <1>1, <1>3, <1>5

(* A reader that applies an accepted stream in order is in the state of    *)
(* the owner once it has the newest event, whatever was lost before it.    *)
THEOREM ReplayFollowsOwners == Spec => []ReplayReachesState
<1>1. QED BY Invariant, ReplayEnds, PTL

\* Every published event passes validate_event.
LEMMA PublishedIsValid == ASSUME NEW e, WellFormed(e) PROVE EventValid(e)
<1>1. e \in Event
  BY DEF WellFormed
<1>2. CASE e.aggregateKind \in Entity
  BY <1>1, <1>2, KindsDisjoint DEF WellFormed, EventValid, Event, TypeFor, EventType, NoTransition
<1>3. CASE e.aggregateKind \notin Entity
  BY <1>1, <1>3, KindsDisjoint DEF WellFormed, EventValid, Event, TypeFor, EventType
<1>4. QED BY <1>2, <1>3

LEMMA Justified == IInv => RefusalsJustified
<1> SUFFICES ASSUME IInv PROVE RefusalsJustified
  OBVIOUS
<1>1. ASSUME verdict = "invalid event" PROVE Document \notin EventsOf(history)
  <2>1. ~EventValid(Document)
    BY <1>1 DEF IInv, RefusalGrounds
  <2>2. \A e \in EventsOf(history) : EventValid(e)
    BY PublishedIsValid DEF IInv, HistoryWellFormed, EventsOf
  <2>3. QED BY <2>1, <2>2
<1>2. ASSUME verdict = "duplicate event id"
      PROVE  \E i, j \in DOMAIN directory : i # j /\ directory[i] = directory[j]
  <2> DEFINE n == Len(accepted) + 1
  <2>1. /\ n \in DOMAIN directory /\ EventValid(directory[n])
        /\ directory[n].id \in SeenIds /\ \A i \in DOMAIN accepted : i # n
    <3>1. /\ Len(accepted) < Len(directory) /\ EventValid(directory[n])
          /\ directory[n].id \in SeenIds
      BY <1>2 DEF IInv, RefusalGrounds, Document
    <3>2. accepted \in Seq(File) /\ directory \in Seq(File)
      BY DEF IInv, TypeOK
    <3>3. n \in DOMAIN directory /\ \A i \in DOMAIN accepted : i # n
      BY <3>1, <3>2
    <3>4. QED BY <3>1, <3>3
  <2>2. PICK i \in DOMAIN accepted : accepted[i].id = directory[n].id
    BY <2>1 DEF SeenIds, EventsOf
  <2>3. PICK p \in DOMAIN history : history[p] = directory[n]
    BY <2>1, ValidWasPublished
  <2>4. /\ i \in DOMAIN directory /\ directory[i] = accepted[i]
        /\ \E q \in DOMAIN history : history[q] = accepted[i]
    BY AcceptedWasPublished
  <2>5. directory[i] = directory[n]
    BY <2>2, <2>3, <2>4 DEF IInv, HistoryNumbered
  <2>6. QED BY <2>1, <2>4, <2>5
<1>3. ASSUME verdict = "event sequence is not strictly increasing"
      PROVE  \E i, j \in DOMAIN directory : \E p, q \in DOMAIN history :
               /\ i < j /\ q < p
               /\ history[p] = directory[i] /\ history[q] = directory[j]
               /\ history[p].subject = history[q].subject
               /\ history[p].organizationid = history[q].organizationid
  <2>1. PICK i \in DOMAIN accepted, j \in DOMAIN accepted :
          /\ i < j
          /\ Key(accepted[i]) = Key(accepted[j])
          /\ accepted[i].sequence >= accepted[j].sequence
    BY <1>3 DEF IInv, RefusalGrounds, Disordered
  <2>2. PICK p \in DOMAIN history : history[p] = accepted[i]
    BY AcceptedWasPublished
  <2>3. PICK q \in DOMAIN history : history[q] = accepted[j]
    BY AcceptedWasPublished
  <2>4. p # q
    BY <2>1, <2>2, <2>3 DEF IInv, RefusalGrounds
  <2>5. /\ p \in Nat /\ q \in Nat
        /\ accepted[i].sequence \in Nat /\ accepted[j].sequence \in Nat
    <3>1. /\ accepted \in Seq(File) /\ history \in Seq(Event)
      BY DEF IInv, TypeOK
    <3>2. accepted[i] \in File /\ accepted[j] \in File
      BY <3>1
    <3>3. accepted[i].sequence \in Nat /\ accepted[j].sequence \in Nat
      BY <3>2 DEF File
    <3>4. p \in Nat /\ q \in Nat
      BY <3>1
    <3>5. QED BY <3>3, <3>4
  <2>6. p < q => accepted[i].sequence < accepted[j].sequence
    BY <2>1, <2>2, <2>3 DEF IInv, HistoryNumbered, Key, Stream
  <2>7. q < p
    BY <2>1, <2>4, <2>5, <2>6
  <2>8. QED BY <2>1, <2>2, <2>3, <2>7, AcceptedWasPublished DEF Key
<1>4. QED BY <1>1, <1>2, <1>3 DEF RefusalsJustified

(* A refusal always has its ground in the directory: an altered file, an   *)
(* event in two files, or two events of one subject the wrong way round.   *)
THEOREM RefusalsHaveGrounds == Spec => []RefusalsJustified
<1>1. QED BY Invariant, Justified, PTL
=============================================================================
