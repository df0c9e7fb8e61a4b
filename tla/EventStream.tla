---------------------------- MODULE EventStream ----------------------------
(***************************************************************************)
(* events.validate_event_path and the events it is given.  Owners change   *)
(* their aggregates and publish one event per change; a transport, which   *)
(* the repository leaves to the deployment, puts copies into a directory,  *)
(* where events may be missing, repeated, out of order or altered; the     *)
(* validator reads the directory in the order of its file names and either *)
(* returns the events or refuses the directory.                            *)
(***************************************************************************)
EXTENDS Lifecycle, Sequences, Naturals

CONSTANTS
    Organization,
    Subject,
    Aggregate,   \* what is reported on: an entity or a projection
    MaxEvents,   \* bound of published events
    MaxFiles     \* bound of files in the directory

ProjectionKind ==
    {"TenantHarnessOverview", "PlaneStatusProjection",
     "HarnessStatusProjection"}

ASSUME AggregateTyped ==
    Aggregate \subseteq [organizationid : Organization, subject : Subject,
                         kind : Entity \union ProjectionKind]
ASSUME BoundsTyped == MaxEvents \in Nat /\ MaxFiles \in Nat

VARIABLES
    state,      \* the state of each lifecycle aggregate
    sequence,   \* last sequence number of each organization and subject
    history,    \* every event published so far
    directory,  \* delivered events in the order of their file names
    accepted,   \* events it has validated
    verdict     \* "idle", "reading", or how the call ended

owners == <<state, sequence, history>>
reader == <<accepted, verdict>>
vars == <<owners, directory, reader>>

NoTransition == <<>>
EventsOf(s) == {s[i] : i \in DOMAIN s}

(* EVENT_TYPES: each family of events is named for the one entity whose    *)
(* changes it reports; one family reports projections.                     *)
ProjectionUpdated == "projection"
EventType == Entity \union {ProjectionUpdated}
TypeFor(kind) == IF kind \in Entity THEN kind ELSE ProjectionUpdated

\* What an owner numbers its events within.
Stream(e) == <<e.organizationid, e.subject>>
-----------------------------------------------------------------------------
(* Owners.                                                                 *)

EventAbout(a, transition) ==
    [id |-> Len(history) + 1,
     organizationid |-> a.organizationid,
     partitionkey |-> a.organizationid,
     subject |-> a.subject,
     aggregateId |-> a.subject,
     type |-> TypeFor(a.kind),
     aggregateKind |-> a.kind,
     sequence |-> sequence[Stream(a)] + 1,
     transition |-> transition]

Publish(a, transition) ==
    /\ Len(history) < MaxEvents
    /\ sequence' = [sequence EXCEPT ![Stream(a)] = @ + 1]
    /\ history' = Append(history, EventAbout(a, transition))
    /\ UNCHANGED <<directory, reader>>

\* An owner changes an aggregate as its lifecycle allows and reports it.
Change(a, to) ==
    /\ a.kind \in Entity
    /\ Refusal(a.kind, state[a], to) = "none"
    /\ state' = [state EXCEPT ![a] = to]
    /\ Publish(a, <<state[a], to>>)

\* The projector reports a new projection; projections have no lifecycle.
Project(a) ==
    /\ a.kind \in ProjectionKind
    /\ Publish(a, NoTransition)
    /\ UNCHANGED state
-----------------------------------------------------------------------------
(* The transport.                                                          *)

(* Alterations: one field of an envelope holds the value of another event, *)
(* or the transition is one that is not in the table.  A change of what    *)
(* the envelope says only once (number, legal transition) cannot be seen   *)
(* by anybody and is not among them.                                       *)
Alterations(e) ==
    {[e EXCEPT !.organizationid = o] : o \in Organization}
    \union {[e EXCEPT !.partitionkey = o] : o \in Organization}
    \union {[e EXCEPT !.subject = s] : s \in Subject \union {"unknown"}}
    \union {[e EXCEPT !.aggregateId = s] : s \in Subject \union {"unknown"}}
    \union {[e EXCEPT !.type = t] : t \in {TypeFor(a.kind) : a \in Aggregate}}
    \union {[e EXCEPT !.type = "unknown"]}
    \union {[e EXCEPT !.aggregateKind = a.kind] : a \in
                {b \in Aggregate : b.kind \in Entity}}
    \union {[e EXCEPT !.transition = t] : t \in
                {NoTransition, <<"SUCCEEDED", "PENDING">>}}

(* The next file name in lexical order holds a copy of some event.  The    *)
(* validator lists the directory once: a file that comes later is one more *)
(* that is missing, so none comes.                                         *)
Deliver(e) ==
    /\ verdict = "idle"
    /\ Len(directory) < MaxFiles
    /\ directory' = Append(directory, e)
    /\ UNCHANGED <<owners, reader>>

DeliverCopy == \E e \in EventsOf(history) : Deliver(e)

\* At most one file is altered.
DeliverAltered ==
    /\ EventsOf(directory) \subseteq EventsOf(history)
    /\ \E e \in EventsOf(history) : \E x \in Alterations(e) \ {e} : Deliver(x)
-----------------------------------------------------------------------------
(* The validator.                                                          *)

\* Mutant: the partition key is not compared.
EventValidAnyPartition(e) ==
    /\ e.type \in EventType
    /\ e.aggregateId = e.subject
    /\ e.type = ProjectionUpdated =>
           e.aggregateKind \in ProjectionKind /\ e.transition = NoTransition
    /\ e.type \in Entity =>
           /\ e.aggregateKind = e.type
           /\ e.transition # NoTransition
           /\ Refusal(e.aggregateKind, e.transition[1], e.transition[2]) = "none"

(* validate_event finds no issue: what the envelope says twice agrees, and *)
(* a lifecycle event carries a transition of its entity, a projection      *)
(* event none.  EVENT_TYPES.get gives None for an unknown type as well, so *)
(* only the first conjunct refuses one.                                    *)
EventValid(e) ==
    /\ e.type \in EventType
    /\ e.organizationid = e.partitionkey
    /\ e.aggregateId = e.subject
    /\ e.type = ProjectionUpdated =>
           e.aggregateKind \in ProjectionKind /\ e.transition = NoTransition
    /\ e.type \in Entity =>
           /\ e.aggregateKind = e.type
           /\ e.transition # NoTransition
           /\ Refusal(e.aggregateKind, e.transition[1], e.transition[2]) = "none"

End(outcome) ==
    /\ verdict' = outcome
    /\ UNCHANGED <<owners, directory, accepted>>

\* _event_files: the directory is listed once.
ListFiles ==
    /\ verdict = "idle"
    /\ directory # <<>>
    /\ verdict' = "reading"
    /\ UNCHANGED <<owners, directory, accepted>>

RefuseEmptyDirectory ==
    /\ verdict = "idle"
    /\ directory = <<>>
    /\ End("directory is empty")

\* The file the loop is at: every earlier one was accepted.
Reading == verdict = "reading" /\ Len(accepted) < Len(directory)
Document == directory[Len(accepted) + 1]
SeenIds == {e.id : e \in EventsOf(accepted)}

RefuseInvalidEvent ==
    /\ Reading
    /\ ~EventValid(Document)
    /\ End("invalid event")

RefuseDuplicateId ==
    /\ Reading
    /\ EventValid(Document)
    /\ Document.id \in SeenIds
    /\ End("duplicate event id")

AcceptEvent ==
    /\ Reading
    /\ EventValid(Document)
    /\ Document.id \notin SeenIds
    /\ accepted' = Append(accepted, Document)
    /\ UNCHANGED <<owners, directory, verdict>>

\* Mutant: subjects of different organizations share their numbers.
KeyOfSubject(e) == e.subject

\* The key under which the validator collects sequence numbers.
Key(e) == <<e.organizationid, e.subject>>

\* Mutant: only neighbouring files are compared.
DisorderedNeighbours ==
    \E i \in 1..Len(accepted) - 1 :
        /\ Key(accepted[i]) = Key(accepted[i + 1])
        /\ accepted[i].sequence >= accepted[i + 1].sequence

(* The numbers observed under some key differ from their sorted order, or  *)
(* repeat.                                                                 *)
Disordered ==
    \E i, j \in DOMAIN accepted :
        /\ i < j
        /\ Key(accepted[i]) = Key(accepted[j])
        /\ accepted[i].sequence >= accepted[j].sequence

AllRead == verdict = "reading" /\ Len(accepted) = Len(directory)

RefuseDisorder ==
    /\ AllRead
    /\ Disordered
    /\ End("event sequence is not strictly increasing")

Return ==
    /\ AllRead
    /\ ~Disordered
    /\ End("accepted")
-----------------------------------------------------------------------------
Init ==
    /\ state = [a \in Aggregate |->
                   IF a.kind \in Entity THEN Initial(a.kind) ELSE "none"]
    /\ sequence = [k \in Organization \X Subject |-> 0]
    /\ history = <<>>
    /\ directory = <<>>
    /\ accepted = <<>>
    /\ verdict = "idle"

Own ==
    \/ \E a \in Aggregate : \E to \in AnyState : Change(a, to)
    \/ \E a \in Aggregate : Project(a)

Transport == DeliverCopy \/ DeliverAltered

Validate ==
    \/ ListFiles
    \/ RefuseEmptyDirectory
    \/ RefuseInvalidEvent
    \/ RefuseDuplicateId
    \/ AcceptEvent
    \/ RefuseDisorder
    \/ Return

Next == Own \/ Transport \/ Validate

Spec == Init /\ [][Next]_vars
-----------------------------------------------------------------------------
Event ==
    [id : Nat, organizationid : Organization, partitionkey : Organization,
     subject : Subject, aggregateId : Subject,
     type : EventType, aggregateKind : Entity \union ProjectionKind,
     sequence : Nat,
     transition : {NoTransition} \union (AnyState \X AnyState)]

\* What a file can hold: an event, or one with a field that names nothing.
File ==
    [id : Nat, organizationid : Organization, partitionkey : Organization,
     subject : Subject \union {"unknown"},
     aggregateId : Subject \union {"unknown"},
     type : EventType \union {"unknown"},
     aggregateKind : Entity \union ProjectionKind,
     sequence : Nat,
     transition : {NoTransition} \union (AnyState \X AnyState)]

Outcome ==
    {"directory is empty", "invalid event", "duplicate event id",
     "event sequence is not strictly increasing", "accepted"}

(* Published events are well formed, and the validator holds a prefix of    *)
(* what it listed.                                                         *)
TypeOK ==
    /\ state \in [Aggregate -> AnyState \union {"none"}]
    /\ sequence \in [Organization \X Subject -> Nat]
    /\ history \in Seq(Event)
    /\ Len(history) <= MaxEvents
    /\ directory \in Seq(File)
    /\ Len(directory) <= MaxFiles
    /\ accepted \in Seq(File)
    /\ Len(accepted) <= Len(directory)
    /\ \A i \in DOMAIN accepted : accepted[i] = directory[i]
    /\ verdict \in {"idle", "reading"} \union Outcome

(* An accepted stream is a part of the history of every subject, in its    *)
(* order, and nothing else: lost, repeated and late files, and files with  *)
(* one field altered that the envelope says twice, cannot make             *)
(* validate_event_path return an event that was not published or two       *)
(* events of a subject in the wrong order.                                 *)
AcceptedIsOrderedPart ==
    verdict = "accepted" =>
        /\ EventsOf(accepted) \subseteq EventsOf(history)
        /\ \A i, j \in DOMAIN accepted :
               i < j /\ Stream(accepted[i]) = Stream(accepted[j]) =>
                   \E p, q \in DOMAIN history :
                       p < q /\ history[p] = accepted[i] /\ history[q] = accepted[j]

SameAggregate(e, f) == Stream(e) = Stream(f) /\ e.aggregateKind = f.aggregateKind

(* In an accepted stream nothing follows the event that brings an          *)
(* aggregate into a final state: a reader that applies it in order never   *)
(* revives a finished operation or a revoked release.                      *)
FinalStatesLast ==
    verdict = "accepted" =>
        \A i, j \in DOMAIN accepted :
            i < j /\ SameAggregate(accepted[i], accepted[j])
                /\ accepted[i].type \in Entity =>
                accepted[i].transition[2] \notin Final(accepted[i].aggregateKind)

(* Nothing is refused without a reason in the directory: an altered file,  *)
(* one event in two files, or two events of one subject the wrong way      *)
(* round.  In particular the streams of two organizations do not disturb   *)
(* each other, however their files interleave.                             *)
RefusalsJustified ==
    /\ verdict = "invalid event" => Document \notin EventsOf(history)
    /\ verdict = "duplicate event id" =>
           \E i, j \in DOMAIN directory : i # j /\ directory[i] = directory[j]
    /\ verdict = "event sequence is not strictly increasing" =>
           \E i, j \in DOMAIN directory : \E p, q \in DOMAIN history :
               /\ i < j /\ q < p
               /\ history[p] = directory[i] /\ history[q] = directory[j]
               /\ history[p].subject = history[q].subject
               /\ history[p].organizationid = history[q].organizationid

(* A reader that applies an accepted stream in order ends in the state the *)
(* aggregate is in when its newest event is there, whatever was lost before. *)
ReplayReachesState ==
    verdict = "accepted" =>
        \A a \in Aggregate :
            LET About(s) == {i \in DOMAIN s : /\ Stream(s[i]) = Stream(a)
                                              /\ s[i].aggregateKind = a.kind}
            IN  \A i \in About(accepted), p \in About(history) :
                    (/\ a.kind \in Entity
                     /\ \A j \in About(accepted) : j <= i
                     /\ \A q \in About(history) : q <= p
                     /\ history[p] \in EventsOf(accepted)) =>
                        accepted[i].transition[2] = state[a]

=============================================================================
