--------------------------- MODULE MCEventStream ---------------------------
(* Two organizations that use the same subject, and in one of them an      *)
(* aggregate and a projection that share the subject and its numbers.      *)
EXTENDS EventStream
MCAggregate ==
    {[organizationid |-> "org.a", subject |-> "operation.1", kind |-> "Operation"],
     [organizationid |-> "org.a", subject |-> "operation.1",
      kind |-> "HarnessStatusProjection"],
     [organizationid |-> "org.b", subject |-> "operation.1", kind |-> "Operation"]}
=============================================================================
