------------------------- MODULE MCStatusProjection -------------------------
(* Every status of one harness with one axis, and pairs of harnesses over  *)
(* the states that the rules tell apart.                                   *)
EXTENDS StatusProjection

AxisOf(axis, state, required, underlying, applicability) ==
    [axis |-> axis, state |-> state, required |-> required,
     underlyingState |-> underlying, applicability |-> applicability]

AllAxes(axis) ==
    {AxisOf(axis, s, r, u, a) :
        s \in EvidenceStates, r \in BOOLEAN,
        u \in {None, "PASS", "FAIL"}, a \in BOOLEAN}
FewAxes(axis) ==
    {AxisOf(axis, s, r, None, FALSE) : s \in {"PASS", "FAIL", "MISSING"}, r \in BOOLEAN}
    \union {AxisOf(axis, "WAIVED", TRUE, "FAIL", FALSE)}

Status(ids, selections, installations, axes) ==
    [harnessId : ids, selectionState : selections,
     installationState : installations, axes : axes]

One == Status({"h1"}, SelectionStates,
              States("HarnessInstallation"),
              {<<>>} \union {<<x>> : x \in AllAxes("SECURITY")})
TwoAxes == Status({"h1"}, {"SELECTED", "BLOCKED"},
                  {"READY", "DEGRADED", "REVOKED"},
                  FewAxes("SECURITY") \X (FewAxes("RUNTIME") \union FewAxes("SECURITY")))
Several == Status({"h1", "h2"}, {"SELECTED", "BLOCKED", "PROPOSED"},
                  {"READY", "DEGRADED", "FAILED", "REVOKED"},
                  {<<>>, <<AxisOf("SECURITY", "WARN", TRUE, None, FALSE)>>})

MCSnapshots ==
    {<<>>} \union {<<h>> : h \in One \union TwoAxes} \union Several \X Several

Cursor(id, state) == [sourceId |-> id, observedAt |-> 1, state |-> state]
Binding(projectedAt, freshUntil, cursors) ==
    [projectedAt |-> projectedAt, freshUntil |-> freshUntil,
     sourceCursors |-> cursors]

MCBindings ==
    {Binding(1, 2, <<Cursor("s1", "CURRENT"), Cursor("s2", "CURRENT")>>),
     Binding(1, 1, <<Cursor("s1", "SOURCE_UNAVAILABLE"), Cursor("s2", "CURRENT")>>),
     Binding(0, 1, <<[Cursor("s1", "CURRENT") EXCEPT !.observedAt = 0]>>),
     Binding(1, 0, <<Cursor("s1", "CURRENT")>>),
     Binding(1, 2, <<>>),
     Binding(1, 2, <<Cursor("s1", "CURRENT"), Cursor("s1", "CURRENT")>>)}
=============================================================================
