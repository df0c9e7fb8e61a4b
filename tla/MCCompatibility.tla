-------------------------- MODULE MCCompatibility --------------------------
(* Three contracts after the table: two with a state field that share some *)
(* of its values, one with an optional field and a version of its own.     *)
EXTENDS Compatibility

MCContract == {"record", "receipt", "lock"}
MCField == {"schemaVersion", "state", "detail"}
MCValue == {"v1", "lock-v1", "executed", "prepared", "seven"}
MCTypesOf == [v \in MCValue |->
    IF v = "seven" THEN {"integer", "number"} ELSE {"string"}]
MCRequired == [c \in MCContract |->
    IF c = "lock" THEN {"schemaVersion"} ELSE {"schemaVersion", "state"}]
MCAllowed == [c \in MCContract |->
    IF c = "lock" THEN {"schemaVersion", "detail"} ELSE {"schemaVersion", "state"}]
MCFieldTypes == [c \in MCContract |->
    IF c = "lock" THEN [f \in {"schemaVersion", "detail"} |->
                            IF f = "detail" THEN {"number"} ELSE {"string"}]
    ELSE [f \in {"schemaVersion", "state"} |-> {"string"}]]
MCConst == [c \in MCContract |->
    [f \in {"schemaVersion"} |-> IF c = "lock" THEN "lock-v1" ELSE "v1"]]
MCEnum == [c \in MCContract |->
    [f \in IF c = "record" THEN {"state"} ELSE {} |-> {"executed", "prepared"}]]
MCCanonical == [c \in MCContract |->
    CASE c = "record"  -> [f \in {"state"} |-> [v \in {"executed", "prepared"} |->
                              IF v = "executed" THEN "EXECUTED" ELSE "PREPARED"]]
      [] c = "receipt" -> [f \in {"state"} |-> [v \in {"executed"} |-> "EXECUTED"]]
      [] c = "lock"    -> [f \in {} |-> {}]]
MCProvenanceOf == [c \in MCContract |-> <<"schema", c>>]
=============================================================================
