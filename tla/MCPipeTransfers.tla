--------------------------- MODULE MCPipeTransfers ---------------------------
(* PipeTransfers with one interface of two settings and one of one. *)
EXTENDS PipeTransfers

MCPipesOf == 0 :> [s \in {0, 1} |-> IF s = 0 THEN {"in"} ELSE {"out"}]
          @@ 1 :> [s \in {0, 1} |-> {"iso"}]

Op(code, type, ep, iface, setting) ==
    [code |-> code, type |-> type, ep |-> ep, iface |-> iface, setting |-> setting]

ReadIn == Op("read", "bulk", "in", 0, 0)
ReadIso == Op("read", "iso", "iso", 0, 0)
WriteControl == Op("write", "control", "out", 0, 0)
AbortIn == Op("abort", "bulk", "in", 0, 0)
ResetOut == Op("reset", "bulk", "out", 0, 0)
Alt == Op("alt", "bulk", "in", 0, 1)
AltBack == Op("alt", "bulk", "in", 0, 0)
Reset == Op("resetDevice", "bulk", "in", 0, 0)
Other == Op("other", "bulk", "in", 0, 0)

\* Requests differ in what they are used for, which stands for the symmetry
\* that liveness rules out.
CONSTANTS q1, q2, q3

MCOperations == q1 :> {ReadIn, ReadIso, WriteControl}
             @@ q2 :> {ReadIn, ReadIso, AbortIn, Alt}
             @@ q3 :> {ReadIn, Alt, AltBack, AbortIn, ResetOut, Reset, Other}

MCFaults == {"preprocess", "lock", "enqueue", "forward", "send", "input", "abort",
             "select", "pipes"}
=============================================================================
