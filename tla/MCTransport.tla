----------------------------- MODULE MCTransport -----------------------------
(* The limit and the summary of the code; Git says nothing, a little or too much. *)
EXTENDS Transport
MCDiagnostics == {0, 100, 5000}
MCSummary == 29   \* "Remote HEAD discovery failed"
MCLimit == 4000
==============================================================================
