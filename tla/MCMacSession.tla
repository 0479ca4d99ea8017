---------------------------- MODULE MCMacSession ----------------------------
(***************************************************************************)
(* A small MacSession: bytes up to 3, a capacity that needs three of the   *)
(* four bytes of its field, and a link whose window no byte holds.         *)
(***************************************************************************)
EXTENDS MacSession

Build(name, window) ==
  [mode |-> name, capacity |-> 40, window |-> window, retries |-> MaxRetries]

MCBuilds == {Build(name, WindowSize) : name \in {"tm", "um", "am"}} \cup {Build("am", U8Max + 1)}
=============================================================================
