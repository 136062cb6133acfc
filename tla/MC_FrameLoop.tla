---------------------------- MODULE MC_FrameLoop ----------------------------
(* Model-checking instances of FrameLoop.                                  *)
EXTENDS FrameLoop

Started(async, hangs, deaf, throws, to, re) ==
    [async |-> async, hangs |-> hangs, deaf |-> deaf, throws |-> throws, maxToggles |-> to, maxRequests |-> re]

\* Meshes and F6; exceptions, a GPU that hangs and a session that does not end;
\* started with --sync.
AnySetups ==
    {Started(TRUE, FALSE, FALSE, FALSE, 2, 2), Started(FALSE, FALSE, FALSE, FALSE, 2, 2)}
        \cup {Started(TRUE, hangs, deaf, TRUE, 0, 1) : hangs \in BOOLEAN, deaf \in BOOLEAN}

\* Closing the window is enough.
PlainSetups == {Started(TRUE, FALSE, FALSE, FALSE, 0, 1)}
=============================================================================
