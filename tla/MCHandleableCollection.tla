---------------------- MODULE MCHandleableCollection ----------------------
(***************************************************************************)
(* Small instances of HandleableCollection for TLC.                        *)
(***************************************************************************)
EXTENDS HandleableCollection

CONSTANT w3  \* one of the waiters

\* Callers of Connect or Accept, whose handler takes any item, and one whose
\* handler may answer anything, as that of WaitForConnection (which peeks,
\* discards or throws) or one that skips.
MixedAnswers ==
    [w \in Waiters |-> IF w = w3 THEN Verdicts ELSE {"take"}]
=============================================================================
