------------------------- MODULE PipelineLifecycle -------------------------
(***************************************************************************)
(* The states of a pipeline and the transitions between them, as the       *)
(* summary of class Pipeline tells and draws them (Pipeline.cs, lines      *)
(* 16-34), and one more, LateStop.                                         *)
(***************************************************************************)
VARIABLES phase, \* the logical state
          asked  \* StopAsync has started its task, which it does once

Init == phase = "Unstarted" /\ asked = FALSE

\* By RunAsync.
Run == phase = "Unstarted" /\ phase' = "Running"

\* By StopAsync, or because no data is left.
Stop == phase \in {"Unstarted", "Running"} /\ phase' = "Stopping"

\* By a token, or by DisposeAsync.
Abort == phase \in {"Unstarted", "Running", "Stopping"} /\ phase' = "Aborting"

Finish == phase \in {"Stopping", "Aborting"} /\ phase' = "Stopped"

\* Not in the picture: StopAsync of a pipeline that has stopped by itself.
LateStop == phase = "Stopped" /\ phase' \in {"Stopping", "Aborting"}

\* StopAsync, when it is the first.
Ask ==
    /\ ~asked
    /\ asked' = TRUE
    /\ \/ Stop \/ Abort \/ LateStop
       \/ phase \in {"Stopping", "Aborting"} /\ UNCHANGED phase

Next == Ask \/ ((Run \/ Stop \/ Abort \/ Finish) /\ UNCHANGED asked)

Spec == Init /\ [][Next]_<<phase, asked>>
=============================================================================
