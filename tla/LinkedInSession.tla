-------------------------- MODULE LinkedInSession --------------------------
(***************************************************************************)
(* The realtime session of LinkedIn: a loop of the daemon that opens a     *)
(* stream, reads it until it closes, waits, and opens it again.  Stopping  *)
(* aborts the request under way; the wait is not cut short, and the loop   *)
(* leaves when it is over.                                                 *)
(***************************************************************************)

Fresh == [input |-> 0, should |-> FALSE, ever |-> FALSE, state |-> "stopped",
          loop |-> "none", aborted |-> FALSE]

Session(Inputs) ==
    [input : Inputs, should : BOOLEAN, ever : BOOLEAN,
     state : {"stopped", "connecting", "connected", "reconnecting", "degraded"},
     loop : {"none", "opening", "open", "waiting"}, aborted : BOOLEAN]

Start(s) ==
    IF s.should THEN s
    ELSE [s EXCEPT !.should = TRUE, !.loop = "opening", !.aborted = FALSE,
                   !.state = IF s.ever THEN "reconnecting" ELSE "connecting"]

Stop(s) ==
    [s EXCEPT !.should = FALSE, !.state = "stopped",
              !.aborted = s.loop \in {"opening", "open"}]

Opened(s) == [s EXCEPT !.loop = "open", !.ever = TRUE, !.state = "connected"]

(* An error ends a turn of the loop; one that says that the credentials    *)
(* are refused ends the loop and leaves the session as it was started.     *)
Broke(s, auth) ==
    IF ~s.should THEN [s EXCEPT !.loop = "none", !.aborted = FALSE]
    ELSE IF auth THEN [s EXCEPT !.loop = "none", !.state = "degraded"]
    ELSE [s EXCEPT !.loop = "waiting",
                   !.state = IF s.ever THEN "reconnecting" ELSE "connecting"]

Waited(s) == [s EXCEPT !.loop = IF s.should THEN "opening" ELSE "none"]

Quiet(s) == ~s.should /\ (s.loop \in {"opening", "open"} => s.aborted)
Online(s) == s.state = "connected" /\ s.loop = "open"
Inert(s) == ~s.should /\ s.loop = "none"
=============================================================================
