--------------------------- MODULE DiscordSession ---------------------------
(***************************************************************************)
(* The realtime session of Discord: an object of the daemon that asks for  *)
(* the user and the channels (the bootstrap), and from then on polls the   *)
(* channels.  Stopping clears the timers; a request under way goes on.     *)
(***************************************************************************)

(* cut: auxiliary, the session was stopped during its bootstrap.           *)
Fresh == [input |-> 0, should |-> FALSE, ever |-> FALSE, state |-> "stopped",
          boot |-> "none", user |-> FALSE, poll |-> FALSE, timer |-> FALSE,
          retry |-> FALSE, cut |-> FALSE]

Session(Inputs) ==
    [input : Inputs, should : BOOLEAN, ever : BOOLEAN,
     state : {"stopped", "connecting", "connected", "reconnecting", "degraded"},
     boot : {"none", "user", "channels"}, user : BOOLEAN, poll : BOOLEAN,
     timer : BOOLEAN, retry : BOOLEAN, cut : BOOLEAN]

Start(s) ==
    IF s.should THEN s
    ELSE [s EXCEPT !.should = TRUE, !.boot = "user",
                   !.state = IF s.ever THEN "reconnecting" ELSE "connecting"]

ClearTimers(s) == [s EXCEPT !.timer = FALSE, !.retry = FALSE]

Stop(s) ==
    [ClearTimers(s) EXCEPT !.should = FALSE, !.user = FALSE, !.state = "stopped",
                           !.cut = @ \/ s.boot # "none"]

(* The bootstrap: the user has been read, the channels have been read.     *)
GotUser(s) == [s EXCEPT !.boot = "channels", !.user = TRUE]

GotChannels(s) ==
    [s EXCEPT !.boot = "none", !.ever = TRUE, !.state = "connected",
              !.timer = TRUE, !.retry = FALSE]

Poll(s) == [s EXCEPT !.poll = TRUE]
Polled(s) == [s EXCEPT !.poll = FALSE]

(* handlePollFailure: of the bootstrap or of a poll. *)
Failed(s, auth) ==
    LET over == [ClearTimers(s) EXCEPT !.boot = "none", !.poll = FALSE]
    IN  IF auth THEN [over EXCEPT !.should = FALSE, !.state = "stopped"]
        ELSE [over EXCEPT !.state = "degraded", !.retry = s.should]

ReconnectTimeout(s) ==
    IF s.should THEN [s EXCEPT !.retry = FALSE, !.state = "reconnecting", !.boot = "user"]
    ELSE [s EXCEPT !.retry = FALSE]

Quiet(s) == ~s.should /\ ~s.retry /\ (s.timer => s.cut)
Online(s) == s.state = "connected" /\ s.timer /\ s.user
Inert(s) == ~s.should /\ s.boot = "none" /\ ~s.poll /\ ~s.timer /\ ~s.retry
=============================================================================
