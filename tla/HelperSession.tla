--------------------------- MODULE HelperSession ---------------------------
(***************************************************************************)
(* The realtime sessions of Slack, Signal and WhatsApp: an object of the   *)
(* daemon that keeps a helper process running.  The operators give what a  *)
(* call, or an event of the helper, makes of the object.                   *)
(*                                                                         *)
(* A helper of Signal is connected as soon as it runs; the others say when *)
(* they are, and a timer replaces a helper that does not.  A helper that   *)
(* was disposed of has no listeners left and may take a while to exit.     *)
(***************************************************************************)

Fresh == [input |-> 0, should |-> FALSE, ever |-> FALSE, stopping |-> FALSE,
          state |-> "stopped", child |-> "none", login |-> 0, dying |-> FALSE,
          retry |-> FALSE, watch |-> FALSE]

(* child: starting until it has been spawned, running until it is connected,*)
(* ending once it has reported the end of its connection, mute when nothing *)
(* will be heard of it; login: the login it found in its store, where those *)
(* of Signal and WhatsApp keep it; stopping: Signal's was sent SIGTERM.     *)
Session(Inputs) ==
    [input : Inputs, should : BOOLEAN, ever : BOOLEAN, stopping : BOOLEAN,
     state : {"stopped", "connecting", "connected", "reconnecting", "degraded"},
     child : {"none", "starting", "running", "online", "ending", "mute"},
     login : Inputs, dying : BOOLEAN, retry : BOOLEAN, watch : BOOLEAN]

HasChild(s) == s.child # "none"

Connecting(s) == IF s.ever THEN "reconnecting" ELSE "connecting"

Lost(s) == IF s.should THEN "reconnecting" ELSE "degraded"

-----------------------------------------------------------------------------
DisposeChild(s) ==
    [s EXCEPT !.child = "none", !.login = 0, !.dying = @ \/ HasChild(s)]

SpawnChild(s) == [DisposeChild(s) EXCEPT !.child = "starting"]

Start(p, s) ==
    IF s.should /\ HasChild(s) THEN s
    ELSE SpawnChild([s EXCEPT !.should = TRUE, !.state = Connecting(s),
                              !.retry = @ /\ p # "whatsapp"])

(* Signal keeps listening to a helper it stops, in order to wait for its   *)
(* exit; the others leave it at once.                                      *)
Stop(p, s) ==
    LET quit == [s EXCEPT !.should = FALSE, !.retry = FALSE]
    IN  IF p # "signal"
        THEN [DisposeChild(quit) EXCEPT !.watch = FALSE, !.state = "stopped"]
        ELSE IF HasChild(s) THEN [quit EXCEPT !.stopping = TRUE]
             ELSE [quit EXCEPT !.stopping = FALSE, !.state = "stopped"]

-----------------------------------------------------------------------------
(* The helper runs, with the login l. *)
Spawned(p, s, l) ==
    IF p = "signal"
    THEN [s EXCEPT !.child = "online", !.login = l, !.ever = TRUE, !.state = "connected"]
    ELSE [s EXCEPT !.child = "running", !.login = l, !.state = Connecting(s), !.watch = TRUE]

SaysConnected(s) ==
    [s EXCEPT !.child = "online", !.ever = TRUE, !.watch = FALSE, !.state = "connected"]

(* MUTANT: the timer that guarded the first connection is the only one.    *)
EnsureNothing(s) == s

EnsureConnectTimer(s) == [s EXCEPT !.watch = @ \/ s.should]

(* The helper of Slack exits next, that of WhatsApp tries by itself. *)
SaysDisconnected(p, s) ==
    IF p = "slack" THEN [s EXCEPT !.child = "ending", !.state = Lost(s)]
    ELSE [EnsureConnectTimer(s) EXCEPT !.child = "running", !.state = Lost(s)]

(* The helper of WhatsApp reports an error that keeps it from connecting,  *)
(* or has ended its connection: a session that is connected ignores it.    *)
SaysError(s) ==
    IF s.state = "connected" THEN [s EXCEPT !.child = "mute"]
    ELSE [EnsureConnectTimer(s) EXCEPT !.child = "mute", !.state = Lost(s)]

(* MUTANT: it is not looked at whether the session shall go on.            *)
HandleExitAlwaysRetries(p, s) ==
    LET left == [DisposeChild(s) EXCEPT !.stopping = FALSE, !.watch = FALSE]
    IN  IF s.state = "stopped" THEN left
        ELSE [left EXCEPT !.state = Lost(s), !.retry = TRUE]

(* The helper has exited, could not be spawned, or took too long.          *)
HandleExit(p, s) ==
    LET left == [DisposeChild(s) EXCEPT !.stopping = FALSE, !.watch = FALSE]
    IN  IF s.state = "stopped" THEN left
        ELSE IF s.stopping THEN [left EXCEPT !.state = "stopped"]
        ELSE [left EXCEPT !.state = Lost(s), !.retry = s.should]

Exited(p, s) == HandleExit(p, [s EXCEPT !.child = "none"])

ConnectTimeout(p, s) == HandleExit(p, [s EXCEPT !.watch = FALSE])

ReconnectTimeout(s) ==
    IF s.should THEN SpawnChild([s EXCEPT !.retry = FALSE, !.state = "reconnecting"])
    ELSE [s EXCEPT !.retry = FALSE]

Quiet(s) == ~s.should /\ ~s.retry /\ ~s.watch /\ (HasChild(s) => s.stopping)
Online(s) == s.state = "connected" /\ s.child = "online"
Inert(s) == ~s.should /\ ~HasChild(s) /\ ~s.dying /\ ~s.retry /\ ~s.watch
=============================================================================
