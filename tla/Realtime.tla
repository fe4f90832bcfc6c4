------------------------------ MODULE Realtime ------------------------------
(***************************************************************************)
(* Realtime sessions: a supervisor of the daemon holds one session for an  *)
(* account that is to be followed.  Every change of the account asks for a *)
(* reconcile, which first finds out what is desired and then starts, stops *)
(* and replaces sessions; for Signal and WhatsApp it awaits their helper   *)
(* in between, and what it found out may have changed by then.  A sync of  *)
(* Signal has the helper to itself: it stops the session, waits for the    *)
(* helper's exit, and asks for a reconcile in the end.                     *)
(* The watchers of this machine's databases are kept in the same way.      *)
(*                                                                         *)
(* One behaviour is about one account of one platform.  A session that was *)
(* taken from the supervisor still reacts to what it left under way.       *)
(***************************************************************************)
EXTENDS Integers

CONSTANTS
    Platforms,     \* the platforms a behaviour can be about
    Ids,           \* bound: sessions at a time, those left behind included
    NoSession,
    MaxLogins,     \* bound: logins of the account
    MaxSyncs,      \* bound: syncs queued by the scheduler
    MaxFaults      \* bound: faults of helpers and requests, refusals, removals

ASSUME RealtimeAssumption ==
    /\ Platforms \subseteq {"slack", "signal", "whatsapp", "discord", "linkedin", "local"}
    /\ NoSession \notin Ids
    /\ MaxLogins \in Nat /\ MaxSyncs \in Nat /\ MaxFaults \in Nat

VARIABLES
    platform,      \* the platform of this behaviour
    account,       \* the login the account is enabled with, or 0
    secret,        \* what a session needs of the login is stored
    refused,       \* the logins the provider refuses by now
    realtime,      \* the supervisor, its sessions and its reconciles
    run,           \* the sync run of the account
    awaited,       \* the session whose helper's exit the run awaits
    suppress,      \* suppressNextSignalReconnectSync
    logins, syncs, faults    \* how many of them there were

realtimeVars ==
    <<platform, account, secret, refused, realtime, run, awaited, suppress,
      logins, syncs, faults>>

Helper == INSTANCE HelperSession
Discord == INSTANCE DiscordSession
LinkedIn == INSTANCE LinkedInSession
Watcher == INSTANCE WatcherSession

Helpers == {"slack", "signal", "whatsapp"}
Logins == 1..MaxLogins
Inputs == 0..MaxLogins

-----------------------------------------------------------------------------
(* What the sessions of the platforms have in common. *)

Fresh ==
    CASE platform = "discord" -> Discord!Fresh
      [] platform = "linkedin" -> LinkedIn!Fresh
      [] platform = "local" -> Watcher!Fresh
      [] OTHER -> Helper!Fresh

Start(s) ==
    CASE platform = "discord" -> Discord!Start(s)
      [] platform = "linkedin" -> LinkedIn!Start(s)
      [] platform = "local" -> Watcher!Start(s)
      [] OTHER -> Helper!Start(platform, s)

Stop(s) ==
    CASE platform = "discord" -> Discord!Stop(s)
      [] platform = "linkedin" -> LinkedIn!Stop(s)
      [] platform = "local" -> Watcher!Stop(s)
      [] OTHER -> Helper!Stop(platform, s)

Quiet(s) ==
    CASE platform = "discord" -> Discord!Quiet(s)
      [] platform = "linkedin" -> LinkedIn!Quiet(s)
      [] platform = "local" -> Watcher!Quiet(s)
      [] OTHER -> Helper!Quiet(s)

Online(s) ==
    CASE platform = "discord" -> Discord!Online(s)
      [] platform = "linkedin" -> LinkedIn!Online(s)
      [] platform = "local" -> Watcher!Online(s)
      [] OTHER -> Helper!Online(s)

Inert(s) ==
    CASE platform = "discord" -> Discord!Inert(s)
      [] platform = "linkedin" -> LinkedIn!Inert(s)
      [] platform = "local" -> Watcher!Inert(s)
      [] OTHER -> Helper!Inert(s)

-----------------------------------------------------------------------------
(* The supervisor w: the session it holds, all sessions that are there, and *)
(* the reconcile under way with what it found, and whether another one was  *)
(* asked for since.                                                         *)
Supervisor ==
    [held : Ids \cup {NoSession},
     sessions : [Ids -> Helper!Session(Inputs) \cup Discord!Session(Inputs)
                       \cup LinkedIn!Session(Inputs) \cup Watcher!Session(Inputs)],
     found : Inputs, again : BOOLEAN]

(* The shape of account, supervisor, sessions and run. *)
RealtimeTypeOK ==
    /\ platform \in Platforms
    /\ account \in Inputs /\ secret \in BOOLEAN /\ refused \subseteq Logins
    /\ realtime \in Supervisor
    /\ run \in {"none", "queued", "stopping", "task", "over"}
    /\ awaited \in Ids \cup {NoSession} /\ suppress \in BOOLEAN
    /\ logins \in 0..MaxLogins /\ syncs \in 0..MaxSyncs /\ faults \in 0..MaxFaults

(* A session that is not held and has nothing left to do is gone. *)
Put(w, i, s) ==
    [w EXCEPT !.sessions[i] = IF w.held # i /\ Inert(s) THEN Fresh ELSE s]

Leave(w) ==
    IF w.held = NoSession THEN w
    ELSE Put([w EXCEPT !.held = NoSession], w.held, Stop(w.sessions[w.held]))

Unused(w) == {i \in Ids : i # w.held /\ w.sessions[i] = Fresh}

Create(w, v) ==
    LET i == CHOOSE i \in Unused(w) : TRUE
    IN  [w EXCEPT !.held = i, !.sessions[i] = Start([Fresh EXCEPT !.input = v])]

(* A session with the desired input is left alone, or started anew. *)
Keep(w) ==
    IF platform \notin {"linkedin", "local"} /\ w.sessions[w.held].state \in {"stopped", "degraded"}
    THEN [w EXCEPT !.sessions[w.held] = Start(@)]
    ELSE w

(* reconcile: v is the desired input, 0 when no session is desired. *)
Reconcile(w, v) ==
    IF v = 0 THEN Leave(w)
    ELSE IF w.held = NoSession THEN Create(w, v)
    ELSE IF w.sessions[w.held].input = v THEN Keep(w)
    ELSE Create(Leave(w), v)

(* Signal's session is not to be started beside a sync. *)
MayRunBesideSync(r) == platform = "signal" => r = "none"

(* The helpers of Signal and WhatsApp keep the login in a store of theirs. *)
HelperKeepsLogin == platform \in {"signal", "whatsapp"}

(* collectDesiredSessions: which account may have a session, and what it is *)
(* to be started with: its login, or what is the same whatever the login.  *)
Candidate(acct, r) ==
    IF acct = 0 \/ ~MayRunBesideSync(r) THEN 0
    ELSE IF platform = "local" \/ HelperKeepsLogin THEN 1
    ELSE acct

Desired(v, stored) == IF stored THEN v ELSE 0

(* requestRealtimeReconcile, and its reconcile once it has been found out   *)
(* what is desired.  What is stored is looked at after the helper.         *)
Request(w, acct, stored, r) ==
    LET v == Candidate(acct, r)
    IN  IF w.found # 0 THEN [w EXCEPT !.again = TRUE]
        ELSE IF HelperKeepsLogin /\ v # 0 THEN [w EXCEPT !.found = v]
        ELSE Reconcile(w, Desired(v, stored))

Complete(w, v) ==
    LET done == [Reconcile(w, v) EXCEPT !.found = 0, !.again = FALSE]
    IN  IF w.again THEN Request(done, account, secret, run) ELSE done

(* Bound: a reconcile finds room for the sessions it may create. *)
Room == \E i, j \in Unused(realtime) : i # j

Fault == faults < MaxFaults /\ faults' = faults + 1

-----------------------------------------------------------------------------
(* The account. *)

(* Not every login leaves what a session needs: LinkedIn's headers may not *)
(* have been seen, the account of a helper not have been linked.           *)
LoginLeaves == IF platform = "local" THEN {TRUE} ELSE BOOLEAN

(* The user logs in, again perhaps, and the account is enabled.            *)
Login ==
    /\ logins < MaxLogins /\ Room
    /\ logins' = logins + 1
    /\ account' = logins'
    /\ secret' \in LoginLeaves
    /\ realtime' = Request(realtime, account', secret', run)
    /\ UNCHANGED <<platform, refused, run, awaited, suppress, syncs, faults>>

Remove ==
    /\ account # 0 /\ Room
    /\ Fault
    /\ account' = 0
    /\ realtime' = Request(realtime, 0, secret, run)
    /\ UNCHANGED <<platform, secret, refused, run, awaited, suppress, logins, syncs>>

(* What is stored is lost: nobody tells the supervisor. *)
LoseSecret ==
    /\ platform # "local" /\ secret /\ account # 0
    /\ Fault
    /\ secret' = FALSE
    /\ UNCHANGED <<platform, account, refused, realtime, run, awaited, suppress, logins, syncs>>

(* The provider refuses a login from now on, the one before it perhaps. *)
Refuse ==
    /\ platform # "local"
    /\ Fault
    /\ \E l \in 1..logins \ refused : refused' = refused \cup {l}
    /\ UNCHANGED <<platform, account, secret, realtime, run, awaited, suppress, logins, syncs>>

(* The helper answers, or it does not and no session is desired. *)
CompleteReconcile ==
    /\ realtime.found # 0 /\ Room
    /\ realtime' = Complete(realtime, Desired(realtime.found, secret))
    /\ UNCHANGED <<platform, account, secret, refused, run, awaited, suppress, logins, syncs, faults>>

(* Bound: the scheduler queues another sync after it. *)
InspectionFails ==
    /\ realtime.found # 0 /\ Room
    /\ Fault /\ syncs < MaxSyncs
    /\ realtime' = Complete(realtime, 0)
    /\ UNCHANGED <<platform, account, secret, refused, run, awaited, suppress, logins, syncs>>

-----------------------------------------------------------------------------
(* The sync runs of the account. *)

ScheduleSync ==
    /\ run = "none" /\ account # 0 /\ syncs < MaxSyncs
    /\ run' = "queued" /\ syncs' = syncs + 1
    /\ UNCHANGED <<platform, account, secret, refused, realtime, awaited, suppress, logins, faults>>

(* runSignalSyncExclusively stops the session it finds; the sync of        *)
(* WhatsApp asks for a session if there is none.                           *)
StartSync ==
    LET h == realtime.held
        stops == platform = "signal" /\ h # NoSession
    IN  /\ run = "queued" /\ Room
        /\ IF stops /\ Helper!HasChild(realtime.sessions[h])
           THEN run' = "stopping" /\ awaited' = h
           ELSE run' = "task" /\ awaited' = IF stops THEN h ELSE NoSession
        /\ suppress' = (suppress \/ stops)
        /\ realtime' =
              IF stops THEN [realtime EXCEPT !.sessions[h] = Stop(@)]
              ELSE IF platform = "whatsapp" /\ h = NoSession
                   THEN Request(realtime, account, secret, run')
                   ELSE realtime
        /\ UNCHANGED <<platform, account, secret, refused, logins, syncs, faults>>

(* The finally of runSignalSyncExclusively: the run still counts as active. *)
EndTask ==
    /\ run = "task" /\ Room
    /\ run' = "over"
    /\ realtime' = IF awaited = NoSession THEN realtime ELSE Request(realtime, account, secret, run')
    /\ awaited' = NoSession
    /\ UNCHANGED <<platform, account, secret, refused, suppress, logins, syncs, faults>>

(* The run is settled.  A sync of Discord, Slack or LinkedIn whose login    *)
(* was refused disables the account.                                       *)
EndSync ==
    LET invalid == account \in refused /\ platform \in {"discord", "slack", "linkedin"}
    IN  /\ run = "over" /\ Room
        /\ run' = "none"
        /\ account' = IF invalid THEN 0 ELSE account
        /\ realtime' = IF invalid \/ platform = "signal"
                       THEN Request(realtime, account', secret, "none") ELSE realtime
        /\ UNCHANGED <<platform, secret, refused, awaited, suppress, logins, syncs, faults>>

(* queueNativeTriggeredSync *)
QueueNative == run' = IF run = "none" /\ account # 0 THEN "queued" ELSE run

(* onConnected: a reconnected session has missed events, and a sync is     *)
(* queued to fetch them.  Signal's is not after a sync that stopped it, or  *)
(* when the last one is not long ago.                                      *)
Reconnected(s) ==
    IF ~s.ever THEN UNCHANGED <<run, suppress>>
    ELSE IF platform # "signal" THEN QueueNative /\ UNCHANGED suppress
    ELSE IF suppress THEN suppress' = FALSE /\ UNCHANGED run
    ELSE (QueueNative \/ UNCHANGED run) /\ UNCHANGED suppress

-----------------------------------------------------------------------------
(* The sessions. *)

Session(i) == realtime.sessions[i]
Becomes(i, s) == realtime' = Put(realtime, i, s)
Accepted(s) == (IF HelperKeepsLogin THEN s.login ELSE s.input) \notin refused

RestUnchanged == UNCHANGED <<platform, account, secret, refused, awaited, logins, syncs>>

SessionStep(i, s) ==
    /\ Becomes(i, s)
    /\ RestUnchanged /\ UNCHANGED <<run, suppress, faults>>

(* Helper processes.  One that keeps its login reads it when it starts. *)

LoginRead == IF HelperKeepsLogin THEN logins ELSE 0

HelperSpawned(i) ==
    /\ platform \in Helpers /\ Session(i).child = "starting"
    /\ Becomes(i, Helper!Spawned(platform, Session(i), LoginRead))
    /\ IF platform = "signal" THEN Reconnected(Session(i)) ELSE UNCHANGED <<run, suppress>>
    /\ RestUnchanged /\ UNCHANGED faults

HelperConnects(i) ==
    /\ platform \in Helpers /\ Session(i).child = "running" /\ Accepted(Session(i))
    /\ Becomes(i, Helper!SaysConnected(Session(i)))
    /\ Reconnected(Session(i))
    /\ RestUnchanged /\ UNCHANGED faults

HelperDisconnects(i) ==
    /\ platform \in {"slack", "whatsapp"} /\ Session(i).child = "online"
    /\ Fault
    /\ Becomes(i, Helper!SaysDisconnected(platform, Session(i)))
    /\ RestUnchanged /\ UNCHANGED <<run, suppress>>

(* WhatsApp has logged the helper out, or ended its connection for good:   *)
(* the process goes on, connected or not.                                  *)
HelperReportsError(i) ==
    /\ platform = "whatsapp" /\ Session(i).child \in {"running", "online"}
    /\ IF Accepted(Session(i)) THEN Fault ELSE UNCHANGED faults
    /\ Becomes(i, Helper!SaysError(Session(i)))
    /\ RestUnchanged /\ UNCHANGED <<run, suppress>>

(* A helper hangs before it is connected. *)
HelperHangs(i) ==
    /\ platform \in Helpers /\ Session(i).child = "running"
    /\ Fault
    /\ Becomes(i, [Session(i) EXCEPT !.child = "mute"])
    /\ RestUnchanged /\ UNCHANGED <<run, suppress>>

(* A helper exits because it was told to, it lost its connection, its login *)
(* is refused, or for no good reason; or it could not be spawned.  That of  *)
(* Slack is sure to exit when its login is refused, the others may.  A sync *)
(* that awaits the exit goes on.                                            *)
Leaving(s) ==
    s.stopping \/ s.child = "ending" \/ (platform = "slack" /\ ~Accepted(s))

HelperExits(i) ==
    /\ platform \in Helpers /\ Helper!HasChild(Session(i))
    /\ IF Leaving(Session(i)) \/ ~Accepted(Session(i))
       THEN UNCHANGED faults ELSE Fault
    /\ Becomes(i, Helper!Exited(platform, Session(i)))
    /\ run' = IF run = "stopping" /\ awaited = i THEN "task" ELSE run
    /\ RestUnchanged /\ UNCHANGED suppress

DisposedHelperExits(i) ==
    /\ platform \in Helpers /\ Session(i).dying
    /\ SessionStep(i, [Session(i) EXCEPT !.dying = FALSE])

ConnectTimeout(i) ==
    /\ platform \in Helpers /\ Session(i).watch
    /\ SessionStep(i, Helper!ConnectTimeout(platform, Session(i)))

ReconnectTimeout(i) ==
    /\ platform \in Helpers \cup {"discord"} /\ Session(i).retry
    /\ SessionStep(i, IF platform = "discord" THEN Discord!ReconnectTimeout(Session(i))
                      ELSE Helper!ReconnectTimeout(Session(i)))

(* The requests of Discord. *)

GotUser(i) ==
    /\ platform = "discord" /\ Session(i).boot = "user" /\ Accepted(Session(i))
    /\ SessionStep(i, Discord!GotUser(Session(i)))

GotChannels(i) ==
    /\ platform = "discord" /\ Session(i).boot = "channels"
    /\ Becomes(i, Discord!GotChannels(Session(i)))
    /\ Reconnected(Session(i))
    /\ RestUnchanged /\ UNCHANGED faults

Poll(i) ==
    /\ platform = "discord"
    /\ Session(i).timer /\ Session(i).user /\ ~Session(i).poll
    /\ SessionStep(i, Discord!Poll(Session(i)))

Polled(i) ==
    /\ platform = "discord" /\ Session(i).poll /\ Accepted(Session(i))
    /\ SessionStep(i, Discord!Polled(Session(i)))

Asking(s) == s.boot # "none" \/ s.poll

DiscordFails(i) ==
    /\ platform = "discord" /\ Asking(Session(i))
    /\ Fault
    /\ Becomes(i, Discord!Failed(Session(i), FALSE))
    /\ RestUnchanged /\ UNCHANGED <<run, suppress>>

(* onAuthInvalidated blocks the account, whatever its login is by now. *)
DiscordRefused(i) ==
    /\ platform = "discord" /\ Asking(Session(i)) /\ ~Accepted(Session(i)) /\ Room
    /\ account' = 0
    /\ realtime' = Request(Put(realtime, i, Discord!Failed(Session(i), TRUE)), 0, secret, run)
    /\ UNCHANGED <<platform, secret, refused, run, awaited, suppress, logins, syncs, faults>>

(* The stream of LinkedIn. *)

StreamOpens(i) ==
    /\ platform = "linkedin" /\ Session(i).loop = "opening"
    /\ ~Session(i).aborted /\ Accepted(Session(i))
    /\ Becomes(i, LinkedIn!Opened(Session(i)))
    /\ Reconnected(Session(i))
    /\ RestUnchanged /\ UNCHANGED faults

Ending(s) == s.aborted \/ ~Accepted(s)

StreamBreaks(i) ==
    /\ platform = "linkedin" /\ Session(i).loop \in {"opening", "open"}
    /\ IF Ending(Session(i)) THEN UNCHANGED faults ELSE Fault
    /\ Becomes(i, LinkedIn!Broke(Session(i), ~Accepted(Session(i))))
    /\ RestUnchanged /\ UNCHANGED <<run, suppress>>

StreamWaited(i) ==
    /\ platform = "linkedin" /\ Session(i).loop = "waiting"
    /\ SessionStep(i, LinkedIn!Waited(Session(i)))

(* Events.  What a session tells of is stored; the history of a            *)
(* conversation that is new is left to a sync, and so is a message that a  *)
(* busy database does not take.  Bound: they are counted with the syncs.   *)

LeftToSync ==
    /\ run = "none" /\ account # 0 /\ syncs < MaxSyncs
    /\ QueueNative /\ syncs' = syncs + 1
    /\ UNCHANGED <<platform, account, secret, refused, realtime, awaited, suppress, logins>>

HandleSlackEvent(i) ==
    platform = "slack" /\ Session(i).child = "online" /\ LeftToSync /\ UNCHANGED faults

HandleDiscordEvent(i) ==
    platform = "discord" /\ Session(i).poll /\ LeftToSync /\ UNCHANGED faults

IngestFails(i) ==
    platform # "local" /\ Online(Session(i)) /\ LeftToSync /\ Fault

(* The watchers of this machine. *)

WatcherSees(i) ==
    /\ platform = "local" /\ Watcher!HasChild(Session(i)) /\ syncs < MaxSyncs
    /\ SessionStep(i, Watcher!Changed(Session(i)))

WatcherTimeout(i) ==
    /\ platform = "local" /\ Session(i).timer
    /\ Becomes(i, Watcher!Elapsed(Session(i)))
    /\ QueueNative
    /\ syncs' = IF run' = run \/ syncs = MaxSyncs THEN syncs ELSE syncs + 1
    /\ UNCHANGED <<platform, account, secret, refused, awaited, suppress, logins, faults>>

WatcherExits(i) ==
    /\ platform = "local" /\ Watcher!HasChild(Session(i))
    /\ IF Session(i).watcher = "leaving" THEN UNCHANGED faults ELSE Fault
    /\ Becomes(i, Watcher!Exited(Session(i)))
    /\ RestUnchanged /\ UNCHANGED <<run, suppress>>

-----------------------------------------------------------------------------
RealtimeInit ==
    /\ platform \in Platforms
    /\ account = 0 /\ secret = FALSE /\ refused = {}
    /\ realtime = [held |-> NoSession, sessions |-> [i \in Ids |-> Fresh],
                   found |-> 0, again |-> FALSE]
    /\ run = "none" /\ awaited = NoSession /\ suppress = FALSE
    /\ logins = 0 /\ syncs = 0 /\ faults = 0

RealtimeNext ==
    \/ Login \/ Remove \/ LoseSecret \/ Refuse
    \/ CompleteReconcile \/ InspectionFails
    \/ ScheduleSync \/ StartSync \/ EndTask \/ EndSync
    \/ \E i \in Ids :
          \/ HelperSpawned(i) \/ HelperConnects(i) \/ HelperDisconnects(i)
          \/ HelperReportsError(i) \/ HelperHangs(i) \/ HelperExits(i)
          \/ DisposedHelperExits(i) \/ ConnectTimeout(i) \/ ReconnectTimeout(i)
          \/ GotUser(i) \/ GotChannels(i) \/ Poll(i) \/ Polled(i)
          \/ DiscordFails(i) \/ DiscordRefused(i)
          \/ StreamOpens(i) \/ StreamBreaks(i) \/ StreamWaited(i)
          \/ HandleSlackEvent(i) \/ HandleDiscordEvent(i) \/ IngestFails(i)
          \/ WatcherSees(i) \/ WatcherTimeout(i) \/ WatcherExits(i)

(* Processes that were told to stop do, timers fire, requests are answered, *)
(* a helper that is neither hung nor refused connects in time when it is    *)
(* tried often enough; the scheduler queues syncs, and runs go on.          *)
Fairness ==
    /\ WF_realtimeVars(CompleteReconcile)
    /\ WF_realtimeVars(ScheduleSync) /\ WF_realtimeVars(StartSync)
    /\ WF_realtimeVars(EndTask) /\ WF_realtimeVars(EndSync)
    /\ \A i \in Ids :
          /\ WF_realtimeVars(HelperSpawned(i)) /\ SF_realtimeVars(HelperConnects(i))
          /\ WF_realtimeVars(HelperExits(i) /\ Leaving(Session(i)))
          /\ WF_realtimeVars(DisposedHelperExits(i))
          /\ WF_realtimeVars(ConnectTimeout(i)) /\ WF_realtimeVars(ReconnectTimeout(i))
          /\ WF_realtimeVars(GotUser(i)) /\ WF_realtimeVars(GotChannels(i))
          /\ WF_realtimeVars(Polled(i)) /\ WF_realtimeVars(DiscordRefused(i))
          /\ WF_realtimeVars(StreamOpens(i)) /\ WF_realtimeVars(StreamWaited(i))
          /\ WF_realtimeVars(StreamBreaks(i) /\ Ending(Session(i)))
          /\ WF_realtimeVars(WatcherTimeout(i))

RealtimeSpec == RealtimeInit /\ [][RealtimeNext]_realtimeVars /\ Fairness

-----------------------------------------------------------------------------
(* A session the supervisor has let go does nothing on its own any more: it *)
(* starts no helper, request or stream, and the helper it may still listen  *)
(* to was told to stop.  (A session of Discord that is stopped during its   *)
(* bootstrap polls on: cut.)                                                *)
LeftSessionsAreQuiet ==
    \A i \in Ids : i # realtime.held => Quiet(Session(i))

(* The account is followed by a session that has what it is to have, its   *)
(* current login if that is part of it, and is connected with a login that *)
(* the provider accepts.                                                   *)
Following ==
    /\ realtime.held # NoSession
    /\ LET s == Session(realtime.held)
       IN  s.input = Candidate(account, "none") /\ Online(s) /\ Accepted(s)

(* The session says that it is connected, and its helper is not or not for *)
(* long: WhatsApp's was logged out while it was connected, or Signal's runs *)
(* on with a login that is refused by now.  No login of the account ends   *)
(* this, since the session is to be started with the same as before.       *)
Deaf ==
    /\ HelperKeepsLogin /\ realtime.held # NoSession
    /\ LET s == Session(realtime.held)
       IN  s.state = "connected" /\ (s.child = "mute" \/ ~Accepted(s))

(* When the account is left alone, and the provider does not refuse its    *)
(* login, syncs come to an end - none waits for a helper for ever, and none *)
(* brings about another without end - and the account is followed by one   *)
(* session, connected with a login that is accepted if what it needs is    *)
(* stored; a removed account has none.  The code fails this for a session  *)
(* that is Deaf.  (A watcher that exited by itself is not replaced.)       *)
SessionsSettle ==
    <>[](account \notin refused =>
            /\ run = "none"
            /\ IF account = 0 THEN realtime.held = NoSession
               ELSE secret => Following \/ Deaf)
=============================================================================
