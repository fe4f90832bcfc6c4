------------------------------ MODULE Accounts ------------------------------
(***************************************************************************)
(* Accounts and how they are connected: the integration row the user sees, *)
(* the auth sessions behind it, the login processes that are running, the  *)
(* secrets they leave, and everything that changes a row without asking    *)
(* the others: connect requests of the daemon and of the command line,     *)
(* disconnecting and removing, refreshes that probe a helper and write     *)
(* back later, imports of stored secrets, and the provider that revokes a  *)
(* secret.  A connect request gives up the thread at three places -- while *)
(* a stored secret is validated, while telemetry is sent before the login  *)
(* starts and after it has ended -- and anything may happen there.         *)
(*                                                                         *)
(* One behaviour is about one platform: "linkedin" keeps a secret in the   *)
(* keychain that can be imported, "signal" and "whatsapp" are linked by a  *)
(* QR code and keep their link on disk, and "gmail" learns the name of the *)
(* account only from the login.  Slack, which imports like the first and   *)
(* renames like the last, and Discord, which does neither, add no step.    *)
(***************************************************************************)
EXTENDS Naturals, Sequences

CONSTANTS
    Platforms,    \* the platforms a behaviour can be about
    MaxCalls,     \* bound: connect requests under way together
    MaxSessions,  \* bound: auth sessions
    MaxChanges,   \* bound: what the user and the provider do otherwise
    MaxStops,     \* bound: times the daemon stops
    None          \* no row, no call, no probe

Calls == 1..MaxCalls
Keys == {"default", "pending", "real"}
Linked == {"signal", "whatsapp"}
Open == {"requested", "in_progress"}

IntegrationState == [auth : Open \cup {"authenticated", "failed", "cancelled", "needs_auth"},
                     enabled : BOOLEAN, syncCapable : BOOLEAN, userRemoved : BOOLEAN,
                     keychain : BOOLEAN, authInvalidated : BOOLEAN]

ASSUME AccountsAssumption ==
    /\ Platforms \subseteq {"linkedin", "gmail"} \cup Linked
    /\ None \notin IntegrationState /\ None \notin BOOLEAN
    /\ MaxCalls \in Nat /\ MaxSessions \in Nat /\ MaxChanges \in Nat /\ MaxStops \in Nat

VARIABLES
    platform,   \* the platform of this behaviour
    db,         \* rows, sessions, stored secrets and queued runs
    accepted,   \* whether the provider accepts the secret stored under a key
    login,      \* how far the login of a session is
    tracked,    \* activeAuthSessions: logins this daemon started
    call,       \* where a connect request is
    running,    \* the sync that runs: None, or whether it is accepted
    probe,      \* a refresh between its look at the rows and its write
    changes, stops   \* counters of the bounds

accountsVars == <<platform, db, accepted, login, tracked, call, running, probe, changes, stops>>

Results == {"authenticated", "failed", "cancelled"}
AuthSession == [key : Keys, state : Open \cup Results, at : Nat]
Idle == [at |-> "idle", session |-> 0, valid |-> FALSE, local |-> FALSE]

(* The shape of rows, sessions, logins and requests. *)
AccountsTypeOK ==
    /\ platform \in Platforms
    /\ db.row \in [Keys -> {None} \cup IntegrationState]
    /\ db.session \in Seq(AuthSession) /\ Len(db.session) <= MaxSessions
    /\ db.stored \in [Keys -> Nat] /\ db.queued \in [Keys -> BOOLEAN]
    /\ accepted \in [Keys -> BOOLEAN]
    /\ login \in [1..MaxSessions -> {"none", "running", "orphan", "telling"} \cup Results]
    /\ tracked \subseteq DOMAIN db.session
    /\ \A c \in Calls : call[c].at \in {"idle", "validating"} <=> call[c].session = 0
    /\ probe = None \/ probe.linked \in {None} \cup BOOLEAN
    /\ \A k \in Keys : platform # "gmail" => (db.row[k] # None => k = "default")

-----------------------------------------------------------------------------
(* The database. *)

Sessions(d) == DOMAIN d.session
IsPending(k) == k = "pending"
RequestKeys == IF platform = "gmail" THEN {"default", "pending"} ELSE {"default"}

(* The newest session of an account, by the time it asked for access: an   *)
(* imported secret counts from when it was saved.                          *)
IsLatest(d, i) ==
    \A j \in Sessions(d) \ {i} :
        d.session[j].key = d.session[i].key =>
            \/ d.session[j].at < d.session[i].at
            \/ d.session[j].at = d.session[i].at /\ j < i

WithSession(d, k, state, at) ==
    [d EXCEPT !.session = Append(@, [key |-> k, state |-> state, at |-> at])]

UpdateAuthSession(d, i, k, state) ==
    [d EXCEPT !.session[i] = [@ EXCEPT !.key = k, !.state = state]]

UpsertIntegrationState(d, k, state) == [d EXCEPT !.row[k] = state]

(* A process is alive behind a session: its login, or the command line.    *)
ProcessExists(i) ==
    \/ login[i] = "orphan"
    \/ login[i] = "running" /\ (i \in tracked \/ platform \notin Linked)
    \/ \E c \in Calls : call[c].at = "logging in" /\ call[c].session = i

(* Mutant: sessions are never too old.                                     *)
ReconcileDeadOnly(d, expired) ==
    [d EXCEPT !.session = [i \in DOMAIN @ |->
        IF @[i].state = "in_progress" /\ ~ProcessExists(i)
        THEN [@[i] EXCEPT !.state = "cancelled"] ELSE @[i]]]

(* What a status query, a refresh and a connect request do first: an open  *)
(* session whose process is gone, or that is in expired, is cancelled; its *)
(* account follows only if no newer session has it.                        *)
ReconcileAbandoned(d, expired) ==
    LET gone == {i \in Sessions(d) : \/ d.session[i].state = "in_progress" /\ ~ProcessExists(i)
                                     \/ i \in expired}
        own(k) == \E i \in gone : d.session[i].key = k /\ IsLatest(d, i)
    IN  [d EXCEPT
            !.session = [i \in DOMAIN @ |->
                            IF i \in gone THEN [@[i] EXCEPT !.state = "cancelled"] ELSE @[i]],
            !.row = [k \in Keys |->
                        IF own(k) /\ d.row[k] # None
                        THEN [d.row[k] EXCEPT !.auth = "cancelled", !.syncCapable = FALSE,
                                              !.enabled = @ /\ ~IsPending(k),
                                              !.userRemoved = @ \/ IsPending(k)]
                        ELSE d.row[k]]]

(* Fifteen minutes: browser and OAuth logins give up long before that, and *)
(* a request waits for telemetry for seconds.                              *)
Expirable ==
    {i \in Sessions(db) : /\ db.session[i].state \in Open
                          /\ login[i] = "none" \/ platform \in Linked
                          /\ \A c \in Calls : call[c].session = i => call[c].at = "logging in"}

(* A new request: the row is made or revived, open sessions of the account *)
(* are cancelled, a session is added.                                      *)
RequestIntegrationAccess(d, k) ==
    LET e == d.row[k]
        fresh == [auth |-> "requested", enabled |-> TRUE, syncCapable |-> FALSE,
                  userRemoved |-> FALSE, keychain |-> FALSE, authInvalidated |-> FALSE]
        asked == IF e = None THEN fresh
                 ELSE [e EXCEPT !.auth = "requested", !.enabled = @ \/ e.userRemoved,
                                !.syncCapable = FALSE, !.userRemoved = FALSE]
        superseded == [d EXCEPT
            !.session = [i \in DOMAIN @ |->
                            IF @[i].key = k /\ @[i].state \in Open
                            THEN [@[i] EXCEPT !.state = "cancelled"] ELSE @[i]]]
    IN  WithSession(UpsertIntegrationState(superseded, k, asked), k,
                    "requested", 2 * (Len(d.session) + 1))

(* It does not ask whether the session was cancelled meanwhile.            *)
MarkAuthSessionInProgress(d, i) ==
    LET k == d.session[i].key
        begun == UpdateAuthSession(d, i, k, "in_progress")
    IN  IF d.row[k] = None THEN begun
        ELSE UpsertIntegrationState(begun, k, [d.row[k] EXCEPT !.auth = "in_progress"])

Ignored(d, i) ==
    LET s == d.session[i]
    IN  s.state = "cancelled" /\ (d.row[s.key] = None \/ d.row[s.key].userRemoved)

(* MUTANT: a renamed session keeps the name it was asked for under. *)
CompleteKeepingName(d, i, result, keychain) ==
    LET k == d.session[i].key IN
    IF d.row[k] = None \/ Ignored(d, i) THEN d
    ELSE IF platform = "gmail" /\ result = "authenticated"
    THEN [d EXCEPT !.session[i].state = result, !.row[k] = None,
                   !.row["real"] = [d.row[k] EXCEPT !.auth = result]]
    ELSE [d EXCEPT !.session[i].state = result, !.row[k].auth = result]

(* The end of a login.  A Gmail login moves the row to the account's name. *)
CompleteAuthSession(d, i, result, keychain) ==
    LET s == d.session[i]
        e == d.row[s.key]
        ok == result = "authenticated"
        to == IF platform = "gmail" /\ ok THEN "real" ELSE s.key
        t == IF d.row[to] = None THEN e ELSE d.row[to]
        hide == ~ok /\ IsPending(to)
        done == [auth |-> result,
                 enabled |-> ~hide /\ (IF t.userRemoved THEN e.enabled ELSE t.enabled),
                 syncCapable |-> ok \/ t.syncCapable,
                 userRemoved |-> hide \/ e.userRemoved,
                 keychain |-> ok /\ keychain,
                 authInvalidated |-> ~ok /\ e.authInvalidated]
        ended == UpdateAuthSession(d, i, s.key, result)
        moved == [UpdateAuthSession(d, i, to, result) EXCEPT !.row[s.key] = None]
    IN  IF Ignored(d, i) THEN d
        ELSE IF e = None THEN ended
        ELSE UpsertIntegrationState(moved, to, done)

(* Mutant: the import does not look whether the account was invalidated.   *)
ImportInvalidated(d, revive) ==
    LET e == d.row["default"] IN
    IF \/ platform # "linkedin" \/ d.stored["default"] = 0 \/ e = None
       \/ e.userRemoved \/ e.auth = "authenticated" \/ Len(d.session) >= MaxSessions
    THEN d
    ELSE LET o == WithSession(d, "default", "requested", d.stored["default"])
         IN  CompleteAuthSession(o, Len(o.session), "authenticated", TRUE)

(* LinkedIn: a secret found in the keychain is taken for a login, unless   *)
(* the account is connected already, was removed, or was invalidated.      *)
ImportStoredAuth(d, revive) ==
    LET e == d.row["default"]
        new == [auth |-> "requested", enabled |-> TRUE, syncCapable |-> TRUE,
                userRemoved |-> FALSE, keychain |-> TRUE, authInvalidated |-> FALSE]
        kept == [e EXCEPT !.enabled = @ \/ e.userRemoved, !.keychain = TRUE, !.userRemoved = FALSE]
        found == UpsertIntegrationState(d, "default", IF e = None THEN new ELSE kept)
        opened == WithSession(found, "default", "requested", d.stored["default"])
    IN  IF \/ platform # "linkedin" \/ d.stored["default"] = 0
           \/ Len(d.session) >= MaxSessions
           \/ e # None /\ \/ e.authInvalidated
                          \/ e.userRemoved /\ ~revive
                          \/ e.auth = "authenticated" /\ e.keychain
        THEN d
        ELSE CompleteAuthSession(opened, Len(opened.session), "authenticated", TRUE)

(* What follows a login that succeeded, once telemetry is away.            *)
RepairSyncCapable(d) ==
    [d EXCEPT !.row = [k \in Keys |->
        IF @[k] = None THEN None ELSE [@[k] EXCEPT !.syncCapable = d.row[k].auth = "authenticated"]]]

(* A sync that the provider refuses invalidates the account.               *)
InvalidateIntegrationAuth(d, k) ==
    IF d.row[k] = None THEN d
    ELSE [d EXCEPT !.row[k].auth = "needs_auth", !.row[k].syncCapable = FALSE,
                   !.row[k].authInvalidated = TRUE]

-----------------------------------------------------------------------------
(* A connect request. *)

AccountsInit ==
    /\ platform \in Platforms
    /\ db = [row |-> [k \in Keys |-> None], session |-> <<>>,
             stored |-> [k \in Keys |-> 0], queued |-> [k \in Keys |-> FALSE]]
    /\ accepted = [k \in Keys |-> FALSE]
    /\ login = [i \in 1..MaxSessions |-> "none"]
    /\ tracked = {} /\ call = [c \in Calls |-> Idle] /\ probe = None
    /\ running = [k \in Keys |-> None]
    /\ changes = 0 /\ stops = 0

bounds == <<changes, stops>>
Room == Len(db.session) < MaxSessions

(* findActiveManagedAuthSession: the logins this daemon started for the    *)
(* account, oldest first; those that are over are forgotten on the way.    *)
MayBeActive(k) == {i \in tracked : db.session[i].key = k}
Active(d, k) == {i \in MayBeActive(k) : login[i] = "running" /\ d.session[i].state \in Open}
Forgotten(d, k) == {i \in MayBeActive(k) : \A j \in Active(d, k) : i < j}
Persisted(d, k) ==
    IsPending(k) /\ \E i \in Sessions(d) : d.session[i].key = k /\ d.session[i].state \in Open

Announce(c, d, k, local) ==
    /\ db' = RequestIntegrationAccess(d, k)
    /\ call' = [call EXCEPT ![c] = [Idle EXCEPT !.at = "announcing", !.local = local,
                                                !.session = Len(d.session) + 1]]

(* Asked of the daemon, or local: `cued integrations connect` in a process *)
(* of its own, which neither looks for an active login nor is found by one.*)
Connect(c, k, local) ==
    /\ call[c] = Idle /\ \A b \in 1..(c - 1) : call[b] # Idle   \* the first free one
    /\ Room /\ k \in RequestKeys
    /\ \E expired \in SUBSET Expirable :
        LET d == ReconcileAbandoned(db, expired)
            i == ImportStoredAuth(d, TRUE)
            e == i.row["default"]
            found == ~local /\ (Active(d, k) # {} \/ Persisted(d, k))
            reusable == platform = "linkedin" /\ e # None /\ e.auth = "authenticated" /\ e.keychain
        IN  /\ tracked' = IF local THEN tracked ELSE tracked \ Forgotten(d, k)
            /\ \/ found /\ db' = d /\ UNCHANGED call
               \/ /\ ~found /\ reusable
                  /\ db' = i
                  /\ call' = [call EXCEPT ![c] = [Idle EXCEPT !.at = "validating", !.local = local,
                                                              !.valid = accepted[k]]]
               \/ ~found /\ ~reusable /\ Announce(c, i, k, local)
    /\ UNCHANGED <<platform, accepted, login, running, probe, bounds>>

(* The answer about the stored secret: taken over as a login of its own,   *)
(* or refused and a real login follows, or the request fails.              *)
Validated(c) ==
    /\ call[c].at = "validating" /\ Room
    /\ \/ /\ call[c].valid
          /\ LET o == WithSession(db, "default", "requested", 2 * (Len(db.session) + 1))
                 i == Len(o.session)
             IN  /\ db' = CompleteAuthSession(MarkAuthSessionInProgress(o, i), i, "authenticated", TRUE)
                 /\ login' = [login EXCEPT ![i] = "telling"]
          /\ call' = [call EXCEPT ![c] = Idle]
       \/ ~call[c].valid /\ Announce(c, db, "default", call[c].local) /\ UNCHANGED login
       \/ call' = [call EXCEPT ![c] = Idle] /\ UNCHANGED <<db, login>>
    /\ UNCHANGED <<platform, accepted, tracked, running, probe, bounds>>

StartAuthSession(c) ==
    /\ call[c].at = "announcing"
    /\ LET i == call[c].session IN
        \/ /\ db' = MarkAuthSessionInProgress(db, i)
           /\ login' = [login EXCEPT ![i] = "running"]
           /\ tracked' = IF call[c].local THEN tracked ELSE tracked \cup {i}
           /\ call' = [call EXCEPT ![c] = IF @.local THEN [@ EXCEPT !.at = "logging in"] ELSE Idle]
        \/ call' = [call EXCEPT ![c] = Idle] /\ UNCHANGED <<db, login, tracked>>
    /\ UNCHANGED <<platform, accepted, running, probe, bounds>>

(* The login leaves a secret that the provider accepts, or a linked device.*)
LoginStores(i) ==
    /\ i \in Sessions(db) /\ login[i] \in {"running", "orphan"}
    /\ LET k == IF platform = "gmail" THEN "real" ELSE db.session[i].key IN
        /\ db' = [db EXCEPT !.stored[k] = 2 * Len(db.session) + 1]
        /\ accepted' = [accepted EXCEPT ![k] = TRUE]
    /\ login' = [login EXCEPT ![i] = IF @ = "running" THEN "authenticated" ELSE "none"]
    /\ UNCHANGED <<platform, tracked, call, running, probe, bounds>>

LoginEnds(i) ==
    /\ \/ login[i] = "running" /\ \E r \in {"failed", "cancelled"} : login' = [login EXCEPT ![i] = r]
       \/ login[i] = "orphan" /\ platform \notin Linked /\ login' = [login EXCEPT ![i] = "none"]
    /\ UNCHANGED <<platform, db, accepted, tracked, call, running, probe, bounds>>

LocalCall(i) == {c \in Calls : call[c].at = "logging in" /\ call[c].session = i}
EndCall(i) == [c \in Calls |-> IF c \in LocalCall(i) THEN Idle ELSE call[c]]

DaemonStops ==
    /\ login' = [i \in DOMAIN login |->
                    IF LocalCall(i) # {} \/ login[i] = "none" THEN login[i]
                    ELSE IF login[i] \in {"running", "orphan"} THEN "orphan" ELSE "none"]
    /\ tracked' = {} /\ probe' = None
    /\ call' = [c \in Calls |-> IF call[c].local THEN call[c] ELSE Idle]
    /\ running' = [k \in Keys |-> None]

(* The result of a login reaches the process that asked for it.  A Gmail   *)
(* login that fails is not reported for a session that was cancelled; one  *)
(* whose account row is gone throws twice, the second time with nobody to  *)
(* catch it, which ends the daemon.                                        *)
CompleteAndSchedule(i) ==
    /\ i \in Sessions(db) /\ login[i] \in Results
    /\ LET s == db.session[i]
           d == CompleteAuthSession(db, i, login[i], platform \notin Linked)
           dropped == /\ platform = "gmail" /\ login[i] # "authenticated"
                      /\ s.state = "cancelled" /\ LocalCall(i) = {}
           throws == ~dropped /\ db.row[s.key] = None /\ ~Ignored(db, i)
           tell == ~dropped /\ ~Ignored(db, i) /\ login[i] = "authenticated"
       IN  /\ db' = IF dropped THEN db
                    ELSE IF throws THEN UpdateAuthSession(d, i, s.key, "failed") ELSE d
           /\ IF throws /\ LocalCall(i) = {} THEN DaemonStops
              ELSE /\ login' = [login EXCEPT ![i] = IF tell /\ ~throws THEN "telling" ELSE "none"]
                   /\ tracked' = IF tell /\ ~throws THEN tracked ELSE tracked \ {i}
                   /\ call' = IF tell /\ ~throws THEN call ELSE EndCall(i)
                   /\ UNCHANGED <<running, probe>>
    /\ UNCHANGED <<platform, accepted, bounds>>

(* After telemetry the row is read again, and a sync is queued.            *)
QueueAuthenticatedSync(i) ==
    /\ i \in Sessions(db) /\ login[i] = "telling"
    /\ LET k == db.session[i].key
           d == RepairSyncCapable(db)
           e == d.row[k]
       IN  db' = [d EXCEPT !.queued[k] = @ \/ (e # None /\ e.auth = "authenticated")]
    /\ login' = [login EXCEPT ![i] = "none"]
    /\ tracked' = tracked \ {i} /\ call' = EndCall(i)
    /\ UNCHANGED <<platform, accepted, running, probe, bounds>>

-----------------------------------------------------------------------------
(* Everything else that changes an account. *)

ListStatus ==
    /\ \E expired \in SUBSET Expirable : db' = ReconcileAbandoned(db, expired)
    /\ UNCHANGED <<platform, accepted, login, tracked, call, running, probe, bounds>>

Change == changes < MaxChanges /\ changes' = changes + 1 /\ UNCHANGED <<platform, stops>>

(* The account alone: a login that is under way is not told.               *)
Disconnect(k) ==
    /\ Change /\ db.row[k] # None
    /\ db' = [db EXCEPT
        !.stored[k] = IF db.row[k].keychain \/ platform = "whatsapp" THEN 0 ELSE @,
        !.row[k] = [@ EXCEPT !.auth = "cancelled", !.enabled = FALSE, !.keychain = FALSE]]
    /\ UNCHANGED <<accepted, login, tracked, call, running, probe>>

(* The newest session is cancelled with it, and the daemon stops what it   *)
(* started; for a QR login that is a placeholder, and the link goes on.    *)
Remove(k, byDaemon) ==
    /\ Change /\ db.row[k] # None
    /\ LET killed == {i \in tracked : byDaemon /\ db.session[i].key = k} IN
        /\ db' = [db EXCEPT
            !.session = [i \in DOMAIN @ |->
                IF @[i].key = k /\ @[i].state \in Open /\ IsLatest(db, i)
                THEN [@[i] EXCEPT !.state = "cancelled"] ELSE @[i]],
            !.stored[k] = IF db.row[k].keychain \/ platform \in Linked THEN 0 ELSE @,
            !.queued[k] = FALSE,
            !.row[k] = [@ EXCEPT !.auth = "cancelled", !.enabled = FALSE, !.keychain = FALSE,
                                 !.syncCapable = FALSE, !.userRemoved = TRUE]]
        /\ login' = [i \in DOMAIN login |->
                        IF i \in killed /\ login[i] = "running" /\ platform \notin Linked
                        THEN "failed" ELSE login[i]]
        /\ tracked' = tracked \ killed
    /\ UNCHANGED <<accepted, call, running, probe>>

SetIntegrationEnabled(k, on) ==
    /\ Change /\ db.row[k] # None /\ db.row[k].enabled # on
    /\ db' = [db EXCEPT !.row[k].enabled = on]
    /\ UNCHANGED <<accepted, login, tracked, call, running, probe>>

ProviderRevokes(k) ==
    /\ Change /\ accepted[k]
    /\ accepted' = [accepted EXCEPT ![k] = FALSE]
    /\ UNCHANGED <<db, login, tracked, call, running, probe>>

QueueAutoSync(k) ==
    /\ platform \notin Linked
    /\ db.row[k] # None /\ db.row[k].enabled /\ db.row[k].syncCapable
    /\ ~db.queued[k] /\ running[k] = None
    /\ db' = [db EXCEPT !.queued[k] = TRUE]
    /\ UNCHANGED <<platform, accepted, login, tracked, call, running, probe, bounds>>

(* A run uses the secret it finds when it starts.  What the provider says  *)
(* about a linked device changes no row, so such runs are left out.        *)
SyncStarts(k) ==
    /\ platform \notin Linked
    /\ db.queued[k] /\ running[k] = None
    /\ running' = [running EXCEPT ![k] = accepted[k] /\ db.stored[k] # 0]
    /\ db' = [db EXCEPT !.queued[k] = FALSE]
    /\ UNCHANGED <<platform, accepted, login, tracked, call, probe, bounds>>

SyncEnds(k) ==
    /\ running[k] # None
    /\ db' = IF running[k] THEN db ELSE InvalidateIntegrationAuth(db, k)
    /\ running' = [running EXCEPT ![k] = None]
    /\ UNCHANGED <<platform, accepted, login, tracked, call, probe, bounds>>

(* A refresh.  For a linked platform it keeps the row it saw, asks the     *)
(* helper whether a device is linked, and writes the row anew.             *)
Refresh ==
    /\ probe = None
    /\ \E expired \in SUBSET Expirable :
        LET d == ImportStoredAuth(ReconcileAbandoned(db, expired), FALSE)
            e == d.row["default"]
        IN  /\ db' = d
            /\ probe' = IF platform \in Linked /\ (e = None \/ ~e.userRemoved)
                        THEN [seen |-> IF e = None THEN None ELSE e.auth, linked |-> None]
                        ELSE None
    /\ UNCHANGED <<platform, accepted, login, tracked, call, running, bounds>>

HelperAnswers ==
    /\ probe # None /\ probe.linked = None
    /\ probe' = [probe EXCEPT !.linked = db.stored["default"] # 0]
    /\ UNCHANGED <<platform, db, accepted, login, tracked, call, running, bounds>>

ManagedAuth(seen, linked) ==
    IF seen \in Open /\ (platform = "signal" \/ ~linked) THEN seen
    ELSE IF linked THEN "authenticated"
    ELSE IF seen = "cancelled" THEN "cancelled"
    ELSE "needs_auth"

UpsertManagedIntegrationState ==
    /\ probe # None /\ probe.linked # None
    /\ LET auth == ManagedAuth(probe.seen, probe.linked)
           e == db.row["default"]
       IN  db' = UpsertIntegrationState(db, "default",
                    [auth |-> auth, enabled |-> e = None \/ e.enabled,
                     syncCapable |-> auth = "authenticated", userRemoved |-> FALSE,
                     keychain |-> FALSE, authInvalidated |-> FALSE])
    /\ probe' = None
    /\ UNCHANGED <<platform, accepted, login, tracked, call, running, bounds>>

Crash ==
    /\ stops < MaxStops /\ stops' = stops + 1
    /\ DaemonStops
    /\ UNCHANGED <<platform, db, accepted, changes>>

AccountsNext ==
    \/ \E c \in Calls : \/ \E k \in Keys, local \in BOOLEAN : Connect(c, k, local)
                        \/ Validated(c) \/ StartAuthSession(c)
    \/ \E i \in 1..MaxSessions : \/ LoginStores(i) \/ LoginEnds(i)
                                 \/ CompleteAndSchedule(i) \/ QueueAuthenticatedSync(i)
    \/ \E k \in Keys : \/ Disconnect(k) \/ ProviderRevokes(k)
                      \/ \E b \in BOOLEAN : Remove(k, b) \/ SetIntegrationEnabled(k, b)
                      \/ QueueAutoSync(k) \/ SyncStarts(k) \/ SyncEnds(k)
    \/ ListStatus \/ Refresh \/ HelperAnswers \/ UpsertManagedIntegrationState
    \/ Crash

(* Promises settle, logins give up, and somebody asks for the status again *)
(* once sessions are old: the interface polls it while a login is shown.   *)
(* A login takes each of its steps a bounded number of times, so fairness  *)
(* of all of them together is fairness of each.                            *)
StatusOfOld ==
    /\ db' = ReconcileAbandoned(db, Expirable)
    /\ UNCHANGED <<platform, accepted, login, tracked, call, running, probe, bounds>>

LoginNext ==
    \/ \E c \in Calls : StartAuthSession(c)
    \/ \E i \in 1..MaxSessions : LoginStores(i) \/ LoginEnds(i) \/ CompleteAndSchedule(i)

Fairness == WF_accountsVars(StatusOfOld) /\ WF_accountsVars(LoginNext)

AccountsSpec == AccountsInit /\ [][AccountsNext]_accountsVars /\ Fairness

-----------------------------------------------------------------------------
(* Properties. *)

(* An account whose secret the provider refused stays disconnected through *)
(* refreshes and imports of the secret that is still in the keychain: it   *)
(* is authenticated again only by a login of that account that succeeds,   *)
(* or by a secret that the provider has just been asked about.             *)
InvalidatedNeedsLogin ==
    [][\A k \in Keys :
        /\ db.row[k] # None /\ db.row[k].authInvalidated
        /\ db'.row[k] # None /\ db'.row[k].auth = "authenticated"
        => \/ \E i \in Sessions(db) : /\ login[i] = "authenticated" /\ login'[i] = "telling"
                                      /\ db'.session[i].key = k
           \/ \E c \in Calls : call[c].at = "validating" /\ call[c].valid /\ call'[c] = Idle]_accountsVars

(* A login that succeeded belongs to an account that exists, whatever name *)
(* it was asked for under and whichever request finishes first.            *)
LoginsHaveAccounts ==
    \A i \in Sessions(db) :
        db.session[i].state = "authenticated" => db.row[db.session[i].key] # None

(* No session stays open for ever: not when its login window is closed,    *)
(* when it was superseded while it waited, nor when the daemon that should *)
(* have been told stops.  Sessions are bounded, so each ends if, again and *)
(* again, none is open.                                                    *)
LoginsEnd == []<>(\A i \in Sessions(db) : db.session[i].state \notin Open)
=============================================================================
