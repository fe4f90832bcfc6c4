----------------------------- MODULE Attachments -----------------------------
(***************************************************************************)
(* The cache of downloaded attachments (src/src/runtime/attachments.ts),   *)
(* its rows in the database, and the projector that changes the rows it    *)
(* hangs on.                                                               *)
(*                                                                         *)
(* A client's request fetches one attachment: copies or downloads its      *)
(* payload into a temporary file, moves that to an object named by its     *)
(* hash, marks its entry, takes its text into the search index and evicts  *)
(* other objects while the cache is above its limit.  Requests run beside  *)
(* each other in the daemon, and meet wherever one of them awaits.  What a *)
(* request does to files and to entries between two awaits are single      *)
(* writes, no transaction: before each of them the daemon may die, the     *)
(* write may fail, and a worker may commit that a message was edited, that *)
(* a person's two WhatsApp keys are joined, or a rebuild.                  *)
(*                                                                         *)
(* Times of access are left out: evictions take entries in any order.  So  *)
(* are variants (one per attachment) and temporary files, which belong to  *)
(* one request.                                                            *)
(***************************************************************************)
EXTENDS Integers, FiniteSetsExt

CONSTANTS
    Attachments,
    Fetches,           \* bound: requests at work at the same time
    Objects,           \* what payloads hash to
    NoObject,
    Bytes,             \* the size of each object
    WithText,          \* the attachments that text can be extracted from
    Payloads,          \* the objects each attachment may turn out to be
    Described,         \* what its message says about each attachment
    Hosts,             \* where payloads are downloaded from
    NoHost,
    PlatformHosts,     \* the hosts that are sent the credentials of each platform
    Encrypted,         \* the hosts asked with https
    Private,           \* the hosts that are, or resolve to, addresses that are not public
    MaxRedirects,      \* MAX_ATTACHMENT_REDIRECTS
    CacheLimit,        \* DEFAULT_ATTACHMENT_CACHE_LIMIT_BYTES
    MaxChanges         \* bound: changes of rows, restarts, and errors nobody could note

Platforms == {"slack", "linkedin", "whatsapp", "other"}

ASSUME AttachmentsAssumption ==
    /\ IsFiniteSet(Attachments)
    /\ NoObject \notin Objects
    /\ NoHost \notin Hosts
    /\ Payloads \in [Attachments -> SUBSET Objects]
    /\ Described \in [Attachments ->
           [platform : Platforms, localPath : BOOLEAN, providerRef : BOOLEAN,
            url : Hosts \cup {NoHost}]]
    /\ WithText \subseteq Attachments
    /\ Bytes \in [Objects -> Nat]
    /\ PlatformHosts \in [Platforms -> SUBSET Hosts]
    /\ Encrypted \subseteq Hosts
    /\ Private \subseteq Hosts
    /\ {MaxRedirects, CacheLimit, MaxChanges} \subseteq Nat

VARIABLES
    rows,              \* message_attachments: the attachments there are
    entry,             \* attachment_cache
    extracted,         \* attachment_content: whose text was looked for
    searchable,        \* attachment_content_fts: whose text can be searched
    objects,           \* the files in the objects directory
    fetch,             \* the requests at work
    changes,
    listed,            \* what an eviction read of the ready entries and has not given up
    victim,            \* whose file it has just looked at, if any
    abandoned,         \* auxiliary: objects left without an entry, but not by an eviction
    owed,              \* auxiliary: entries whose request ended before the limit was kept
    cut                \* auxiliary: objects an eviction removed, or may, whose entries stay

cacheVars == <<rows, entry, extracted, searchable, objects>>
evictionVars == <<listed, victim, cut>>
attachmentsVars == <<cacheVars, fetch, changes, evictionVars, abandoned, owed>>

-----------------------------------------------------------------------------
NoEntry == [status |-> "none", object |-> NoObject]
NoFetch == [pc |-> "idle"]
NoneListed == [a \in Attachments |-> NoObject]

Ready(e) == {a \in Attachments : e[a].status = "ready"}
Named(e) == {e[a].object : a \in Ready(e)}

(* Objects that entries e do not name, among those dropped before and      *)
(* those held until now.                                                   *)
Dropped(e, held) == (abandoned \cup held) \ Named(e)

(* getMessageAttachment finds the row; and, by a foreign key, nothing is   *)
(* written to an entry or a content without one.                           *)
Listed(a) == a \in rows
Stands(a) == a \in rows

(* inferAttachmentProjection, for messages that do not name the kind.      *)
AccessKind(a) ==
    IF Described[a].localPath THEN "local_path"
    ELSE IF Described[a].providerRef THEN "provider_fetch"
    ELSE IF Described[a].url # NoHost THEN "remote_url"
    ELSE "none"

-----------------------------------------------------------------------------
(* Downloads.  The credentials of a platform are sent to its hosts only.   *)

Credentialed == {"slack", "linkedin"}

(* resolveRemoteAttachmentFetchPolicy *)
Policy(a) ==
    IF Described[a].platform \in Credentialed
       /\ Described[a].url \in PlatformHosts[Described[a].platform]
      THEN Described[a].platform ELSE "external"

(* MUTANT: only addresses outside the platform are looked at.              *)
MayAskFirst(policy, host) == policy = "external" => host \notin Private

(* assertFetchPolicy and resolveSafeExternalAttachmentAddress *)
MayAsk(policy, host) ==
    IF policy = "external" THEN host \notin Private
    ELSE host \in PlatformHosts[policy] \cap Encrypted

(* A request is for attachment, and holds the object it has put in place.  *)
(* While it downloads it also knows whom it has asked, after how many      *)
(* redirects and with which credentials.                                   *)
For(a) == [attachment |-> a, object |-> NoObject]
NotDownloading == [host |-> NoHost, hops |-> 0, sends |-> "nothing"]
At(pc, what, whom) == [pc |-> pc, what |-> what, whom |-> whom]
Failing(what) == At("failing", For(what.attachment), NotDownloading)

(* downloadOnceWithPolicy, up to the await of the answer.                  *)
Asking(what, host, hops, sends) ==
    IF MayAsk(Policy(what.attachment), host)
      THEN At("asking", what, [host |-> host, hops |-> hops, sends |-> sends])
      ELSE Failing(what)

(* fetchSlackRemote and fetchLinkedInRemote: what the first request sends. *)
(* Slack needs a token; LinkedIn sends the cookies there are.              *)
FirstSends(a) ==
    CASE Policy(a) = "slack" -> {"token", "token and cookie"}
      [] Policy(a) = "linkedin" -> {"nothing", "cookie"}
      [] OTHER -> {"nothing"}

(* acquireAttachmentPayload, up to its first await.                        *)
Acquiring(what) ==
    LET a == what.attachment IN
    CASE AccessKind(a) \in {"local_path", "provider_fetch"} ->
             {At("acquiring", what, NotDownloading)}
      [] AccessKind(a) = "remote_url" ->
             {Asking(what, Described[a].url, 0, sends) : sends \in FirstSends(a)}
             \cup {Failing(what) : p \in {Policy(a)} \cap {"slack"}}
      [] OTHER -> {Failing(what)}

-----------------------------------------------------------------------------
AttachmentsInit ==
    /\ rows = Attachments
    /\ entry = [a \in Attachments |-> NoEntry]
    /\ extracted = {}
    /\ searchable = {}
    /\ objects = {}
    /\ fetch = [f \in Fetches |-> NoFetch]
    /\ changes = 0
    /\ listed = NoneListed
    /\ victim = {}
    /\ abandoned = {}
    /\ owed = {}
    /\ cut = {}

Change == changes < MaxChanges /\ changes' = changes + 1

Returns(f) == fetch' = [fetch EXCEPT ![f] = NoFetch]

(* A request goes on until it awaits: the others wait while it stores, and *)
(* while it evicts.                                                        *)
Synchronous == {"storing", "limiting", "evicting"}
Working == {"rereading", "asking", "acquiring", "failing", "extracting"} \cup Synchronous
MayRun(f) == \A g \in Fetches \ {f} : fetch[g].pc \notin Synchronous

(* fetchAttachment finds the object in the cache.  Its text, when nobody   *)
(* has looked for it, is read at once and stored a turn later.             *)
Hit(f, a) ==
    /\ fetch[f].pc = "idle"
    /\ Listed(a)
    /\ entry[a].status = "ready" /\ entry[a].object \in objects
    /\ a \notin extracted
    /\ fetch' = [fetch EXCEPT ![f] = At("rereading", For(a), NotDownloading)]
    /\ UNCHANGED <<cacheVars, changes, evictionVars, abandoned, owed>>

(* extractTextContent: what there is to search afterwards. *)
ExtractText(a) == {a} \cap WithText

(* upsertAttachmentContent.  The index entry is replaced in the same       *)
(* transaction; an object without text has none.                           *)
StoreText(a) ==
    /\ extracted' = extracted \cup {a}
    /\ searchable' = (searchable \ {a}) \cup ExtractText(a)

(* Nothing catches what fails here: the request is answered by the error.  *)
EndHit(f) ==
    LET a == fetch[f].what.attachment IN
    /\ fetch[f].pc = "rereading"
    /\ \/ Stands(a) /\ StoreText(a)
       \/ UNCHANGED <<extracted, searchable>>
    /\ Returns(f)
    /\ UNCHANGED <<rows, entry, objects, changes, evictionVars, abandoned, owed>>

(* fetchAttachment does not find it: the entry says so, what else it held  *)
(* stays, and the payload is asked for.                                    *)
Miss(f, a) ==
    /\ fetch[f].pc = "idle"
    /\ Listed(a)
    /\ ~(entry[a].status = "ready" /\ entry[a].object \in objects)
    /\ entry' = [entry EXCEPT ![a].status = "fetching"]
    /\ \E r \in Acquiring(For(a)) : fetch' = [fetch EXCEPT ![f] = r]
    /\ abandoned' = Dropped(entry', Named(entry))
    /\ UNCHANGED <<rows, extracted, searchable, objects, changes, evictionVars, owed>>

(* fetchWithPolicy follows a redirect.                                     *)
Redirect(f, host) ==
    LET r == fetch[f] IN
    /\ r.pc = "asking"
    /\ fetch' = [fetch EXCEPT ![f] =
           IF r.whom.hops < MaxRedirects
             THEN Asking(r.what, host, r.whom.hops + 1, r.whom.sends)
             ELSE Failing(r.what)]
    /\ UNCHANGED <<cacheVars, changes, evictionVars, abandoned, owed>>

(* The answer is an error.  Slack is asked again, with the cookie alone.   *)
Refuse(f) ==
    LET r == fetch[f] IN
    /\ r.pc = "asking"
    /\ fetch' = [fetch EXCEPT ![f] =
           IF r.whom.sends = "token and cookie"
             THEN Asking(r.what, Described[r.what.attachment].url, 0, "cookie")
             ELSE Failing(r.what)]
    /\ UNCHANGED <<cacheVars, changes, evictionVars, abandoned, owed>>

(* The payload has arrived in a temporary file, no larger than the request *)
(* allows, and been hashed: it is moved to its place, unless the object is *)
(* there.  Entries that had lost the file have it again.                   *)
Place(f, object) ==
    LET a == fetch[f].what.attachment IN
    /\ fetch[f].pc \in {"asking", "acquiring"}
    /\ object \in Payloads[a]
    /\ objects' = objects \cup {object}
    /\ cut' = cut \ {object}
    /\ fetch' = [fetch EXCEPT ![f] =
           At("storing", [attachment |-> a, object |-> object], NotDownloading)]
    /\ owed' = owed \cup {x \in Ready(entry) : entry[x].object = object /\ object \notin objects}
    /\ UNCHANGED <<rows, entry, extracted, searchable, changes, listed, victim, abandoned>>

(* Objects in their place whose entry is not marked yet.                   *)
PlacedBy(f) == IF fetch[f].pc = "storing" THEN {fetch[f].what.object} ELSE {}
Placed == UNION {PlacedBy(f) : f \in Fetches}

(* The entry is marked ready.  The text is read at once and stored a turn  *)
(* later; a request that wants none goes on with the limit.                *)
MarkReady(f, text) ==
    LET a == fetch[f].what.attachment
        ready == [status |-> "ready", object |-> fetch[f].what.object]
    IN
    /\ fetch[f].pc = "storing"
    /\ Stands(a)
    /\ entry' = [entry EXCEPT ![a] = ready]
    /\ abandoned' = Dropped(entry', Named(entry))
    /\ fetch' = [fetch EXCEPT ![f] =
           At(IF text THEN "extracting" ELSE "limiting", For(a), NotDownloading)]
    /\ UNCHANGED <<rows, extracted, searchable, objects, changes, evictionVars, owed>>

KeepText(f) ==
    LET a == fetch[f].what.attachment IN
    /\ fetch[f].pc = "extracting"
    /\ Stands(a)
    /\ StoreText(a)
    /\ fetch' = [fetch EXCEPT ![f] = At("limiting", For(a), NotDownloading)]
    /\ UNCHANGED <<rows, entry, objects, changes, evictionVars, abandoned, owed>>

(* ensureWithinLimit reads the ready entries, and gives them up one by one *)
(* while they are above the limit, sparing the entry just fetched.         *)
ListReady(f) ==
    /\ fetch[f].pc = "limiting"
    /\ listed' = [a \in Attachments |->
           IF entry[a].status = "ready" THEN entry[a].object ELSE NoObject]
    /\ fetch' = [fetch EXCEPT ![f] =
           At("evicting", For(fetch[f].what.attachment), NotDownloading)]
    /\ UNCHANGED <<cacheVars, changes, victim, cut, abandoned, owed>>

Remaining == {a \in Attachments : listed[a] # NoObject}
Total == MapThenSumSet(LAMBDA a : Bytes[listed[a]], Remaining)
OverLimit(spared) == Total > CacheLimit /\ Remaining \ {spared} # {}

(* Another entry that is listed has the same file. *)
Shared(a) == \E b \in Remaining \ {a} : listed[b] = listed[a]

(* MUTANT: a file goes with any entry that refers to it.                   *)
UnlinkedAtOnce(a) == {listed[a]}

(* MUTANT: references are counted that are given up at the same time.      *)
NeverUnlinked(a) == {listed[a]} \ Named(entry)

(* A file goes with the last entry that is listed with it.                 *)
Unlinked(a) == IF Shared(a) THEN {} ELSE {listed[a]}

(* What has been removed for an entry that is not marked yet.              *)
Gone == UNION {Unlinked(a) : a \in victim}

Unlink(f, a) ==
    LET spared == fetch[f].what.attachment IN
    /\ fetch[f].pc = "evicting"
    /\ victim = {}
    /\ OverLimit(spared)
    /\ a \in Remaining \ {spared}
    /\ objects' = objects \ Unlinked(a)
    /\ victim' = {a}
    /\ UNCHANGED <<rows, entry, extracted, searchable, fetch, changes, listed, cut, abandoned, owed>>

(* The entry is marked evicted, whatever it says by now.  A file that was  *)
(* spared for another entry stays, even if that has been dropped meanwhile.*)
MarkEvicted(f, a) ==
    LET spared == IF Shared(a) THEN {listed[a]} ELSE {} IN
    /\ fetch[f].pc = "evicting"
    /\ a \in victim
    /\ Stands(a)
    /\ entry' = [entry EXCEPT ![a] = [status |-> "evicted", object |-> NoObject]]
    /\ listed' = [listed EXCEPT ![a] = NoObject]
    /\ victim' = {}
    /\ abandoned' = Dropped(entry', (Named(entry) \ {listed[a]}) \cup spared)
    /\ UNCHANGED <<rows, extracted, searchable, objects, fetch, changes, owed, cut>>

(* However an eviction ends. *)
EvictionOver ==
    /\ listed' = NoneListed
    /\ victim' = {}
    /\ cut' = (cut \cup Gone) \ objects

(* The limit is kept. *)
End(f) ==
    /\ fetch[f].pc = "evicting"
    /\ victim = {}
    /\ ~OverLimit(fetch[f].what.attachment)
    /\ owed' = {}
    /\ EvictionOver
    /\ Returns(f)
    /\ UNCHANGED <<cacheVars, changes, abandoned>>

(* Entries whose request has not come to its end, or did not.              *)
Unlimited == {"extracting", "limiting", "evicting"}
Late == owed \cup {fetch[f].what.attachment : f \in {g \in Fetches : fetch[g].pc \in Unlimited}}

(* fetchAttachment's catch: whatever fails, also after the object was      *)
(* stored, marks the entry, if this write does not fail as well.           *)
Fail(f) ==
    LET a == fetch[f].what.attachment IN
    /\ fetch[f].pc \in Working \ {"rereading"}
    /\ \/ /\ Stands(a)
          /\ entry' = [entry EXCEPT ![a] = [status |-> "failed", object |-> NoObject]]
          /\ UNCHANGED <<owed, changes>>
       \/ /\ Stands(a)
          /\ Change
          /\ owed' = owed \cup {x \in {a} : fetch[f].pc \in Unlimited}
          /\ UNCHANGED entry
       \/ /\ ~Stands(a)
          /\ UNCHANGED <<entry, owed, changes>>
    /\ abandoned' = Dropped(entry', Named(entry) \cup PlacedBy(f))
    /\ IF fetch[f].pc = "evicting" THEN EvictionOver ELSE UNCHANGED evictionVars
    /\ Returns(f)
    /\ UNCHANGED <<rows, extracted, searchable, objects>>

-----------------------------------------------------------------------------
(* What happens to the rows.                                               *)

(* projectMessageAttachments: a message edited no longer has the           *)
(* attachment.  Entry and content go with the row, the file stays.         *)
RemoveRow(a) ==
    /\ Change
    /\ a \in rows
    /\ rows' = rows \ {a}
    /\ entry' = [entry EXCEPT ![a] = NoEntry]
    /\ extracted' = extracted \ {a}
    /\ searchable' = searchable \ {a}
    /\ abandoned' = Dropped(entry', Named(entry))
    /\ UNCHANGED <<objects, fetch, evictionVars, owed>>

AddRow(a) ==
    /\ Change
    /\ a \notin rows
    /\ rows' = rows \cup {a}
    /\ UNCHANGED <<entry, extracted, searchable, objects, fetch, evictionVars, abandoned, owed>>

(* clearProjectedState and the replay, in one transaction, which may give  *)
(* joined rows other ids.  The search index of contents is not cleared,    *)
(* nor are the files removed.                                              *)
Replay ==
    /\ Change
    /\ rows' \in SUBSET Attachments
    /\ entry' = [a \in Attachments |-> NoEntry]
    /\ extracted' = {}
    /\ abandoned' = Dropped(entry', Named(entry))
    /\ UNCHANGED <<searchable, objects, fetch, evictionVars, owed>>

Evicting == \E f \in Fetches : fetch[f].pc = "evicting"

(* migrateAttachment: two WhatsApp keys of a person are joined, and so are *)
(* the two rows of a message's attachment.  What the second lacks it gets. *)
(* An eviction under way knows nothing of the entry that has moved.        *)
Join(a, b) ==
    LET moves == entry[b].status = "none" IN
    /\ Change
    /\ {a, b} \subseteq rows /\ a # b
    /\ Described[a].platform = "whatsapp" /\ Described[b].platform = "whatsapp"
    /\ rows' = rows \ {a}
    /\ entry' = [entry EXCEPT ![a] = NoEntry, ![b] = IF moves THEN entry[a] ELSE @]
    /\ extracted' = IF a \in extracted THEN (extracted \ {a}) \cup {b} ELSE extracted
    /\ searchable' =
           (searchable \ {a, b})
           \cup {x \in {b} : IF b \in extracted THEN b \in searchable
                             ELSE a \in extracted /\ a \in searchable}
    /\ abandoned' = Dropped(entry', Named(entry))
    /\ owed' = IF moves /\ a \in Late THEN owed \cup {b} ELSE owed
    /\ cut' = IF moves /\ Evicting /\ a \in Ready(entry) THEN cut \cup {entry[a].object} ELSE cut
    /\ UNCHANGED <<objects, fetch, listed, victim>>

(* The daemon dies, between any two writes, and is started again.          *)
RestartFetches ==
    /\ Change
    /\ fetch' = [f \in Fetches |-> NoFetch]
    /\ owed' = Late
    /\ abandoned' = Dropped(entry, Placed)
    /\ EvictionOver
    /\ UNCHANGED cacheVars

Projects ==
    \/ \E a \in Attachments : RemoveRow(a) \/ AddRow(a)
    \/ \E a, b \in Attachments : Join(a, b)
    \/ Replay

Fetching(f) ==
    /\ MayRun(f)
    /\ \/ \E a \in Attachments : Hit(f, a) \/ Miss(f, a)
       \/ EndHit(f)
       \/ \E host \in Hosts : Redirect(f, host)
       \/ Refuse(f)
       \/ \E object \in Objects : Place(f, object)
       \/ \E text \in BOOLEAN : MarkReady(f, text)
       \/ KeepText(f)
       \/ ListReady(f)
       \/ \E a \in Attachments : Unlink(f, a) \/ MarkEvicted(f, a)
       \/ End(f)
       \/ Fail(f)

AttachmentsNext == Projects \/ RestartFetches \/ \E f \in Fetches : Fetching(f)

AttachmentsSpec == AttachmentsInit /\ [][AttachmentsNext]_attachmentsVars

-----------------------------------------------------------------------------
EntryStatuses == {"none", "fetching", "ready", "failed", "evicted"}

Wanted == [attachment : Attachments, object : Objects \cup {NoObject}]
Asked == [host : Hosts \cup {NoHost}, hops : 0..MaxRedirects,
          sends : {"nothing", "token", "token and cookie", "cookie"}]
FetchRecords == {NoFetch} \cup [pc : Working, what : Wanted, whom : Asked]

AttachmentsTypeOK ==
    /\ rows \subseteq Attachments
    /\ entry \in [Attachments -> [status : EntryStatuses, object : Objects \cup {NoObject}]]
    /\ \A a \in Attachments : entry[a].status = "ready" => entry[a].object # NoObject
    /\ extracted \subseteq rows
    /\ searchable \subseteq Attachments
    /\ objects \subseteq Objects
    /\ fetch \in [Fetches -> FetchRecords]
    /\ changes \in 0..MaxChanges
    /\ listed \in [Attachments -> Objects \cup {NoObject}]
    /\ victim \subseteq Attachments
    /\ abandoned \subseteq Objects
    /\ owed \subseteq Attachments
    /\ cut \subseteq Objects

(* Whatever is evicted, joined or fetched twice meanwhile, an entry that   *)
(* says ready has its file, also when other entries had the same content   *)
(* and were evicted.  Files and entries are written one by one, so there   *)
(* are three exceptions: a file just removed whose entry is marked next;   *)
(* one whose entry was not marked, because the write failed or the daemon  *)
(* died; and one whose entry moved to a joined row while an eviction had   *)
(* it listed.  All of them end when the object is stored again.            *)
ReadyHasFile == Named(entry) \ objects \subseteq cut \cup Gone

(* Only an attachment with a row has an entry. *)
EntriesHaveRows == \A a \in Attachments : entry[a].status # "none" => a \in rows

(* A file that no ready entry refers to, which nothing ever removes, was   *)
(* left by an entry that was dropped without an eviction: by a replay, an  *)
(* edit or a join; by a second request for the same attachment; or by what *)
(* failed, or a death of the daemon, after the file was put in its place.  *)
(* Nobody else leaves one: not an eviction, nor a request that succeeds.   *)
FilesAreCounted == objects \subseteq Named(entry) \cup abandoned \cup Placed

(* ensureWithinLimit keeps the directory within the limit.  Apart are the  *)
(* files that nobody counts (above) and those of entries whose requests    *)
(* have not kept the limit yet, or failed or died before they did, until   *)
(* another request does: the others fit, or there is only one.             *)
Kept ==
    {o \in objects :
        IF o \in Named(entry) THEN \E a \in Ready(entry) \ Late : entry[a].object = o
                              ELSE o \notin abandoned \cup Placed}

DiskIsBounded ==
    \/ MapThenSumSet(LAMBDA o : Bytes[o], Kept) <= CacheLimit
    \/ Cardinality(Kept) <= 1

(* A request that carries a platform's credentials goes to that platform's *)
(* hosts, over https, however often it was redirected or asked again.      *)
CredentialsStay ==
    \A f \in Fetches :
        fetch[f].pc = "asking" /\ fetch[f].whom.sends # "nothing" =>
            fetch[f].whom.host \in
                PlatformHosts[Described[fetch[f].what.attachment].platform] \cap Encrypted
=============================================================================
