------------------------------ MODULE Identity ------------------------------
(* Who a message is from.  The projector turns raw events into contacts,   *)
(* conversations and the rows that refer to them; what it looks up on the  *)
(* way it keeps in a cache per process: the daemon's lives as long as the  *)
(* daemon, a worker's as long as its page.  WhatsApp shows one person      *)
(* under two keys, a LID and a phone number, until an alias event says so; *)
(* a user merges contacts by hand.                                         *)
(*                                                                         *)
(* One person is seen under the source keys "lid" and "pn" (WhatsApp),     *)
(* "im" (iMessage) and "card" (the address book); the last three have the  *)
(* deterministic handle "phone".  An id is a hash; here it is what is      *)
(* hashed: contacts have keys and the handle as ids, and conversations,    *)
(* messages and timeline events the key they were first seen under.  Every *)
(* conversation has at most one message and one timeline event (a call is  *)
(* one), whose keys begin with the conversation's.                         *)
EXTENDS Naturals, Sequences, FiniteSetsExt, SequencesExt

CONSTANTS
    None,
    Events,       \* the raw events that can arrive, some of Event
    PageSize,     \* CUED_PROJECTION_BATCH_SIZE
    MaxEvents,    \* bound: events that arrive
    MaxMerges,    \* bound: merges asked for
    MaxRebuilds   \* bound: rebuilds asked for

Keys == {"lid", "pn", "im", "card"}
Phone == "phone"
Ids == Keys \cup {Phone}
Endless == "endless"    \* what a circle of merges comes to
Chats == {"lid", "pn", "im", "group"}
OnWhatsApp(chat) == chat \in {"lid", "pn", "group"}
RowKeys == {"message", "timeline"} \X Chats
Optional(S) == S \cup {None}

(* A message that is deleted on WhatsApp comes as a "revocation", one of    *)
(* iMessage once more, as a message that is deleted: a "deletion".         *)
Event ==
    [kind : {"contact"}, key : Keys, phone : BOOLEAN]
    \cup [kind : {"conversation"}, chat : Chats, members : SUBSET Keys]
    \cup [kind : {"message", "timeline", "reaction"}, chat : Chats, key : Keys]
    \cup [kind : {"deletion"}, chat : {"im"}, key : Keys]
    \cup [kind : {"revocation"}, chat : {chat \in Chats : OnWhatsApp(chat)}]
    \cup [kind : {"alias"}]

(* "at" orders the updates of a row (updated_at). *)
RowAbout(contacts) ==
    [id : Chats, chat : Chats, contact : contacts, source : Optional(Keys),
     deleted : BOOLEAN, at : Nat]
Row == RowAbout(Optional(Ids))
Alias == [former : Optional(Ids), canonical : Optional(Ids)]

ASSUME IdentityAssumption ==
    /\ None \notin Ids \cup Chats \cup {Endless} /\ None \notin Alias
    /\ None \notin RowAbout(Optional(Ids \cup {Endless}))
    /\ Events \subseteq Event
    /\ PageSize \in Nat \ {0}
    /\ MaxEvents \in Nat /\ MaxMerges \in Nat /\ MaxRebuilds \in Nat

VARIABLES
    log,        \* raw_events
    mark,       \* projection_watermark
    tables,     \* the canonical tables
    merges,     \* contact_merge_decisions, oldest first
    daemon,     \* the daemon's cache, or None before its first projection
    worker,     \* the projection worker between its reads and its commit, or None
    applied,    \* events whose effects are in the tables
    spoilt,     \* what those who wrote to the tables had missed of each other
    rebuilds    \* how many rebuilds there were, those of merges included

identityVars == <<log, mark, tables, merges, daemon, worker, applied, spoilt, rebuilds>>

-----------------------------------------------------------------------------
(* Tables and caches. *)

Tables ==
    [contacts : SUBSET Ids,
     sources : [Keys -> Optional(Ids)],              \* contact_sources
     phones : Seq([id : Ids, contact : Ids]),        \* contact_handles, oldest first
     alias : Optional(Alias),
     chats : [Chats -> Optional(Chats)],             \* conversations: id by key
     members : SUBSET [chat : Chats, contact : Ids, source : Keys],
     rows : [RowKeys -> Optional(Row)],              \* messages, timeline_events
     reactions : SUBSET [id : Chats \X Keys, key : Chats \X Keys, message : Chats,
                         contact : Ids, source : Keys, at : Nat]]

Empty ==
    [contacts |-> {}, sources |-> [k \in Keys |-> None], phones |-> <<>>, alias |-> None,
     chats |-> [k \in Chats |-> None], members |-> {},
     rows |-> [k \in RowKeys |-> None], reactions |-> {}]

Cache ==
    [merged : [Ids -> Optional(Ids)], sources : [Keys -> Optional(Ids)],
     phone : Optional(Ids), chats : [Chats -> Optional(Chats)]]

(* resolveCanonicalContactId: a chain of merges is followed to its end; one  *)
(* without an end is an error.                                               *)
Canonical(merged, id) ==
    LET Into(i) == IF merged[i] = None THEN i ELSE merged[i]
        follow[n \in Nat] == IF n = 0 THEN id ELSE Into(follow[n - 1])
        end == follow[Cardinality(Ids)]
    IN IF id = None THEN None
       ELSE IF merged[id] = None THEN id
       ELSE IF merged[end] = None THEN end ELSE Endless

Decided(decisions) ==
    [i \in Ids |->
        LET about == {n \in DOMAIN decisions : decisions[n].secondary = i}
        IN IF about = {} THEN None ELSE decisions[Max(about)].canonical]

(* resetProjectionCache: a rebuild starts with the decisions and no more. *)
Reset(decisions) ==
    [merged |-> Decided(decisions), sources |-> [k \in Keys |-> None], phone |-> None,
     chats |-> [k \in Chats |-> None]]

(* An alias that took a contact over counts as a decision. *)
MergedIn(t, decided) ==
    IF t.alias # None /\ t.alias.former \notin {None, t.alias.canonical}
    THEN [decided EXCEPT ![t.alias.former] = t.alias.canonical]
    ELSE decided

(* hydrateProjectionCache.  A contact that was only referred to has no row  *)
(* in contact_sources and so is not found; of two contacts with one handle  *)
(* the last one read is.                                                    *)
Hydrated(t, decisions) ==
    LET merged == MergedIn(t, Decided(decisions))
    IN [merged |-> merged,
        sources |-> [k \in Keys |-> Canonical(merged, t.sources[k])],
        phone |-> IF t.phones = <<>> THEN None ELSE Canonical(merged, Last(t.phones).contact),
        chats |-> t.chats]

Hydrates(t, decisions) ==
    LET cache == Hydrated(t, decisions)
    IN Endless \notin {cache.phone} \cup {cache.sources[k] : k \in Keys}

-----------------------------------------------------------------------------
(* One event, on tables and cache: s = [t, c, at].                         *)

(* resolveOrEnsureContact: the contact of a key, if the cache has one. *)
Known(s, key) ==
    IF s.c.sources[key] # None THEN Canonical(s.c.merged, s.c.sources[key])
    ELSE IF key = "im" THEN Canonical(s.c.merged, s.c.phone) ELSE None

(* MUTANT: a new contact under its own key. *)
StubOf(s, key) == IF Known(s, key) # None THEN Known(s, key) ELSE key

ContactOf(s, key) ==
    IF Known(s, key) # None THEN Known(s, key) ELSE Canonical(s.c.merged, key)

(* ensureContactStub: otherwise a contact without a name is made. *)
EnsureContact(s, key) ==
    [s EXCEPT !.c.sources[key] = ContactOf(s, key),
              !.t.contacts = IF Known(s, key) # None THEN @ ELSE @ \cup {ContactOf(s, key)}]

ChatOf(s, chat) == IF s.c.chats[chat] = None THEN chat ELSE s.c.chats[chat]

(* ensureConversationStub: an insert that meets the key or the id of another *)
(* row does nothing.                                                         *)
EnsureChat(s, chat) ==
    LET id == ChatOf(s, chat)
    IN [s EXCEPT !.c.chats[chat] = id,
                 !.t.chats[chat] =
                    IF @ = None /\ \A k \in Chats : s.t.chats[k] # id THEN id ELSE @]

(* findProjectedContactIdByKnownHandleAliases: a contact that messages and  *)
(* members of iMessage refer to by the number.                              *)
SeenByNumber(t) ==
    LET rows == {t.rows[k] : k \in {"message"} \X Chats} \ {None}
        seen == {x.contact : x \in {y \in rows \cup t.members : y.source = "im"}} \ {None}
    IN IF seen = {} THEN None ELSE CHOOSE i \in seen : TRUE

AddPhone(phones, contact, key) ==
    IF \E n \in DOMAIN phones :
          \/ phones[n].id = contact
          \/ key \in {"lid", "pn"} /\ phones[n].contact = contact
    THEN phones
    ELSE Append(phones, [id |-> contact, contact |-> contact])

(* MUTANT: the handle before the key. *)
ObserveContactByHandle(s, e) ==
    LET byNumber == SeenByNumber(s.t)
        found == IF e.phone /\ s.c.phone # None THEN s.c.phone
                 ELSE IF s.c.sources[e.key] # None THEN s.c.sources[e.key]
                 ELSE IF ~e.phone THEN e.key
                 ELSE IF byNumber # None THEN byNumber ELSE Phone
        contact == Canonical(s.c.merged, found)
    IN [s EXCEPT !.c.sources[e.key] = contact,
                 !.c.phone = IF e.phone THEN contact ELSE @,
                 !.t.contacts = @ \cup {contact},
                 !.t.sources[e.key] = contact,
                 !.t.phones = IF e.phone THEN AddPhone(@, contact, e.key) ELSE @]

(* projectContactObservation: a contact is looked for by its key, then by   *)
(* its handle, then by the number.                                          *)
ObserveContact(s, e) ==
    LET byNumber == SeenByNumber(s.t)
        found == IF s.c.sources[e.key] # None THEN s.c.sources[e.key]
                 ELSE IF ~e.phone THEN e.key
                 ELSE IF s.c.phone # None THEN s.c.phone
                 ELSE IF byNumber # None THEN byNumber ELSE Phone
        contact == Canonical(s.c.merged, found)
    IN [s EXCEPT !.c.sources[e.key] = contact,
                 !.c.phone = IF e.phone THEN contact ELSE @,
                 !.t.contacts = @ \cup {contact},
                 !.t.sources[e.key] = contact,
                 !.t.phones = IF e.phone THEN AddPhone(@, contact, e.key) ELSE @]

(* Members are resolved one by one, none of them by what another changes. *)
AddMembers(s, chat, keys) ==
    [s EXCEPT
        !.c.sources = [k \in Keys |-> IF k \in keys THEN ContactOf(s, k) ELSE @[k]],
        !.t.contacts = @ \cup {ContactOf(s, k) : k \in {x \in keys : Known(s, x) = None}},
        !.t.members = @ \cup {[chat |-> ChatOf(s, chat), contact |-> ContactOf(s, k),
                               source |-> k] : k \in keys}]

ObserveConversation(s, e) == AddMembers(EnsureChat(s, e.chat), e.chat, e.members)

(* ensureMessageStub: a message on WhatsApp keeps the id that it was given  *)
(* under another key.                                                       *)
EnsureMessage(s, chat) ==
    [EnsureChat(s, chat) EXCEPT !.t.rows[<<"message", chat>>] =
        IF @ # None THEN @
        ELSE [id |-> chat, chat |-> ChatOf(s, chat), contact |-> None, source |-> None,
              deleted |-> FALSE, at |-> s.at]]

Unreacted(reactions, message) == {r \in reactions : r.message # message}

(* What was revoked on WhatsApp stays so; a message of iMessage is deleted  *)
(* if the event says so, whatever was said before.                         *)
ProjectMessage(s, e) ==
    LET key == <<"message", e.chat>>
        stub == EnsureMessage(s, e.chat)
        deleted == e.kind = "deletion"
    IN IF OnWhatsApp(e.chat) /\ stub.t.rows[key].deleted THEN stub
       ELSE [EnsureContact(stub, e.key) EXCEPT
                !.t.reactions = IF deleted THEN Unreacted(@, stub.t.rows[key].id) ELSE @,
                !.t.rows[key] =
                   [@ EXCEPT !.chat = ChatOf(stub, e.chat), !.contact = ContactOf(stub, e.key),
                             !.source = e.key, !.deleted = deleted, !.at = s.at]]

ProjectRevocation(s, e) ==
    LET key == <<"message", e.chat>>
        stub == EnsureMessage(s, e.chat)
    IN [stub EXCEPT
            !.t.rows[key] = [@ EXCEPT !.deleted = TRUE, !.at = s.at],
            !.t.reactions = Unreacted(@, stub.t.rows[key].id)]

(* A reaction on WhatsApp is looked for by its key, any by its id. *)
ProjectReaction(s, e) ==
    LET stub == EnsureMessage(s, e.chat)
        message == stub.t.rows[<<"message", e.chat>>].id
        byKey == {r \in stub.t.reactions : OnWhatsApp(e.chat) /\ r.key = <<e.chat, e.key>>}
        old == IF byKey # {} THEN byKey
               ELSE {r \in stub.t.reactions : r.id = <<message, e.key>>}
        same == IF old # {} THEN CHOOSE r \in old : TRUE
                ELSE [id |-> <<message, e.key>>, key |-> <<e.chat, e.key>>,
                      message |-> message, contact |-> e.key, source |-> e.key, at |-> s.at]
    IN [EnsureContact(stub, e.key) EXCEPT !.t.reactions = (@ \ old) \cup
            {[same EXCEPT !.contact = ContactOf(stub, e.key), !.source = e.key, !.at = s.at]}]

(* projectTimelineEvent, projectCallEvent: an event stays where it was. *)
ProjectTimeline(s, e) ==
    LET chat == EnsureChat(s, e.chat)
        key == <<"timeline", e.chat>>
        same == IF s.t.rows[key] # None THEN s.t.rows[key]
                ELSE [id |-> e.chat, chat |-> ChatOf(s, e.chat), contact |-> None,
                      source |-> None, deleted |-> FALSE, at |-> s.at]
    IN [EnsureContact(chat, e.key) EXCEPT !.t.rows[key] =
            [same EXCEPT !.contact = ContactOf(chat, e.key), !.source = e.key, !.at = s.at]]

-----------------------------------------------------------------------------
(* The alias event, projectWhatsAppIdentityAlias, in its order: contacts,   *)
(* conversation, rows.                                                      *)
FindContact(s, key) ==
    IF s.c.sources[key] # None THEN s.c.sources[key]
    ELSE IF key \in s.t.contacts THEN key ELSE None

(* What refers to the old contact, in an update of one table. *)
Moved(S, old, new) == {IF x.contact = old THEN [x EXCEPT !.contact = new] ELSE x : x \in S}

(* A contact that other accounts share keeps what is not of this key. *)
Apart(S, old, new) ==
    {IF x.contact = old /\ x.source = "lid" THEN [x EXCEPT !.contact = new] ELSE x : x \in S}

Renamed(S) == {IF x.source = "lid" THEN [x EXCEPT !.source = "pn"] ELSE x : x \in S}

(* MUTANT: a revocation only if it is newer. *)
MergedAsNewer(from, into) == [IF from.at > into.at THEN from ELSE into EXCEPT !.id = into.id]

(* mergeRow: the row that stays takes the newer one's data. *)
Merged(from, into) ==
    [IF from.at > into.at THEN from ELSE into
        EXCEPT !.id = into.id, !.deleted = from.deleted \/ into.deleted]

OverRows(rows, Op(_)) ==
    [k \in DOMAIN rows |-> IF rows[k] = None THEN None ELSE CHOOSE r \in Op({rows[k]}) : TRUE]

(* The contact that has both keys from now on, in the cache and in the      *)
(* tables; one that other accounts share keeps what is not of the old key.  *)
MoveInCache(c, old, new, shared) ==
    [c EXCEPT !.sources["lid"] = new, !.sources["pn"] = new,
              !.merged = IF old \in {None, new} \/ shared THEN @ ELSE [@ EXCEPT ![old] = new]]

MoveInTables(t, old, new, shared) ==
    LET move == old \notin {None, new}
        To(S) == IF ~move THEN S ELSE IF shared THEN Apart(S, old, new) ELSE Moved(S, old, new)
    IN [t EXCEPT
            !.alias = [former |-> IF shared THEN None ELSE old, canonical |-> new],
            !.contacts = (IF shared THEN @ \cup {new} ELSE @) \
                         (IF move /\ ~shared THEN {old} ELSE {}),
            !.sources = [k \in Keys |->
                IF k = "pn" /\ @[k] = None THEN new
                ELSE IF move /\ @[k] = old /\ (shared => k = "lid") THEN new ELSE @[k]],
            !.phones = IF ~move \/ shared THEN @
                       ELSE [n \in DOMAIN @ |->
                               IF @[n].contact = old THEN [@[n] EXCEPT !.contact = new] ELSE @[n]],
            !.members = IF move
                        THEN {IF x.contact = old /\ (shared => x.source = "lid")
                              THEN [x EXCEPT !.contact = new,
                                             !.source = IF @ = "lid" THEN "pn" ELSE @]
                              ELSE x : x \in @}
                        ELSE {IF x.contact = old /\ x.source = "lid"
                              THEN [x EXCEPT !.source = "pn"] ELSE x : x \in @},
            !.rows = OverRows(@, To),
            !.reactions = To(@)]

MoveContact(s) ==
    LET old == FindContact(s, "lid")
        shared == old # None /\ \E k \in {"im", "card"} : s.t.sources[k] = old
        new == IF FindContact(s, "pn") # None THEN FindContact(s, "pn")
               ELSE IF shared THEN "pn" ELSE old
    IN IF new = None THEN [s EXCEPT !.t.alias = [former |-> None, canonical |-> None]]
       ELSE [s EXCEPT !.c = MoveInCache(@, old, new, shared),
                      !.t = MoveInTables(@, old, new, shared)]

(* MUTANT: without the cache. *)
MoveChatOnly(s) ==
    LET old == s.t.chats["lid"]
        chat == IF s.t.chats["pn"] # None THEN s.t.chats["pn"] ELSE old
        To(S) == {IF x.chat = old THEN [x EXCEPT !.chat = chat] ELSE x : x \in S}
    IN IF old = None THEN s
       ELSE [s EXCEPT
            !.t.chats["lid"] = None, !.t.chats["pn"] = chat,
            !.t.members = IF old = chat THEN @
                          ELSE To({x \in @ : x.chat # old}
                                  \cup Renamed({x \in @ : x.chat = old})),
            !.t.rows = OverRows(@, To)]

(* The conversation is given the new key, or is emptied into the one that   *)
(* has it.                                                                  *)
MoveChat(s) ==
    LET old == s.t.chats["lid"]
        chat == IF s.t.chats["pn"] # None THEN s.t.chats["pn"] ELSE old
        To(S) == {IF x.chat = old THEN [x EXCEPT !.chat = chat] ELSE x : x \in S}
    IN IF old = None THEN s
       ELSE [s EXCEPT
            !.c.chats["lid"] = chat, !.c.chats["pn"] = chat,
            !.t.chats["lid"] = None, !.t.chats["pn"] = chat,
            !.t.members = IF old = chat THEN @
                          ELSE To({x \in @ : x.chat # old}
                                  \cup Renamed({x \in @ : x.chat = old})),
            !.t.rows = OverRows(@, To)]

(* A row under the old key takes the new one, or is merged into the row     *)
(* that has it; a message takes its reactions along.                        *)
MoveRow(s, kind) ==
    LET from == s.t.rows[<<kind, "lid">>]
        into == s.t.rows[<<kind, "pn">>]
        stays == IF into = None THEN from
                 ELSE IF kind = "message" THEN Merged([from EXCEPT !.chat = into.chat], into)
                 ELSE Merged(from, into)
    IN IF from = None THEN s
       ELSE [s EXCEPT
            !.t.rows[<<kind, "lid">>] = None,
            !.t.rows[<<kind, "pn">>] = stays,
            !.t.reactions = IF kind # "message" THEN @
                            ELSE {IF r.message = from.id THEN [r EXCEPT !.message = stays.id]
                                  ELSE r : r \in @}]

(* A reaction's key is made of its message's and its author's. *)
MoveReaction(r, reactions) ==
    LET key == <<IF r.key[1] = "lid" THEN "pn" ELSE r.key[1], r.source>>
        same == {x \in reactions \ {r} : x.key = key}
        into == CHOOSE x \in same : TRUE
        newer == IF r.at > into.at THEN [r EXCEPT !.id = into.id, !.key = key] ELSE into
    IN IF same = {} THEN (reactions \ {r}) \cup {[r EXCEPT !.key = key]}
       ELSE (reactions \ {r, into}) \cup {newer}

(* MUTANT: keys of reactions as they were. *)
LeaveReactions(s) == s

Former(reactions) == {r \in reactions : r.key[1] = "lid" \/ r.key[2] = "lid"}

MoveReactions(s) == [s EXCEPT !.t.reactions = FoldSet(MoveReaction, @, Former(@))]

RenameSources(s) ==
    [s EXCEPT !.t.rows = OverRows(@, Renamed), !.t.reactions = Renamed(@)]

ProjectAlias(s) ==
    IF s.t.alias # None THEN s
    ELSE MoveRow(MoveReactions(RenameSources(MoveRow(MoveChat(MoveContact(s)), "message"))),
                 "timeline")

(* canonicalizeWhatsAppPayload: with the alias in the tables, events about  *)
(* the old key are about the new one.                                       *)
CanonicalKey(t, key) == IF t.alias # None /\ key = "lid" THEN "pn" ELSE key

CanonicalEvent(t, e) ==
    CASE e.kind = "contact" -> [e EXCEPT !.key = CanonicalKey(t, @)]
      [] e.kind = "conversation" -> [e EXCEPT !.chat = CanonicalKey(t, @),
                                              !.members = {CanonicalKey(t, k) : k \in @}]
      [] e.kind = "revocation" -> [e EXCEPT !.chat = CanonicalKey(t, @)]
      [] e.kind = "alias" -> e
      [] OTHER -> [e EXCEPT !.chat = CanonicalKey(t, @), !.key = CanonicalKey(t, @)]

Project(s, raw) ==
    LET e == CanonicalEvent(s.t, raw)
    IN CASE e.kind = "alias" -> ProjectAlias(s)
         [] e.kind = "contact" -> ObserveContact(s, e)
         [] e.kind = "conversation" -> ObserveConversation(s, e)
         [] e.kind \in {"message", "deletion"} -> ProjectMessage(s, e)
         [] e.kind = "revocation" -> ProjectRevocation(s, e)
         [] e.kind = "reaction" -> ProjectReaction(s, e)
         [] e.kind = "timeline" -> ProjectTimeline(s, e)

(* What refers to a row refers to one that there is. *)
RowsIn(t, kind) == {t.rows[k] : k \in {kind} \X Chats} \ {None}
ForeignKeysHold(t) ==
    LET chats == {t.chats[k] : k \in Chats}
        contacts == Optional(t.contacts)
    IN /\ t.contacts \subseteq Ids
       /\ \A k \in RowKeys : \/ t.rows[k] = None
                             \/ t.rows[k].chat \in chats /\ t.rows[k].contact \in contacts
       /\ \A x \in t.members : x.chat \in chats /\ x.contact \in contacts
       /\ \A r \in t.reactions : /\ r.contact \in contacts
                                 /\ \E k \in RowKeys : k[1] = "message" /\ t.rows[k] # None
                                                      /\ t.rows[k].id = r.message
       /\ \A k \in Keys : t.sources[k] \in contacts
       /\ \A n \in DOMAIN t.phones : t.phones[n].contact \in contacts

(* projectEventBatch: an event that fails is rolled back, in the tables and *)
(* in the cache, and set aside; the batch goes on.                          *)
Apply(batch, n) ==
    LET s == Project([t |-> batch.t, c |-> batch.c, at |-> n], batch.log[n])
    IN IF ForeignKeysHold(s.t)
       THEN [batch EXCEPT !.t = s.t, !.c = s.c, !.done = @ \cup {n}]
       ELSE batch

Batch(events, t, c, from, to) ==
    LET before == [log |-> events, t |-> t, c |-> c, done |-> {}]
        after[n \in (from - 1)..to] == IF n < from THEN before ELSE Apply(after[n - 1], n)
    IN after[to]

-----------------------------------------------------------------------------
(* Processes.  "missed" says what others have committed since a process     *)
(* read its cache: "rows", or "ids" when some were merged or made anew.     *)
Missing(process, what) ==
    IF process = None THEN None ELSE [process EXCEPT !.missed = @ \cup what]

Changes(batch) ==
    {"rows"} \cup
    IF \E n \in batch.done : batch.log[n].kind = "alias" THEN {"ids"} ELSE {}

(* getProjectionCache *)
DaemonCache == IF daemon = None THEN [cache |-> Hydrated(tables, merges), missed |-> {}] ELSE daemon

IdentityInit ==
    /\ log = <<>> /\ mark = 0 /\ tables = Empty /\ merges = <<>>
    /\ daemon = None /\ worker = None /\ applied = {} /\ spoilt = {} /\ rebuilds = 0

(* insertRawEvents: a message of WhatsApp and its revocation have one dedupe *)
(* key, unlike a message of iMessage and its deletion.                       *)
DedupeKey(e) ==
    CASE e.kind = "contact" -> <<e.kind, e.key>>
      [] e.kind \in {"conversation", "timeline"} -> <<e.kind, e.chat>>
      [] e.kind \in {"message", "revocation"} -> <<"message", e.chat>>
      [] e.kind = "deletion" -> <<e.kind, e.chat>>
      [] e.kind = "reaction" -> <<e.kind, e.chat, e.key>>
      [] e.kind = "alias" -> <<e.kind>>

Insert(e) ==
    /\ Len(log) < MaxEvents
    /\ \A n \in DOMAIN log : DedupeKey(log[n]) # DedupeKey(e)
    /\ log' = Append(log, e)

(* An event comes with a sync, or while realtime projection is off. *)
Arrive(e) ==
    /\ Insert(e)
    /\ UNCHANGED <<mark, tables, merges, daemon, worker, applied, spoilt, rebuilds>>

(* projectRealtimeRange, in the daemon: the watermark moves only if nothing *)
(* is left before the event.                                                *)
ProjectAtOnce(e) ==
    /\ Insert(e)
    /\ daemon # None \/ Hydrates(tables, merges)
    /\ LET n == Len(log')
           batch == Batch(log', tables, DaemonCache.cache, n, n)
       IN /\ tables' = batch.t
          /\ daemon' = [DaemonCache EXCEPT !.cache = batch.c]
          /\ mark' = IF n = mark + 1 THEN n ELSE mark
          /\ applied' = applied \cup batch.done
          /\ worker' = Missing(worker, Changes(batch))
          /\ spoilt' = spoilt \cup DaemonCache.missed
    /\ UNCHANGED <<merges, rebuilds>>

(* A worker opens the database, reads a page and fills its cache ... *)
Reader(t, from) ==
    [cache |-> Hydrated(t, merges), missed |-> {}, again |-> FALSE,
     from |-> from, to |-> Min({from + PageSize - 1, Len(log)})]

WorkerReads ==
    /\ worker = None /\ mark < Len(log) /\ Hydrates(tables, merges)
    /\ worker' = Reader(tables, mark + 1)
    /\ UNCHANGED <<log, mark, tables, merges, daemon, applied, spoilt, rebuilds>>

(* ... and commits it in one transaction (projectDeferredRange).  If it     *)
(* outlived its daemon the next one has queued its run again.               *)
WorkerCommits ==
    /\ worker # None
    /\ UNCHANGED <<log, merges, rebuilds>>
    /\ LET batch == Batch(log, tables, worker.cache, worker.from, worker.to)
       IN /\ tables' = batch.t
          /\ mark' = Max({mark, worker.to})
          /\ applied' = applied \cup batch.done
          /\ daemon' = Missing(daemon, Changes(batch))
          /\ spoilt' = spoilt \cup worker.missed
          /\ worker' = IF worker.again /\ Hydrates(batch.t, merges)
                       THEN Reader(batch.t, worker.from) ELSE None

WorkerDies ==
    /\ worker # None /\ worker' = None
    /\ UNCHANGED <<log, mark, tables, merges, daemon, applied, spoilt, rebuilds>>

(* rebuildProjectedState: everything again, from nothing, with one cache.   *)
Rebuilt(decisions) == Batch(log, Empty, Reset(decisions), 1, Len(log))

Rebuild(batch) ==
    /\ tables' = batch.t /\ applied' = batch.done
    /\ mark' = Max({mark, Len(log)}) /\ spoilt' = {} /\ rebuilds' = rebuilds + 1

(* A queued rebuild is a worker's and runs alone (RebuildRunsAlone of       *)
(* Daemon), which makes its pages one step.  The daemon keeps its cache.    *)
RebuildQueued ==
    /\ worker = None /\ rebuilds < MaxRebuilds + Len(merges)
    /\ UNCHANGED <<log, merges, worker>>
    /\ Rebuild(Rebuilt(merges))
    /\ daemon' = Missing(daemon, {"rows", "ids"})

(* mergeContacts rebuilds at once, in the daemon. *)
MergeContacts(primary, secondary) ==
    LET decided == Decided(merges)
        into == Canonical(decided, primary)
        from == Canonical(decided, secondary)
        decisions == Append(merges, [secondary |-> from, canonical |-> into])
    IN /\ Len(merges) < MaxMerges
       /\ into # from /\ Endless \notin {into, from}
       /\ merges' = decisions
       /\ UNCHANGED <<log>>
       /\ LET batch == Rebuilt(decisions)
          IN /\ Rebuild(batch)
             /\ daemon' = [cache |-> batch.c, missed |-> {}]
       /\ worker' = Missing(worker, {"rows", "ids"})

(* The worker may outlive the daemon (recoverInProgressRuns); a transaction *)
(* that fails drops the cache as well.                                      *)
Restart ==
    /\ daemon # None \/ worker # None
    /\ daemon' = None
    /\ worker' = IF worker = None THEN None ELSE [worker EXCEPT !.again = TRUE]
    /\ UNCHANGED <<log, mark, tables, merges, applied, spoilt, rebuilds>>

IdentityNext ==
    \/ \E e \in Events : Arrive(e) \/ ProjectAtOnce(e)
    \/ WorkerReads \/ WorkerCommits \/ WorkerDies
    \/ RebuildQueued \/ Restart
    \/ \E p, q \in tables.contacts : MergeContacts(p, q)

IdentitySpec == IdentityInit /\ [][IdentityNext]_identityVars

-----------------------------------------------------------------------------
(* Types of all variables; the caches never hold a circle's end. *)
Missable == {"rows", "ids"}
(* The shape of log, tables and caches: ids stay among the hashed keys. *)
IdentityTypeOK ==
    /\ log \in Seq(Events) /\ mark \in 0..Len(log)
    /\ tables \in Tables
    /\ merges \in Seq([secondary : Ids, canonical : Ids])
    /\ daemon \in Optional([cache : Cache, missed : SUBSET Missable])
    /\ worker \in Optional([cache : Cache, missed : SUBSET Missable, again : BOOLEAN,
                            from : Nat, to : Nat])
    /\ applied \subseteq DOMAIN log /\ spoilt \subseteq Missable /\ rebuilds \in Nat

(* An alias that finds the old contact shared makes one under the number's  *)
(* key, and does not ask whether that one was merged into another by hand.  *)
Revived(t, decided) ==
    t.alias # None /\ t.alias.canonical # None /\ decided[t.alias.canonical] # None

(* No event below the watermark is lost: whatever the order, the pages, the *)
(* restarts, each could be applied, and none was set aside because what it  *)
(* refers to was gone (projectEventBatch would roll it back and quarantine  *)
(* it).  Left out is what follows when a process has missed that another    *)
(* merged or re-keyed rows: the ids in its cache may be gone; and when an   *)
(* alias revived a merged contact, whose events refer to the other one.     *)
EventsAreApplied ==
    "ids" \notin spoilt /\ ~Revived(tables, Decided(merges)) => 1..mark \subseteq applied

References(t) == RowsIn(t, "message") \cup RowsIn(t, "timeline") \cup t.members \cup t.reactions

(* Once an alias is in the tables nothing is stored under the old key any   *)
(* more, neither what was there (projectWhatsAppIdentityAlias) nor what     *)
(* comes later (canonicalizeWhatsAppPayload), whoever projects it and with  *)
(* whatever cache.  The one exception: memberships of a contact that was    *)
(* merged by hand keep the old key.                                         *)
AliasesAreFollowed ==
    tables.alias # None =>
        /\ tables.chats["lid"] = None
        /\ \A kind \in {"message", "timeline"} : tables.rows[<<kind, "lid">>] = None
        /\ \A r \in tables.reactions : r.key[1] # "lid" /\ r.key[2] # "lid"
        /\ \A x \in References(tables) :
              x.source = "lid" => x \in tables.members /\ merges # <<>>

(* A message that was revoked on WhatsApp stays deleted: when it comes as   *)
(* well, before the alias or after it, under the other key of the          *)
(* conversation - the same key would be one dedupe key - and when the alias *)
(* merges the two rows, whichever is the newer.                             *)
RevokedStaysRevoked ==
    \A n \in applied : log[n].kind = "revocation" =>
        tables.rows[<<"message", CanonicalKey(tables, log[n].chat)>>].deleted

(* Merges made by hand hold: a contact that was merged into another does    *)
(* not come back, unless an alias revived it, and decisions and aliases     *)
(* never form a circle, which would keep every process from filling its     *)
(* cache (resolveCanonicalContactId throws), as long as none wrote that had *)
(* missed a merge or an alias of another.                                   *)
MergesHold ==
    "ids" \notin spoilt =>
        /\ Hydrates(tables, merges)
        /\ Revived(tables, Decided(merges))
              \/ \A n \in DOMAIN merges : merges[n].secondary \notin tables.contacts

ContactsOf(t, key) ==
    {x.contact : x \in {y \in References(t) : y.source = key}} \cup ({t.sources[key]} \ {None})

(* A rebuild heals what single pages could split: after it every source key *)
(* is one contact, in its messages, memberships, reactions, timeline events *)
(* and in contact_sources (rebuildProjectedState, with one cache for all).  *)
RebuildsAgree ==
    [][rebuilds' # rebuilds =>
        \A key \in Keys : Cardinality(ContactsOf(tables', key)) <= 1]_identityVars
=============================================================================
