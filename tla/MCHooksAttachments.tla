------------------------- MODULE MCHooksAttachments -------------------------
(* Model checking of HookBarrier (five rows, pages of one to three rows,   *)
(* two releases at a time) and of Attachments (one on Slack, two of        *)
(* WhatsApp with the same content, which may be joined; two requests at a  *)
(* time, and one change of rows, death or error that nobody could note).   *)
(* A behaviour is about one of them: the other stays as it was.            *)
EXTENDS HookBarrier, Attachments, TLC

CONSTANTS a1, a2, a3,  \* attachments
          o1, o2,      \* their contents
          slack, plain, elsewhere

MCBytes == (o1 :> 1) @@ (o2 :> 2)
MCPayloads == (a1 :> {o2}) @@ (a2 :> {o1}) @@ (a3 :> {o1})

From(platform, ref, url) ==
    [platform |-> platform, localPath |-> FALSE, providerRef |-> ref, url |-> url]
MCDescribed ==
    (a1 :> From("slack", FALSE, slack))
    @@ (a2 :> From("whatsapp", TRUE, NoHost))
    @@ (a3 :> From("whatsapp", TRUE, NoHost))

(* Slack's own hosts, one of them asked without https. *)
MCPlatformHosts == [p \in Platforms |-> IF p = "slack" THEN {slack, plain} ELSE {}]

(* Bound: one request at a time downloads from a host.  Only a1 has one,   *)
(* and the requests for it meet again when their payloads have arrived.    *)
OneDownload ==
    \A f, g \in Fetches : fetch[f].pc = "asking" /\ fetch[g].pc = "asking" => f = g

MCInit == Init /\ AttachmentsInit
MCNext ==
    \/ AttachmentsInit /\ Next /\ UNCHANGED attachmentsVars
    \/ Init /\ AttachmentsNext /\ OneDownload' /\ UNCHANGED vars
MCSpec == MCInit /\ [][MCNext]_<<vars, attachmentsVars>>

Symmetry == Permutations(Releases) \cup Permutations(Fetches) \cup Permutations({a2, a3})
=============================================================================
