----------------------------- MODULE MCIdentity -----------------------------
(* One person on WhatsApp under both keys, in a group too, in the address   *)
(* book and on iMessage.                                                    *)
EXTENDS Identity

MCEvents ==
    [kind : {"contact"}, key : {"lid"}, phone : {FALSE}]
    \cup [kind : {"contact"}, key : {"pn", "card"}, phone : {TRUE}]
    \cup [kind : {"conversation"}, chat : {"group"}, members : {{"lid"}}]
    \cup {[kind |-> "message", chat |-> key, key |-> key] : key \in {"lid", "im"}}
    \cup {[kind |-> "reaction", chat |-> key, key |-> key] : key \in {"lid", "pn"}}
    \cup [kind : {"deletion"}, chat : {"im"}, key : {"im"}]
    \cup [kind : {"revocation"}, chat : {"pn"}]
    \cup [kind : {"alias"}]
=============================================================================
