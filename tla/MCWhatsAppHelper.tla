-------------------------- MODULE MCWhatsAppHelper --------------------------
(* An instance of WhatsAppHelper: two messages and a call. *)
EXTENDS WhatsAppHelper

Plain(e) == [of |-> e, revoked |-> FALSE]
Gone(m) == [of |-> m, revoked |-> TRUE]
Message(o) == [kind |-> "message", obs |-> {o}]
Receipt(m) == [kind |-> "receipt", obs |-> {Plain(m)}]
Call(c) == [kind |-> "call", obs |-> {Plain(c)}]
Deletion(c) == [kind |-> "deletion", obs |-> {Plain(c)}]
History(obs) == [kind |-> "history", obs |-> obs]

MCMessages == {1, 2}
MCCalls == {3}

World(items, older) == [inbox |-> items, phone |-> older]

MCWorlds ==
    { World(<< History({Plain(1)}), Message(Gone(1)) >>, {}),
      World(<< Message(Plain(2)) >>, {History({Plain(1)})}),
      World(<< Call(3), Message(Plain(1)), Deletion(3) >>, {}),
      World(<< Message(Plain(1)), Receipt(1) >>, {}) }
=============================================================================
