----------------------------- MODULE SignalSync -----------------------------
(***************************************************************************)
(* One run of the Signal adapter: what the service still keeps for this    *)
(* device.  It is handed over once; there is no history to ask for.        *)
(***************************************************************************)
EXTENDS Provider

SourceCursor == [last : Nat]

(* receiveMessages *)
Received(box, taken) == DOMAIN box \ taken

(* buildSignalSyncBundle *)
Run(box, taken, base) ==
    Bundle(Received(box, taken), <<>>, [last |-> base], FALSE)
=============================================================================
