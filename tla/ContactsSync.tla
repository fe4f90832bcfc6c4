---------------------------- MODULE ContactsSync ----------------------------
(***************************************************************************)
(* One run of the address book adapter: it takes a snapshot of every       *)
(* contact, each time; a contact as it was stored before is dropped by its *)
(* key.  The address book answers only while the permission for it stands. *)
(***************************************************************************)
EXTENDS Provider

SourceCursor == [snapshot : Nat]

(* loadContactsFromMacOS, and as much from a file or the native program.   *)
Snapshot(box) == DOMAIN box

(* buildContactsSyncBundle *)
Run(box, base) ==
    Bundle(Versions(box, Snapshot(box)), <<>>, [snapshot |-> base], FALSE)
=============================================================================
