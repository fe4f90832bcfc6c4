----------------------------- MODULE MCUpdater -----------------------------
(* 1.0.0 is installed; 1.1.0-beta comes out without its archive, then     *)
(* 1.1.0-beta.11, then 1.1.0-beta.2, which comes before it.               *)
EXTENDS Updater

Number(n) == [number |-> TRUE, at |-> n]
Word(n) == [number |-> FALSE, at |-> n]
Beta == Word(2)
Old == [core |-> 10, pre |-> <<>>]
Beta11 == [core |-> 11, pre |-> <<Beta, Number(11)>>]
Beta2 == [core |-> 11, pre |-> <<Beta, Number(2)>>]
MCFeed == <<[version |-> [core |-> 11, pre |-> <<Beta>>], prerelease |-> TRUE, installable |-> FALSE],
            [version |-> Beta11, prerelease |-> TRUE, installable |-> TRUE],
            [version |-> Beta2, prerelease |-> FALSE, installable |-> TRUE]>>

(* The precedence of the releases that can be installed, oldest first, as  *)
(* semver.org lists its examples.                                          *)
Precedence == <<Old, Beta2, Beta11>>
Rank(v) == CHOOSE i \in DOMAIN Precedence : Precedence[i] = v

(* A check that saw the current list of releases offers the newest one the *)
(* channel may install, in whatever order they were published and whether  *)
(* the list was sent again or not (304), and nothing that is not newer.    *)
NewestIsOffered ==
    db.release # None /\ channel # "dev" /\ db.release.etag = published =>
        LET candidates == {v \in {Feed[i].version : i \in
                                     {j \in 1..published : Offered(Feed[j])}} :
                              Rank(v) > Rank(db.release.current)}
        IN  IF candidates = {} THEN db.release.available = None
            ELSE /\ db.release.available \in candidates
                 /\ \A v \in candidates : Rank(v) <= Rank(db.release.available)
=============================================================================
