------------------------------- MODULE MCSync -------------------------------
(* Two conversations listed one a page, and an empty family after them;    *)
(* and the perils that the adapters withstand: all but Slack's stand runs  *)
(* that overlap and writes that are cut off.                               *)
EXTENDS Sync

TwoPages == << <<"a", "b">>, <<>> >>
Withstood == [p \in Platforms |-> IF p = "slack" THEN {} ELSE {"overlap", "cut"}]
=============================================================================
