--------------------------- MODULE WatcherSession ---------------------------
(***************************************************************************)
(* The watcher of a database of this machine: a child process that prints  *)
(* a line whenever something has changed.  A line sets a timer anew, and   *)
(* when the lines have stopped for a while a sync is queued.  A watcher    *)
(* that exits by itself is kept as if it were running.                     *)
(***************************************************************************)

Fresh == [input |-> 0, watcher |-> "none", timer |-> FALSE]

Session(Inputs) ==
    [input : Inputs, watcher : {"none", "running", "leaving", "exited"}, timer : BOOLEAN]

(* startContactsWatcher, startIMessageWatcher, startCallHistoryWatcher *)
Start(s) == [s EXCEPT !.watcher = "running"]

(* stopNativeWatcher: it may still print before it exits. *)
Stop(s) == [s EXCEPT !.watcher = IF @ = "running" THEN "leaving" ELSE "none"]

HasChild(s) == s.watcher \in {"running", "leaving"}

(* createDebouncedSyncEnqueuer *)
Changed(s) == [s EXCEPT !.timer = TRUE]
Elapsed(s) == [s EXCEPT !.timer = FALSE]

Exited(s) == [s EXCEPT !.watcher = IF @ = "running" THEN "exited" ELSE "none"]

Quiet(s) == s.watcher # "running"
Online(s) == s.watcher \in {"running", "exited"}
Inert(s) == s.watcher = "none" /\ ~s.timer
=============================================================================
