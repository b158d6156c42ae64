------------------------------- MODULE Storage -------------------------------
(***************************************************************************)
(* Moving the data (crates/serve/src/storage.rs): what is on another disk  *)
(* is copied while the server serves; then, holding the database's lock,   *)
(* the database is copied, the copies are brought up to date, what is on   *)
(* the same disk is renamed, and the configuration is written; then the    *)
(* server restarts into the new place.                                     *)
(*                                                                         *)
(* What moves here is the database and the directory of videos. A move is  *)
(* asked for once at a time: the two looks of `start`, between which two   *)
(* moves could both begin, are one here.                                   *)
(***************************************************************************)
EXTENDS Videos

VARIABLES
    move,    \* where the thread that moves is, how, and what it has to copy
    stage,   \* Progress::stage
    cancel,  \* Mover::cancel
    torn     \* history: a switch that was cut off, or could not be undone

moveVars == <<move, stage, cancel, torn>>

How == {"copy", "rename"}
AtRest == [at |-> "rest", how |-> "copy", todo |-> {}]
Busy == stage \in {"copying", "switching", "restarting"}

StorageInit == move = AtRest /\ stage = "none" /\ cancel = FALSE /\ torn = FALSE

StorageTypeOK ==
    /\ move.at \in {"rest", "clear", "copy", "checked", "sync", "note", "config", "leave", "go"}
    /\ move.how \in How /\ move.todo \subseteq VideoIds \X Extensions
    /\ stage \in {"none", "copying", "switching", "restarting", "failed", "cancelled"}
    /\ {cancel, torn} \subseteq BOOLEAN

MoveTo(at) == move' = [move EXCEPT !.at = at]
Untouched == UNCHANGED <<lifeVars, watch, crashes, film, deleting>>

\* start: not beside another or a restart, and into an empty directory.
StartMove(how) ==
    /\ up /\ ~Busy /\ move.at = "rest" /\ ~restarting
    /\ home = "here" /\ files["there"] = {} /\ db["there"] = NoRows
    /\ ACall
    /\ stage' = "copying"
    /\ move' = [AtRest EXCEPT !.at = "clear", !.how = how]
    /\ UNCHANGED <<diskVars, lock, faults, crossed, cancel, torn>> /\ Untouched

\* Then the flag is cleared, and carry begins with a list of what to copy.
BeginCarry ==
    /\ up /\ move.at = "clear"
    /\ cancel' = FALSE
    /\ move' = [move EXCEPT !.at = "copy", !.todo = IF move.how = "copy" THEN files["here"] ELSE {}]
    /\ UNCHANGED <<diskVars, lock, calls, faults, crossed, stage, torn>> /\ Untouched

\* cancel: only while it copies.
CancelMove ==
    /\ up /\ stage = "copying" /\ ~cancel
    /\ ACall
    /\ cancel' = TRUE
    /\ UNCHANGED <<diskVars, lock, faults, crossed, move, stage, torn>> /\ Untouched

\* undo, and the end of a move that did not happen: what was renamed goes
\* back, if it can, and the target is emptied of whatever is in it.
\* (Mistaken: the target is left as it is.)
UndoNothing(why) ==
    /\ stage' = why /\ move' = AtRest /\ lock' = FALSE
    /\ UNCHANGED <<db, files, dirs, torn>>
Undo(why) ==
    LET renamed == move.at \in {"note", "config"} /\ move.how = "rename"
        back == renamed /\ ("here" \notin dirs \/ files["here"] = {})
    IN  /\ stage' = why /\ move' = AtRest /\ lock' = FALSE
        /\ files' = [here |-> IF back THEN files["there"] ELSE files["here"], there |-> {}]
        /\ dirs' = IF back THEN {"here"} ELSE dirs \ {"there"}
        /\ db' = [db EXCEPT !["there"] = NoRows]
        /\ torn' = (torn \/ (renamed /\ ~back))

\* copy_tree: a file at a time, the flag asked after each. One that is gone
\* when its turn comes ends the move.
CopyFile(f) ==
    /\ up /\ move.at = "copy" /\ f \in move.todo /\ ~cancel
    /\ IF f \in files["here"]
       THEN /\ files' = [files EXCEPT !["there"] = @ \cup {f}]
            /\ dirs' = dirs \cup {"there"}
            /\ move' = [move EXCEPT !.todo = @ \ {f}]
            /\ UNCHANGED <<db, lock, stage, torn>>
       ELSE Undo("failed")
    /\ UNCHANGED <<config, calls, faults, crossed, cancel>> /\ Untouched

\* The flag, at a chunk or when the copies are made.
StopCopying ==
    /\ up /\ move.at = "copy" /\ cancel
    /\ Undo("cancelled")
    /\ UNCHANGED <<config, calls, faults, crossed, cancel>> /\ Untouched

Copied ==
    /\ up /\ move.at = "copy" /\ move.todo = {} /\ ~cancel
    /\ MoveTo("checked")
    /\ UNCHANGED <<diskVars, lock, calls, faults, crossed, stage, cancel, torn>> /\ Untouched

\* The switch: the lock, and the database as it is now.
TakeLock ==
    /\ CanUseRows /\ move.at = "checked"
    /\ stage' = "switching"
    /\ lock' = TRUE
    /\ db' = [db EXCEPT !["there"] = db["here"]]
    /\ MoveTo("sync")
    /\ UNCHANGED <<files, dirs, config, calls, faults, crossed, cancel, torn>> /\ Untouched

\* sync_tree or rename.
Crossing == {v \in VideoIds : VideoRow(v) = "deleted" /\ files["here"] \cap FilesOf(v) # {}}
Sync == IF move.how = "copy"
        THEN files' = [files EXCEPT !["there"] = files["here"]] /\ dirs' = dirs \cup {"there"}
        ELSE files' = [here |-> {}, there |-> files["here"]] /\ dirs' = {"there"}
BringOver ==
    /\ up /\ move.at = "sync"
    /\ Sync
    /\ crossed' = crossed \cup Crossing
    /\ MoveTo("note")
    /\ UNCHANGED <<db, config, lock, calls, faults, stage, cancel, torn>> /\ Untouched

\* remember: the copy left behind, noted in the database that is next.
Remember ==
    /\ up /\ move.at = "note"
    /\ db' = [db EXCEPT !["there"].left = IF move.how = "copy" THEN "copies" ELSE "database"]
    /\ MoveTo("config")
    /\ UNCHANGED <<files, dirs, config, lock, calls, faults, crossed, stage, cancel, torn>> /\ Untouched

\* Any step of the switch may fail.
SwitchFails ==
    /\ up /\ move.at \in {"sync", "note", "config"}
    /\ AFault
    /\ Undo("failed")
    /\ UNCHANGED <<config, calls, crossed, cancel>> /\ Untouched

\* set_data_dir, which replaces kvad.toml whole; then the lock goes.
SetDataDir ==
    /\ up /\ move.at = "config"
    /\ config' = "there"
    /\ MoveTo("leave")
    /\ UNCHANGED <<db, files, dirs, lock, calls, faults, crossed, stage, cancel, torn>> /\ Untouched
LeaveLock ==
    /\ up /\ move.at = "leave"
    /\ lock' = FALSE
    /\ stage' = "restarting"
    /\ MoveTo("go")
    /\ UNCHANGED <<diskVars, calls, faults, crossed, cancel, torn>> /\ Untouched

\* begin_restart, which refuses if one is under way.
RestartInto ==
    /\ up /\ move.at = "go"
    /\ move' = AtRest
    /\ stage' = IF restarting THEN "failed" ELSE stage
    /\ restarting' = TRUE
    /\ UNCHANGED <<diskVars, up, pid, home, asking, lock, watch, boundVars, filmVars, cancel, torn>>

\* forget_previous: what was copied is deleted where it was, when the server
\* is in the new place. What was renamed is not there.
ForgetPrevious ==
    /\ CanUseRows /\ db[home].left # "nothing"
    /\ ACall
    /\ db' = [db EXCEPT !["here"] = NoRows, ![home].left = "nothing"]
    /\ IF db[home].left = "copies"
       THEN files' = [files EXCEPT !["here"] = {}] /\ dirs' = dirs \ {"here"}
       ELSE UNCHANGED <<files, dirs>>
    /\ UNCHANGED <<config, lock, faults, crossed, moveVars>> /\ Untouched

StorageGone ==
    /\ move' = AtRest /\ stage' = "none" /\ cancel' = FALSE
    /\ torn' = (torn \/ (move.at \in {"note", "config"} /\ move.how = "rename"))

StorageRequest == (\E how \in How : StartMove(how)) \/ CancelMove \/ ForgetPrevious

StorageStep ==
    \/ BeginCarry \/ StopCopying \/ Copied \/ TakeLock \/ BringOver \/ Remember \/ SwitchFails
    \/ SetDataDir \/ LeaveLock \/ RestartInto
    \/ \E f \in move.todo : CopyFile(f)
=============================================================================
