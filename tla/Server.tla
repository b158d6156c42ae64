------------------------------- MODULE Server -------------------------------
(***************************************************************************)
(* kvad-serve as one process over one disk: its jobs, its videos and the   *)
(* move of its data at once, through deaths and restarts. They meet in the *)
(* database and its lock, the directory of videos, and the end of the      *)
(* process.                                                                *)
(***************************************************************************)
EXTENDS Jobs, Storage

vars == <<diskVars, lifeVars, lock, watch, boundVars, jobVars, filmVars, moveVars>>

Init == StoreInit /\ JobsInit /\ VideosInit /\ StorageInit

ProcessEnds == (Die \/ Exec) /\ JobsGone /\ VideosGone /\ StorageGone

Next ==
    \/ (JobsRequest \/ JobsStep) /\ UNCHANGED <<filmVars, moveVars>>
    \/ (VideosRequest \/ VideosStep) /\ UNCHANGED <<jobVars, moveVars>>
    \/ (StorageRequest \/ StorageStep) /\ UNCHANGED jobVars
    \/ (AskRestart(Busy) \/ BeginRestart \/ Boot) /\ UNCHANGED <<jobVars, filmVars, moveVars>>
    \/ ProcessEnds

Spec == Init /\ [][Next]_vars

(***************************************************************************)
(* Properties                                                              *)
(***************************************************************************)

\* Every variable has its type.
TypeOK == StoreTypeOK /\ JobsTypeOK /\ VideosTypeOK /\ StorageTypeOK

\* The server is where the configuration says, and no switch was cut off
\* with the directory on one side and the configuration on the other.
Settled == up /\ ~lock /\ home = config /\ ~torn

\* A video that says it is completed has its film and its poster, where the
\* server looks: through failed writes, deletions, moves by copy or rename,
\* deaths and restarts.
CompletedHasFiles ==
    Settled => \A v \in VideoIds : VideoRow(v) = "completed" => Whole(v) \subseteq files[home]

\* A row that is not over has a task that will end it, or a request that will
\* give it one, whatever is deleted or restarted. There are two exceptions,
\* which stay as they are until the server starts again: one whose request
\* ended before there was a task (its client had gone, its picture could not
\* be kept or its row not read back), and one whose task ended on a write of
\* the row that was refused.
UnfinishedVideosHaveMakers ==
    up => \A v \in VideoIds :
            VideoRow(v) \in {"queued", "in_progress"} =>
                BeingMade(v) \/ film[v] \in {"keep", "made"} \cup {"nobody", "cut"}

\* What a deleted video leaves behind: files whose writer, mover or remover
\* crossed the deletion, and nothing else.
DeletedIsGone ==
    Settled => \A v \in VideoIds :
        /\ VideoRow(v) \in {"deleted", "none"}
        /\ film[v] \in {"none", "nobody", "cut", "over"} /\ v \notin deleting
        => v \in crossed \/ files[home] \cap FilesOf(v) = {}

\* Who follows a video is told how it ended, or that it was deleted; and
\* never waits on a channel nothing more will be said on. It is let go of
\* without an end only if it looked before there was a task, if the task ended
\* on a refused write, or if its own reading of the row was refused.
VideoWatchersHear ==
    watch.of = "video" =>
        /\ watch.at = "told" => HasEnded(watch.id)
        /\ watch.at = "wait" => BeingMade(watch.id) \/ watch.news # "none"
        /\ watch.at = "left" => watch.early \/ film[watch.id] = "cut"

\* Whoever follows a job or a video hears its end. (`events` of jobs.rs and of
\* videos.rs, whose channels close before or after their rows are written.)
WatchersHear == WatchersHearTheEnd /\ VideoWatchersHear

\* A move that failed or was cancelled has left nothing where it went to, and
\* everything where it was.
Stayed == config = "here" /\ stage \in {"failed", "cancelled"} /\ up
FailedMoveLeavesNothing ==
    Stayed => /\ files["there"] = {} /\ "there" \notin dirs /\ db["there"] = NoRows
              /\ \A v \in Kept : db["here"].film[v] = "completed" /\ ~torn => Whole(v) \subseteq files["here"]

\* Once ended, for good: no row of a job or of a video that has ended is
\* ever written again, by a task that ends late, a restart or a copy, except
\* to delete it.
EndedStaysEnded ==
    [][\A p \in Place : db'[p] # NoRows =>
        /\ \A i \in JobIds : db[p].job[i] \in {"done", "failed", "cancelled"} =>
                db'[p].job[i] = db[p].job[i]
        /\ \A v \in VideoIds : db[p].film[v] \in {"completed", "failed"} =>
                db'[p].film[v] \in {db[p].film[v], "deleted"}]_vars

\* The comment in `carry`: after a switch that failed the server stays where
\* it is, with everything back in place.
EverythingBackInPlace ==
    stage = "failed" /\ config = "here" =>
        \A v \in VideoIds : db["here"].film[v] = "completed" => Whole(v) \subseteq files["here"]
=============================================================================
