------------------------------- MODULE Store -------------------------------
(***************************************************************************)
(* What the jobs, the videos and the data move of kvad-serve share: the    *)
(* database behind its one lock (crates/serve/src/db.rs), the directory of *)
(* videos, the configuration that says where both are, and the life of the *)
(* process that uses them (main.rs, settings.rs). Only rows, files and the *)
(* configuration outlive a process.                                        *)
(***************************************************************************)
EXTENDS Integers, FiniteSets, FiniteSetsExt

CONSTANTS
    JobIds,      \* rows of jobs there may be, 1..n
    VideoIds,    \* rows of videos there may be, 1..n
    Kept,        \* the videos that are there to begin with, finished
    MaxCalls,    \* bound: requests that change something or watch something
    MaxCrashes,  \* bound: times the process dies or is interrupted
    MaxFaults    \* bound: writes the disk refuses, threads that die

ASSUME StoreAssumption ==
    /\ IsFiniteSet(JobIds) /\ JobIds = 1..Cardinality(JobIds)
    /\ IsFiniteSet(VideoIds) /\ VideoIds = 1..Cardinality(VideoIds)
    /\ Kept \subseteq VideoIds
    /\ MaxCalls \in Nat /\ MaxCrashes \in Nat /\ MaxFaults \in Nat

VARIABLES
    \* what is on disk
    db,          \* the rows of the database in each place
    files,       \* the videos' files in each place, <<id, extension>>
    dirs,        \* the places that have a directory of videos
    config,      \* the place kvad.toml names
    \* the process
    up,          \* it has started and not ended
    pid,         \* which process it is; an exec keeps it
    home,        \* the place it was started with: Running::data_dir
    restarting,  \* Running::restarting
    asking,      \* a request to restart, between its two looks
    lock,        \* the database's lock is held by the move's switch
    watch,       \* one client that follows a job or a video
    \* bounds
    calls, crashes, faults

diskVars  == <<db, files, dirs, config>>
lifeVars  == <<up, pid, home, restarting, asking>>
boundVars == <<calls, crashes, faults>>

\* The directory there is, and the empty one a move goes to.
Place == {"here", "there"}

\* The columns `state` of jobs and `status` of videos. A video's id is never
\* given twice (AUTOINCREMENT), so a deleted row is not one that never was.
JobStates == {"none", "running", "done", "failed", "cancelled"}
VideoStates == {"none", "queued", "in_progress", "completed", "failed", "deleted"}
Extensions == {"mp4", "png", "preview.png", "input"}

\* `left` is what a move left behind (`storage.previous`).
NoRows == [job |-> [i \in JobIds |-> "none"], film |-> [v \in VideoIds |-> "none"],
           left |-> "nothing"]
FirstRows == [NoRows EXCEPT !.film = [v \in VideoIds |-> IF v \in Kept THEN "completed" ELSE "none"]]
Whole(v) == {<<v, "mp4">>, <<v, "png">>}

Nobody == [of |-> "nothing", id |-> 0, at |-> "rest", sub |-> FALSE, news |-> "none", early |-> FALSE]

StoreInit ==
    /\ db = [p \in Place |-> IF p = "here" THEN FirstRows ELSE NoRows]
    /\ files = [p \in Place |-> IF p = "here" THEN UNION {Whole(v) : v \in Kept} ELSE {}]
    /\ dirs = {"here"}
    /\ config = "here"
    /\ up = TRUE /\ pid = 1 /\ home = "here" /\ restarting = FALSE /\ asking = FALSE
    /\ lock = FALSE
    /\ watch = Nobody
    /\ calls = 0 /\ crashes = 0 /\ faults = 0

StoreTypeOK ==
    /\ db \in [Place -> [job : [JobIds -> JobStates], film : [VideoIds -> VideoStates],
                     left : {"nothing", "database", "copies"}]]
    /\ files \in [Place -> SUBSET (VideoIds \X Extensions)]
    /\ dirs \subseteq Place /\ config \in Place /\ home \in Place
    /\ {up, restarting, asking, lock} \subseteq BOOLEAN
    /\ pid \in 1..MaxCrashes + 1
    /\ watch.id \in {0} \cup JobIds \cup VideoIds
    /\ calls \in 0..MaxCalls /\ crashes \in 0..MaxCrashes /\ faults \in 0..MaxFaults

\* The rows this process reads and writes, in the database it has open.
JobRow(i) == db[home].job[i]
VideoRow(v) == db[home].film[v]
SetJobRow(i, state) == db' = [db EXCEPT ![home].job[i] = state]
SetVideoRow(v, status) == db' = [db EXCEPT ![home].film[v] = status]

\* Db::with: a use of the rows waits for whoever holds the lock.
CanUseRows == up /\ ~lock

\* Ids are given in order.
NextIn(rows) == IF \E i \in DOMAIN rows : rows[i] = "none"
                THEN {Min({i \in DOMAIN rows : rows[i] = "none"})} ELSE {}

ACall == calls < MaxCalls /\ calls' = calls + 1
AFault == faults < MaxFaults /\ faults' = faults + 1

\* POST /api/restart: whether a move is under way is asked first, and the
\* flag raised after that.
AskRestart(busy) ==
    /\ up /\ ~asking /\ ~busy
    /\ ACall
    /\ asking' = TRUE
    /\ UNCHANGED <<diskVars, up, pid, home, restarting, lock, watch, crashes, faults>>

\* begin_restart.
BeginRestart ==
    /\ up /\ asking
    /\ asking' = FALSE
    /\ restarting' = TRUE
    /\ UNCHANGED <<diskVars, up, pid, home, lock, watch, boundVars>>

\* The process ends, with all it holds: it dies or is interrupted, or it
\* execs itself, which is a new process image under the same pid.
Gone == /\ up' = FALSE
        /\ restarting' = FALSE /\ asking' = FALSE /\ lock' = FALSE
        /\ watch' = Nobody
        /\ UNCHANGED <<diskVars, home, calls, faults>>
Die  == up /\ crashes < MaxCrashes /\ crashes' = crashes + 1 /\ pid' = pid + 1 /\ Gone
Exec == up /\ restarting /\ UNCHANGED <<crashes, pid>> /\ Gone

\* abandon_orphans and videos::abandon: rows say what was running when the
\* last process ended, and nothing is running now.
\* (Mistaken: none are; only the videos begun; everything.)
AbandonNone(rows) == rows
AbandonJobs(rows) == [i \in JobIds |-> IF rows[i] = "running" THEN "failed" ELSE rows[i]]
AbandonBegun(rows) == [v \in VideoIds |-> IF rows[v] = "in_progress" THEN "failed" ELSE rows[v]]
AbandonAll(rows) == [v \in VideoIds |-> IF rows[v] \notin {"none", "deleted"} THEN "failed" ELSE rows[v]]
AbandonFilms(rows) ==
    [v \in VideoIds |-> IF rows[v] \in {"queued", "in_progress"} THEN "failed" ELSE rows[v]]

\* main, until it listens: the place is the one the configuration names.
Boot ==
    /\ ~up
    /\ up' = TRUE
    /\ home' = config
    /\ db' = [db EXCEPT ![config].job = AbandonJobs(@), ![config].film = AbandonFilms(@)]
    /\ UNCHANGED <<files, dirs, config, pid, restarting, asking, lock, watch, boundVars>>
=============================================================================
