-------------------------------- MODULE Jobs --------------------------------
(***************************************************************************)
(* The jobs of kvad-serve (crates/serve/src/jobs.rs, tuning.rs, compare.rs,*)
(* training.rs): rows in the database, a registry of those that run, and   *)
(* whoever starts, stops and follows them.                                 *)
(*                                                                         *)
(* A start asks what runs, makes a row, registers it and sets a thread or  *)
(* a task on it, each under a lock of its own or none. A LoRA run is a     *)
(* process beside the server, with memory set aside for it; a thread of    *)
(* the server waits for it. An end is written in the row, then the job is  *)
(* taken off the registry, and then its watchers are told.                 *)
(***************************************************************************)
EXTENDS Store

CONSTANT Menu   \* the kinds of job this instance starts

\* A pull or a crawl, a training run in the server, a LoRA run, and a
\* comparison or benchmark.
JobKinds == {"pull", "train", "tune", "bench"}
ASSUME JobsAssumption == Menu \subseteq JobKinds

VARIABLES
    starters,  \* starts that have asked what runs and made no row yet
    run,       \* each job, as this process knows it
    hold,      \* Reserved: whose the memory set aside is
    kids       \* the LoRA runs' processes

jobVars == <<starters, run, hold, kids>>

Starter == 0
NoRun == [at |-> "none", kind |-> "pull", seen |-> 0, live |-> FALSE, stop |-> FALSE, end |-> "done"]

JobsInit ==
    /\ starters = {}
    /\ run = [i \in JobIds |-> NoRun]
    /\ hold = {}
    /\ kids = {}

Places == {"none", "created", "working", "ending", "told", "over", "stuck"}
JobsTypeOK ==
    /\ starters \subseteq [kind : Menu, at : {"asked", "held", "sure"}, seen : {0} \cup JobIds,
                           call : 1..MaxCalls]
    /\ run \in [JobIds -> [at : Places, kind : JobKinds, seen : {0} \cup JobIds, live : BOOLEAN,
                           stop : BOOLEAN, end : JobStates]]
    /\ hold \subseteq {Starter} \cup JobIds /\ Cardinality(hold) <= 1
    /\ kids \subseteq [job : JobIds, pid : Nat, ours : BOOLEAN, told : BOOLEAN]

\* live_kind, of the kinds that each start asks for: training for training;
\* training in the server, comparisons and benchmarks for those, by
\* machine_is_busy. (Mistaken: nothing asks for LoRA runs.)
InTheWay(kind) ==
    CASE kind = "pull" -> {}
      [] kind = "bench" -> {"train", "bench"}
      [] OTHER -> {"train", "tune"}
ClearOfTraining(kind) ==
    \A i \in JobIds : JobRow(i) = "running" => run[i].kind \notin InTheWay(kind) \ {"tune"}
Clear(kind) == \A i \in JobIds : JobRow(i) = "running" => run[i].kind \notin InTheWay(kind)

\* How many rows there are: what the asking saw.
Made == Cardinality({i \in JobIds : JobRow(i) # "none"})

\* A start, first: what runs now. Refused, it changes nothing.
AskToStart(kind) ==
    /\ CanUseRows
    /\ ACall
    /\ Clear(kind)
    /\ starters' = starters \cup {[kind |-> kind, seen |-> Made, call |-> calls',
                                   at |-> IF kind = "tune" THEN "asked" ELSE "sure"]}
    /\ UNCHANGED <<diskVars, lifeVars, lock, watch, crashes, faults, run, hold, kids>>

\* tuning::start: the memory, which is set aside for one at a time.
\* (Mistaken: it is not asked whether it is.)
SetAsideBeside(s) ==
    /\ up /\ s.at = "asked"
    /\ hold' = hold \cup {Starter} /\ starters' = (starters \ {s}) \cup {[s EXCEPT !.at = "held"]}
    /\ UNCHANGED <<diskVars, lifeVars, lock, watch, boundVars, run, kids>>
SetAside(s) ==
    /\ up /\ s.at = "asked"
    /\ IF hold = {}
       THEN hold' = {Starter} /\ starters' = (starters \ {s}) \cup {[s EXCEPT !.at = "held"]}
       ELSE starters' = starters \ {s} /\ UNCHANGED hold
    /\ UNCHANGED <<diskVars, lifeVars, lock, watch, boundVars, run, kids>>

\* jobs::tune asks again; refused, the memory is let go.
AskAgain(s) ==
    /\ CanUseRows /\ s.at = "held"
    /\ IF Clear(s.kind)
       THEN /\ starters' = (starters \ {s}) \cup {[s EXCEPT !.at = "sure", !.seen = Made]}
            /\ UNCHANGED hold
       ELSE starters' = starters \ {s} /\ hold' = {}
    /\ UNCHANGED <<diskVars, lifeVars, lock, watch, boundVars, run, kids>>

\* create.
CreateRow(s, i) ==
    /\ CanUseRows /\ s.at = "sure"
    /\ i \in NextIn(db[home].job)
    /\ SetJobRow(i, "running")
    /\ run' = [run EXCEPT ![i] = [NoRun EXCEPT !.at = "created", !.kind = s.kind, !.seen = s.seen]]
    /\ starters' = starters \ {s}
    /\ hold' = IF s.kind = "tune" THEN {i} ELSE hold
    /\ UNCHANGED <<files, dirs, config, lifeVars, lock, watch, boundVars, kids>>

\* register, and the thread, task or process that does the work. A process
\* that cannot be started is the job's failure. A thread that cannot be is
\* nobody's: the row and the registry keep the job, and the process runs on.
\* The memory goes with the closure that had it.
Registered(i, at, end) ==
    run' = [run EXCEPT ![i].live = TRUE, ![i].at = at, ![i].end = end]
TheKid(i) == [job |-> i, pid |-> pid, ours |-> TRUE, told |-> FALSE]
Launch(i) ==
    /\ up /\ run[i].at = "created"
    /\ \/ /\ Registered(i, "working", "done")
          /\ kids' = IF run[i].kind = "tune" THEN kids \cup {TheKid(i)} ELSE kids
          /\ UNCHANGED <<hold, faults>>
       \/ /\ AFault
          /\ run[i].kind # "bench"
          /\ Registered(i, "stuck", "done")
          /\ kids' = IF run[i].kind = "tune" THEN kids \cup {TheKid(i)} ELSE kids
          /\ hold' = hold \ {i}
       \/ /\ AFault
          /\ run[i].kind = "tune"
          /\ Registered(i, "ending", "failed")
          /\ UNCHANGED <<hold, kids>>
    /\ UNCHANGED <<diskVars, lifeVars, lock, watch, calls, crashes, starters>>

\* cancel: a flag of a job that is on the registry. The row was looked at
\* before, and may have ended since.
CancelJob(i) ==
    /\ up /\ run[i].live
    /\ ACall
    /\ run' = [run EXCEPT ![i].stop = TRUE]
    /\ UNCHANGED <<diskVars, lifeVars, lock, watch, crashes, faults, starters, hold, kids>>

\* The stopper of a LoRA run: the flag becomes an interrupt, once.
\* (Mistaken: and its memory is anybody's.)
InterruptAndLetGo(k) ==
    /\ up /\ ~k.told /\ k.ours
    /\ run[k.job].at = "working" /\ run[k.job].stop
    /\ kids' = (kids \ {k}) \cup {[k EXCEPT !.told = TRUE]}
    /\ hold' = hold \ {k.job}
    /\ UNCHANGED <<diskVars, lifeVars, lock, watch, boundVars, starters, run>>
Interrupt(k) ==
    /\ up /\ ~k.told /\ k.ours
    /\ run[k.job].at = "working" /\ run[k.job].stop
    /\ kids' = (kids \ {k}) \cup {[k EXCEPT !.told = TRUE]}
    /\ UNCHANGED <<diskVars, lifeVars, lock, watch, boundVars, starters, run, hold>>

\* The run's own watch, each second: a parent that is another than it was is
\* a server that is gone.
Orphaned(k) ==
    /\ ~k.told /\ k.pid # pid
    /\ kids' = (kids \ {k}) \cup {[k EXCEPT !.told = TRUE]}
    /\ UNCHANGED <<diskVars, lifeVars, lock, watch, boundVars, starters, run, hold>>

\* How a piece of work may end. A flag is heard by a training run at its next
\* step, if there is one; by the others when they look, which is at the end.
Outcomes(i) ==
    {"failed"}
        \cup (IF run[i].stop THEN {"cancelled"} ELSE {"done"})
        \cup (IF run[i].kind = "train" THEN {"done"} ELSE {})

\* A thread's or a task's work ends, or it panics, which nobody hears of.
\* (Mistaken: it leaves the registry before its row is written.)
EndsAndLeaves(i) ==
    /\ up /\ run[i].at = "working" /\ run[i].kind # "tune"
    /\ \E end \in Outcomes(i) :
        run' = [run EXCEPT ![i].at = "ending", ![i].end = end, ![i].live = FALSE]
    /\ UNCHANGED <<diskVars, lifeVars, lock, watch, boundVars, starters, hold, kids>>
Ends(i) ==
    /\ up /\ run[i].at = "working" /\ run[i].kind # "tune"
    /\ \/ /\ \E end \in Outcomes(i) : run' = [run EXCEPT ![i].at = "ending", ![i].end = end]
          /\ UNCHANGED faults
       \/ /\ AFault
          /\ run' = [run EXCEPT ![i].at = "stuck"]
    /\ UNCHANGED <<diskVars, lifeVars, lock, watch, calls, crashes, starters, hold, kids>>

\* A LoRA run's process ends. The thread that waits for it, if this server
\* has one, then gives its memory back.
IsWaitedFor(k) == k.ours /\ run[k.job].at = "working"
KidEnds(k) ==
    /\ IF IsWaitedFor(k)
       THEN /\ \E end \in {"failed"} \cup (IF k.told THEN {"cancelled"} ELSE {"done"}) :
                run' = [run EXCEPT ![k.job].at = "ending", ![k.job].end = end]
            /\ hold' = hold \ {k.job}
       ELSE UNCHANGED <<run, hold>>
    /\ kids' = kids \ {k}
    /\ UNCHANGED <<diskVars, lifeVars, lock, watch, boundVars, starters>>

\* finish: the row, if it can be written.
WriteEnd(i) ==
    /\ CanUseRows /\ run[i].at = "ending"
    /\ \/ SetJobRow(i, run[i].end) /\ UNCHANGED faults
       \/ AFault /\ UNCHANGED db
    /\ run' = [run EXCEPT ![i].at = "told"]
    /\ UNCHANGED <<files, dirs, config, lifeVars, lock, watch, calls, crashes, starters, hold, kids>>

\* Then the registry, and those who watch. (A LoRA run that could not be
\* started gives its memory back here.)
Unregister(i) ==
    /\ up /\ run[i].at = "told"
    /\ run' = [run EXCEPT ![i].at = "over", ![i].live = FALSE]
    /\ watch' = IF watch.of = "job" /\ watch.id = i /\ watch.sub
                THEN [watch EXCEPT !.news = run[i].end] ELSE watch
    /\ hold' = hold \ {i}
    /\ UNCHANGED <<diskVars, lifeVars, lock, boundVars, starters, kids>>

\* job_events: first the channel, then the row.
FollowJob(i) ==
    /\ up /\ watch = Nobody
    /\ JobRow(i) # "none"
    /\ ACall
    /\ watch' = [Nobody EXCEPT !.of = "job", !.id = i, !.at = "look", !.sub = run[i].live,
                               !.early = run[i].at = "created"]
    /\ UNCHANGED <<diskVars, lifeVars, lock, crashes, faults, jobVars>>
ReadJob ==
    /\ CanUseRows /\ watch.of = "job" /\ watch.at = "look"
    /\ watch' = IF watch.sub THEN [watch EXCEPT !.at = "wait"]
                ELSE [watch EXCEPT !.at = "told", !.news = JobRow(watch.id)]
    /\ UNCHANGED <<diskVars, lifeVars, lock, boundVars, jobVars>>
HearJob ==
    /\ up /\ watch.of = "job" /\ watch.at = "wait" /\ watch.news # "none"
    /\ watch' = [watch EXCEPT !.at = "told"]
    /\ UNCHANGED <<diskVars, lifeVars, lock, boundVars, jobVars>>

\* The process is gone: what it knew is, and the runs beside it are not.
JobsGone ==
    /\ starters' = {} /\ run' = [i \in JobIds |-> NoRun] /\ hold' = {}
    /\ kids' = {[k EXCEPT !.ours = FALSE] : k \in kids}

JobsRequest ==
    \/ \E kind \in Menu : AskToStart(kind)
    \/ \E i \in JobIds : CancelJob(i) \/ FollowJob(i)

JobsStep ==
    \/ \E s \in starters : SetAside(s) \/ AskAgain(s) \/ (\E i \in JobIds : CreateRow(s, i))
    \/ \E i \in JobIds : Launch(i) \/ Ends(i) \/ WriteEnd(i) \/ Unregister(i)
    \/ \E k \in kids : Interrupt(k) \/ Orphaned(k) \/ KidEnds(k)
    \/ ReadJob \/ HearJob

(***************************************************************************)
(* Properties                                                              *)
(***************************************************************************)

\* A row claims to be running only while somebody of this process is at it,
\* who will write its end: across deaths and restarts, and except where the
\* disk refused the end or a thread was not there to write it.
RunningRowsHaveMakers ==
    up => \A i \in JobIds : JobRow(i) = "running" =>
            run[i].at \in {"created", "working", "ending"} \/ faults > 0

\* Two training runs, of text or of a LoRA, are at work at once, and so is a
\* benchmark or a comparison beside an older one or a training run of text,
\* only when both had been let in before either had a row: the newer looked
\* before there was the older's. Whatever ends, is stopped or is refused in
\* between, nothing else lets it in. (training, live_kind, machine_is_busy.)
Training == {"train", "tune"}
LooksOut(newer, older) ==
    \/ newer \in Training /\ older \in Training
    \/ newer = "bench" /\ older \in {"train", "bench"}
AtWork == {i \in JobIds : run[i].at \in {"created", "working"}}
BothLooked(i, j) == run[j].seen < i
OverlapsOnlyWhenBothLooked ==
    \A i, j \in AtWork : i < j /\ LooksOut(run[j].kind, run[i].kind) => BothLooked(i, j)

\* The docs promise more: that a benchmark does not start beside any training
\* run (bench.rs:9, where jobs.rs:303 counts those of a LoRA), or beside
\* anything else on the machine (jobs.rs:311). It does, beside a LoRA run.
BenchmarksAreAlone ==
    \A i, j \in AtWork :
        i < j /\ run[j].kind = "bench" /\ run[i].kind \in Training \cup {"bench"} => BothLooked(i, j)

\* A LoRA run's memory is set aside for as long as its process lives, unless
\* nobody waits for it: its server is another, or had no thread for it.
MemoryOutlivesTheRun ==
    up => \A k \in kids : IsWaitedFor(k) => k.job \in hold

\* A watcher is told an end that is the job's, and once a job is over no
\* watcher of it is left waiting. The exception is one that looked between
\* the row and the registry, and is told that the job ended `running`.
WatchersHearTheEnd ==
    watch.of = "job" =>
        /\ watch.at = "told" => \/ run[watch.id].at = "over" /\ watch.news = run[watch.id].end
                                \/ JobRow(watch.id) = watch.news /\ watch.news # "running"
                                \/ watch.early \/ faults > 0
        /\ watch.at = "wait" /\ run[watch.id].at = "over" => watch.news # "none"
=============================================================================
