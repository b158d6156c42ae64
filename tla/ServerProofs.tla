---------------------------- MODULE ServerProofs ----------------------------
(***************************************************************************)
(* Theorems about the server over its disk (Server), for any numbers of    *)
(* jobs and videos, of requests, of deaths and of writes that fail.        *)
(***************************************************************************)
EXTENDS Server, Counting

(***************************************************************************)
(* Types                                                                   *)
(***************************************************************************)
Rows == [job : [JobIds -> JobStates], film : [VideoIds -> VideoStates],
         left : {"nothing", "database", "copies"}]
VideoFiles == VideoIds \X Extensions
Ended == {"done", "failed", "cancelled"}
Run == [at : Places, kind : JobKinds, seen : {0} \cup JobIds, live : BOOLEAN, stop : BOOLEAN, end : Ended]
Starters == [kind : Menu, at : {"asked", "held", "sure"}, seen : {0} \cup JobIds, call : 1..MaxCalls]
Kids == [job : JobIds, pid : Nat, ours : BOOLEAN, told : BOOLEAN]
Watch == [of : {"nothing", "job", "video"}, id : {0} \cup JobIds \cup VideoIds,
          at : {"rest", "look", "wait", "told", "left", "refused"}, sub : BOOLEAN,
          news : JobStates \cup {"told", "closed"}, early : BOOLEAN]
Move == [at : {"rest", "clear", "copy", "checked", "sync", "note", "config", "leave", "go"},
         how : How, todo : SUBSET VideoFiles]

DiskTyped ==
    /\ db \in [Place -> Rows] /\ files \in [Place -> SUBSET VideoFiles]
    /\ dirs \subseteq Place /\ config \in Place
LifeTyped ==
    /\ up \in BOOLEAN /\ restarting \in BOOLEAN /\ asking \in BOOLEAN /\ lock \in BOOLEAN
    /\ home \in Place /\ pid = crashes + 1
    /\ calls \in 0..MaxCalls /\ crashes \in 0..MaxCrashes /\ faults \in 0..MaxFaults
WatchTyped ==
    /\ watch \in Watch
    /\ watch.of = "job" => watch.id \in JobIds
    /\ watch.of = "video" => watch.id \in VideoIds
RunTyped ==
    /\ starters \subseteq Starters /\ run \in [JobIds -> Run]
    /\ hold = {} \/ \E x \in {Starter} \cup JobIds : hold = {x}
    /\ kids \subseteq Kids
FilmTyped == film \in [VideoIds -> FilmPlaces] /\ deleting \subseteq VideoIds /\ crossed \subseteq VideoIds
MoveTyped ==
    /\ move \in Move /\ cancel \in BOOLEAN /\ torn \in BOOLEAN
    /\ stage \in {"none", "copying", "switching", "restarting", "failed", "cancelled"}

Typed == DiskTyped /\ LifeTyped /\ WatchTyped /\ RunTyped /\ FilmTyped /\ MoveTyped

\* Ids are counted from one.
LEMMA IdsAreNumbers ==
    /\ JobIds \in SUBSET (Nat \ {0}) /\ VideoIds \in SUBSET (Nat \ {0})
    /\ Starter \notin JobIds
<1>1. Cardinality(JobIds) \in Nat /\ Cardinality(VideoIds) \in Nat
  BY StoreAssumption, FS_CardinalityType
<1> DEFINE m == Cardinality(JobIds)
           n == Cardinality(VideoIds)
<1>2. JobIds = 1..m /\ VideoIds = 1..n
  BY StoreAssumption
<1> HIDE DEF m, n
<1>3. m \in Nat /\ n \in Nat
  BY <1>1 DEF m, n
<1> QED
  BY <1>2, <1>3 DEF Starter

\* A row of a job is written, and nothing else of the database.
LEMMA JobRowIsSet ==
    ASSUME DiskTyped, LifeTyped, NEW i \in JobIds, NEW state \in JobStates, SetJobRow(i, state)
    PROVE  /\ db' \in [Place -> Rows]
           /\ \A p \in Place \ {home} : db'[p] = db[p]
           /\ \A p \in Place : /\ db'[p].film = db[p].film /\ db'[p].left = db[p].left
                               /\ \A j \in JobIds : db'[p].job[j] =
                                    IF p = home /\ j = i THEN state ELSE db[p].job[j]
<1>1. db \in [Place -> Rows] /\ home \in Place
  BY DEF DiskTyped, LifeTyped
<1> DEFINE new == [db[home] EXCEPT !.job[i] = state]
<1>2. new \in Rows /\ new.film = db[home].film /\ new.left = db[home].left
      /\ \A j \in JobIds : new.job[j] = IF j = i THEN state ELSE db[home].job[j]
  BY <1>1 DEF Rows
<1>3. db' = [db EXCEPT ![home] = new]
  BY DEF SetJobRow
<1> HIDE DEF new
<1> QED
  BY <1>1, <1>2, <1>3

\* The same of a video.
LEMMA VideoRowIsSet ==
    ASSUME DiskTyped, LifeTyped, NEW v \in VideoIds, NEW status \in VideoStates, SetVideoRow(v, status)
    PROVE  /\ db' \in [Place -> Rows]
           /\ \A p \in Place \ {home} : db'[p] = db[p]
           /\ \A p \in Place : /\ db'[p].job = db[p].job /\ db'[p].left = db[p].left
                               /\ \A w \in VideoIds : db'[p].film[w] =
                                    IF p = home /\ w = v THEN status ELSE db[p].film[w]
<1>1. db \in [Place -> Rows] /\ home \in Place
  BY DEF DiskTyped, LifeTyped
<1> DEFINE new == [db[home] EXCEPT !.film[v] = status]
<1>2. new \in Rows /\ new.job = db[home].job /\ new.left = db[home].left
      /\ \A w \in VideoIds : new.film[w] = IF w = v THEN status ELSE db[home].film[w]
  BY <1>1 DEF Rows
<1>3. db' = [db EXCEPT ![home] = new]
  BY DEF SetVideoRow
<1> HIDE DEF new
<1> QED
  BY <1>1, <1>2, <1>3

\* How many jobs there are is a number of theirs, or none.
LEMMA MadeIsOneOfThem == Made \in {0} \cup JobIds
<1> DEFINE n == Cardinality(JobIds)
           made == {i \in JobIds : JobRow(i) # "none"}
<1>1. Cardinality(made) \in Nat /\ n \in Nat /\ Cardinality(made) <= n
  BY StoreAssumption, NoLarger
<1>2. JobIds = 1..n
  BY StoreAssumption
<1> HIDE DEF n, made
<1> DEFINE m == Cardinality(made)
<1>3. m \in {0} \cup 1..n
  <2>1. m \in Nat /\ n \in Nat /\ m <= n
    BY <1>1
  <2> HIDE DEF m
  <2> QED
    BY <2>1
<1> QED
  BY <1>2, <1>3 DEF Made, made

\* Whatever the jobs do keeps the types.
LEMMA JobsKeepTypes ==
    ASSUME Typed, JobsRequest \/ JobsStep, UNCHANGED <<filmVars, moveVars>>
    PROVE  Typed'
<1> USE DEF Typed, DiskTyped, LifeTyped, WatchTyped, RunTyped, FilmTyped, MoveTyped,
            diskVars, lifeVars, boundVars, jobVars, filmVars, moveVars
<1>1. ASSUME NEW kind \in Menu, AskToStart(kind) PROVE Typed'
  BY <1>1, MadeIsOneOfThem, StoreAssumption DEF AskToStart, ACall, Starters
<1>2. ASSUME NEW i \in JobIds, CancelJob(i) PROVE Typed'
  <2>1. run' \in [JobIds -> Run]
    BY ZenonT(40), <1>2 DEF CancelJob, Run
  <2> QED
    BY <1>2, <2>1, StoreAssumption DEF CancelJob, ACall
<1>3. ASSUME NEW i \in JobIds, FollowJob(i) PROVE Typed'
  <2>1. run[i].live \in BOOLEAN /\ (run[i].at = "created") \in BOOLEAN
    BY DEF Run
  <2> DEFINE live == run[i].live
             early == run[i].at = "created"
             new == [Nobody EXCEPT !.of = "job", !.id = i, !.at = "look", !.sub = live, !.early = early]
  <2>2. watch' = new
    BY <1>3 DEF FollowJob
  <2> HIDE DEF live, early
  <2>3. new \in Watch /\ new.of = "job" /\ new.id = i
    BY ZenonT(40), <2>1 DEF Nobody, Watch, JobStates, live, early
  <2> HIDE DEF new
  <2> QED
    BY <1>3, <2>2, <2>3, StoreAssumption DEF FollowJob, ACall
<1>4. ASSUME NEW s \in starters, SetAside(s) PROVE Typed'
  BY <1>4 DEF SetAside, Starters
<1>5. ASSUME NEW s \in starters, AskAgain(s) PROVE Typed'
  <2> DEFINE made == Made
             new == [s EXCEPT !.at = "sure", !.seen = made]
  <2>1. made \in {0} \cup JobIds
    BY MadeIsOneOfThem
  <2> HIDE DEF made
  <2>2. new \in Starters
    BY <2>1 DEF Starters
  <2>3. starters' \subseteq starters \cup {new}
    BY <1>5 DEF AskAgain, made
  <2> QED
    BY <1>5, <2>2, <2>3 DEF AskAgain
<1>6. ASSUME NEW s \in starters, NEW i \in JobIds, CreateRow(s, i) PROVE Typed'
  <2>1. db' \in [Place -> Rows]
    BY <1>6, JobRowIsSet DEF CreateRow, JobStates
  <2>2. run' \in [JobIds -> Run]
    BY <1>6, JobsAssumption DEF CreateRow, NoRun, Run, Starters, JobKinds, Places, Ended
  <2> QED
    BY <1>6, <2>1, <2>2 DEF CreateRow
<1>7. ASSUME NEW i \in JobIds, Launch(i) PROVE Typed'
  <2>1. run' \in [JobIds -> Run]
    BY <1>7 DEF Launch, Registered, Run, Places, Ended
  <2>2. TheKid(i) \in Kids
    BY StoreAssumption DEF TheKid, Kids
  <2> QED
    BY <1>7, <2>1, <2>2, StoreAssumption DEF Launch, AFault
<1>8. ASSUME NEW i \in JobIds, Ends(i) PROVE Typed'
  <2>1. run' \in [JobIds -> Run]
    BY <1>8 DEF Ends, Outcomes, Run, Places, Ended
  <2> QED
    BY SMTT(30), <1>8, <2>1, StoreAssumption DEF Ends, AFault
<1>9. ASSUME NEW i \in JobIds, WriteEnd(i) PROVE Typed'
  <2>1. db' \in [Place -> Rows]
    BY <1>9, JobRowIsSet DEF WriteEnd, Run, Ended, JobStates
  <2>2. run' \in [JobIds -> Run]
    BY <1>9 DEF WriteEnd, Run, Places
  <2> QED
    BY <1>9, <2>1, <2>2, StoreAssumption DEF WriteEnd, AFault
<1>10. ASSUME NEW i \in JobIds, Unregister(i) PROVE Typed'
  <2>1. run' \in [JobIds -> Run]
    <3> DEFINE r == [run[i] EXCEPT !.at = "over", !.live = FALSE]
    <3>1. run[i] \in Run
      OBVIOUS
    <3>2. r \in Run
      BY <3>1 DEF Run, Places
    <3>3. run' = [run EXCEPT ![i] = r]
      BY <1>10 DEF Unregister
    <3> HIDE DEF r
    <3> QED
      BY <3>2, <3>3
  <2>2. watch' \in Watch /\ watch'.of = watch.of /\ watch'.id = watch.id
    BY <1>10 DEF Unregister, Run, Watch, Ended, JobStates
  <2> QED
    BY <1>10, <2>1, <2>2 DEF Unregister
<1>11. ASSUME NEW k \in kids, Interrupt(k) \/ Orphaned(k) PROVE Typed'
  <2> DEFINE told == [k EXCEPT !.told = TRUE]
  <2>1. told \in Kids
    BY DEF Kids
  <2>2. kids' = (kids \ {k}) \cup {told}
    BY <1>11 DEF Interrupt, Orphaned
  <2> HIDE DEF told
  <2>3. kids' \subseteq Kids
    BY <2>1, <2>2
  <2>4. UNCHANGED <<diskVars, lifeVars, lock, watch, boundVars, starters, run, hold>>
    BY <1>11 DEF Interrupt, Orphaned
  <2> QED
    BY <2>3, <2>4
<1>13. ASSUME NEW k \in kids, KidEnds(k) PROVE Typed'
  <2>1. k.job \in JobIds
    BY DEF Kids
  <2>2. run' \in [JobIds -> Run]
    <3>1. CASE ~IsWaitedFor(k)
      BY <1>13, <3>1 DEF KidEnds
    <3>2. ASSUME NEW end \in Ended, run' = [run EXCEPT ![k.job].at = "ending", ![k.job].end = end]
          PROVE  run' \in [JobIds -> Run]
      BY <2>1, <3>2 DEF Run, Places
    <3> QED
      BY <1>13, <3>1, <3>2 DEF KidEnds, Ended
  <2> QED
    BY <1>13, <2>1, <2>2 DEF KidEnds
<1>14. CASE ReadJob
  <2>1. JobRow(watch.id) \in JobStates
    BY <1>14 DEF ReadJob, Rows, JobRow
  <2>2. watch' \in Watch /\ watch'.of = watch.of /\ watch'.id = watch.id
    BY <1>14, <2>1 DEF ReadJob, Watch
  <2> QED
    BY <1>14, <2>2 DEF ReadJob
<1>15. CASE HearJob
  BY <1>15 DEF HearJob, Watch
<1> QED
  BY <1>1, <1>2, <1>3, <1>4, <1>5, <1>6, <1>7, <1>8, <1>9, <1>10, <1>11, <1>13, <1>14, <1>15
     DEF JobsRequest, JobsStep

\* Whatever is told to one who follows a video is news.
LEMMA TellingKeepsTypes ==
    ASSUME WatchTyped, NEW v, NEW news \in {"told", "closed"}, Told(v, news)
    PROVE  /\ WatchTyped'
           /\ watch'.of = watch.of /\ watch'.id = watch.id /\ watch'.at = watch.at
           /\ watch'.sub = watch.sub /\ watch'.early = watch.early
           /\ watch'.news = IF watch.of = "video" /\ watch.id = v /\ watch.sub /\ BeingMade(v)
                            THEN news ELSE watch.news
BY DEF Told, WatchTyped, Watch

\* Whatever the videos do keeps the types.
LEMMA VideosKeepTypes ==
    ASSUME Typed, VideosRequest \/ VideosStep, UNCHANGED <<jobVars, moveVars>>
    PROVE  Typed'
<1> USE DEF Typed, DiskTyped, LifeTyped, RunTyped, FilmTyped, MoveTyped,
            diskVars, lifeVars, boundVars, jobVars, filmVars, moveVars
<1>1. ASSUME NEW v \in VideoIds, NEW picture \in BOOLEAN, CreateVideo(v, picture) PROVE Typed'
  <2>1. db' \in [Place -> Rows]
    BY <1>1, VideoRowIsSet DEF CreateVideo, VideoStates
  <2>2. film' \in [VideoIds -> FilmPlaces]
    BY <1>1 DEF CreateVideo, Goes, FilmPlaces
  <2> QED
    BY <1>1, <2>1, <2>2, StoreAssumption DEF CreateVideo, ACall, AFault, WatchTyped
<1>2. ASSUME NEW v \in VideoIds, DeleteRow(v) PROVE Typed'
  <2>1. db' \in [Place -> Rows]
    BY <1>2, VideoRowIsSet DEF DeleteRow, VideoStates
  <2> QED
    BY <1>2, <2>1, StoreAssumption DEF DeleteRow, ACall, WatchTyped
<1>3. ASSUME NEW v \in VideoIds, FollowVideo(v) PROVE Typed'
  <2> DEFINE made == BeingMade(v)
             early == film[v] \in {"keep", "made", "nobody"}
             new == [Nobody EXCEPT !.of = "video", !.id = v, !.at = "look", !.sub = made, !.early = early]
  <2>1. made \in BOOLEAN /\ early \in BOOLEAN
    BY DEF BeingMade
  <2>2. watch' = new
    BY <1>3 DEF FollowVideo
  <2> HIDE DEF made, early
  <2>3. new \in Watch /\ new.of = "video" /\ new.id = v
    BY <2>1 DEF Nobody, Watch, JobStates
  <2> HIDE DEF new
  <2> QED
    BY <1>3, <2>2, <2>3, StoreAssumption DEF FollowVideo, ACall, WatchTyped
<1>4. ASSUME NEW v \in VideoIds, KeepPicture(v) PROVE Typed'
  BY SMTT(30), <1>4, StoreAssumption DEF KeepPicture, Adds, Goes, AFault, FilmPlaces, VideoFiles, Extensions, WatchTyped
<1>5. ASSUME NEW v \in VideoIds, Advance(v) PROVE Typed'
  <2>1. db' \in [Place -> Rows]
    BY <1>5, VideoRowIsSet DEF Advance, VideoStates
  <2>2. WatchTyped'
    BY <1>5, TellingKeepsTypes DEF Advance, WatchTyped
  <2>3. film' \in [VideoIds -> FilmPlaces] /\ faults' \in 0..MaxFaults
    BY <1>5, StoreAssumption DEF Advance, Goes, FilmPlaces, AFault
  <2> QED
    BY <1>5, <2>1, <2>2, <2>3 DEF Advance
<1>6. ASSUME NEW v \in VideoIds, Look(v) PROVE Typed'
  <2>1. WatchTyped'
    BY <1>6, TellingKeepsTypes DEF Look
  <2> QED
    BY <1>6, <2>1 DEF Look, Adds, Goes, FilmPlaces, VideoFiles, Extensions
<1>7. ASSUME NEW v \in VideoIds, Tick(v) PROVE Typed'
  <2>1. WatchTyped'
    BY <1>7, TellingKeepsTypes DEF Tick
  <2> QED
    BY <1>7, <2>1 DEF Tick, Goes, FilmPlaces
<1>8. ASSUME NEW v \in VideoIds, Filmed(v) PROVE Typed'
  BY <1>8 DEF Filmed, Goes, FilmPlaces, WatchTyped
<1>9. ASSUME NEW v \in VideoIds, WriteVideo(v) PROVE Typed'
  BY <1>9, StoreAssumption
     DEF WriteVideo, FailedToWrite, Adds, Removes, Goes, AFault, FilmPlaces, VideoFiles, Extensions, WatchTyped
<1>10. ASSUME NEW v \in VideoIds, WritePoster(v) PROVE Typed'
  BY <1>10, StoreAssumption
     DEF WritePoster, Write, FailedToWrite, Adds, Removes, Goes, AFault, FilmPlaces, VideoFiles, Extensions, WatchTyped
<1>11. ASSUME NEW v \in VideoIds, Weigh(v) PROVE Typed'
  BY <1>11 DEF Weigh, Goes, FilmPlaces, WatchTyped
<1>12. ASSUME NEW v \in VideoIds, FinishRow(v) PROVE Typed'
  <2>1. db' \in [Place -> Rows]
    BY <1>12, VideoRowIsSet DEF FinishRow, VideoStates
  <2>2. film' \in [VideoIds -> FilmPlaces] /\ faults' \in 0..MaxFaults /\ crossed' \subseteq VideoIds
    BY <1>12, StoreAssumption DEF FinishRow, Goes, FilmPlaces, AFault
  <2> QED
    BY <1>12, <2>1, <2>2 DEF FinishRow, WatchTyped
<1>13. ASSUME NEW v \in VideoIds, CleanUp(v) PROVE Typed'
  <2>1. WatchTyped'
    BY <1>13, TellingKeepsTypes DEF CleanUp
  <2> QED
    BY <1>13, <2>1 DEF CleanUp, Removes, Goes, FilmPlaces
<1>14. ASSUME NEW v \in VideoIds, FailVideo(v) PROVE Typed'
  <2>1. db' \in [Place -> Rows]
    BY <1>14, VideoRowIsSet DEF FailVideo, VideoStates
  <2>2. WatchTyped'
    BY <1>14, TellingKeepsTypes DEF FailVideo
  <2>3. film' \in [VideoIds -> FilmPlaces] /\ faults' \in 0..MaxFaults
    BY <1>14, StoreAssumption DEF FailVideo, Goes, FilmPlaces, AFault
  <2>4. files' \in [Place -> SUBSET VideoFiles]
    BY <1>14 DEF FailVideo, Removes
  <2> QED
    BY <1>14, <2>1, <2>2, <2>3, <2>4 DEF FailVideo
<1>15. ASSUME NEW v \in VideoIds, DeleteFiles(v) PROVE Typed'
  <2>1. WatchTyped'
    BY <1>15, TellingKeepsTypes DEF DeleteFiles
  <2> QED
    BY <1>15, <2>1 DEF DeleteFiles, Removes
<1>16. CASE ReadVideo
  <2>1. WatchTyped' /\ faults' \in 0..MaxFaults
    BY <1>16, StoreAssumption DEF ReadVideo, Watch, WatchTyped, AFault
  <2> QED
    BY <1>16, <2>1 DEF ReadVideo
<1>18. ASSUME NEW v \in VideoIds, BeginFilm(v) PROVE Typed'
  BY <1>18 DEF BeginFilm, Goes, FilmPlaces, WatchTyped
<1>17. CASE HearVideo
  <2> DEFINE closed == watch.news = "closed"
             still == ~closed
  <2>1. still \in BOOLEAN /\ watch' = [watch EXCEPT !.at = "look", !.news = "none", !.sub = still]
    BY <1>17 DEF HearVideo, Again
  <2> HIDE DEF still
  <2>2. WatchTyped'
    BY <2>1 DEF Watch, JobStates, WatchTyped
  <2> QED
    BY <1>17, <2>2 DEF HearVideo
<1> QED
  BY <1>1, <1>2, <1>3, <1>4, <1>5, <1>6, <1>7, <1>8, <1>9, <1>10, <1>11, <1>12, <1>13, <1>14, <1>15,
     <1>16, <1>17, <1>18 DEF VideosRequest, VideosStep

\* What undoing a move does.
LEMMA UndoingKeepsTypes ==
    ASSUME DiskTyped, LifeTyped, MoveTyped, NEW why \in {"failed", "cancelled"}, Undo(why)
    PROVE  /\ db' \in [Place -> Rows] /\ files' \in [Place -> SUBSET VideoFiles] /\ dirs' \subseteq Place
           /\ move' = AtRest /\ lock' = FALSE /\ stage' = why /\ torn' \in BOOLEAN
           /\ db'["there"] = NoRows /\ db'["here"] = db["here"]
           /\ files'["there"] = {}
<1>1. NoRows \in Rows
  BY DEF NoRows, Rows, JobStates, VideoStates
<1>2. files["here"] \in SUBSET VideoFiles /\ files["there"] \in SUBSET VideoFiles
  BY DEF DiskTyped, Place
<1>3. db' \in [Place -> Rows] /\ db'["there"] = NoRows /\ db'["here"] = db["here"]
  BY <1>1 DEF Undo, DiskTyped, Place
<1> DEFINE renamed == move.at \in {"note", "config"} /\ move.how = "rename"
           back == renamed /\ ("here" \notin dirs \/ files["here"] = {})
           was == IF back THEN files["there"] ELSE files["here"]
<1>4. files' = [here |-> was, there |-> {}] /\ was \in SUBSET VideoFiles
  BY <1>2 DEF Undo
<1> HIDE DEF was
<1>5. files' \in [Place -> SUBSET VideoFiles] /\ files'["there"] = {}
  BY <1>4 DEF Place
<1>6. dirs' \subseteq Place
  BY DEF Undo, DiskTyped, Place
<1>7. torn' \in BOOLEAN
  <2>1. torn' = (torn \/ (renamed /\ ~back)) /\ torn \in BOOLEAN
    BY DEF Undo, MoveTyped
  <2> QED
    BY <2>1
<1> QED
  BY <1>3, <1>5, <1>6, <1>7 DEF Undo

\* Whatever the move does keeps the types.
LEMMA StorageKeepsTypes ==
    ASSUME Typed, StorageRequest \/ StorageStep, UNCHANGED jobVars
    PROVE  Typed'
<1> USE DEF Typed, DiskTyped, LifeTyped, WatchTyped, RunTyped, FilmTyped, MoveTyped,
            diskVars, lifeVars, boundVars, jobVars, filmVars, moveVars, Untouched
<1>0. AtRest \in Move /\ AtRest.at = "rest"
  BY DEF AtRest, Move, How
<1>1. ASSUME NEW how \in How, StartMove(how) PROVE Typed'
  <2> DEFINE new == [AtRest EXCEPT !.at = "clear", !.how = how]
  <2>1. new \in Move
    BY DEF AtRest, Move, How
  <2>2. move' = new
    BY <1>1 DEF StartMove
  <2> HIDE DEF new
  <2> QED
    BY <1>1, <2>1, <2>2, StoreAssumption DEF StartMove, ACall
<1>2. CASE CancelMove
  BY <1>2, StoreAssumption DEF CancelMove, ACall
<1>3. CASE ForgetPrevious
  <2>1. NoRows \in Rows
    BY DEF NoRows, Rows, JobStates, VideoStates
  <2>2. db' \in [Place -> Rows]
    BY <1>3, <2>1 DEF ForgetPrevious, Rows, Place
  <2> QED
    BY SMTT(30), <1>3, <2>2, StoreAssumption DEF ForgetPrevious, ACall
<1>4. CASE BeginCarry
  <2>1. move' \in Move
    BY <1>4 DEF BeginCarry, Move, Place
  <2> QED
    BY ZenonT(40), <1>4, <2>1 DEF BeginCarry
<1>5. CASE StopCopying
  BY <1>0, <1>5, UndoingKeepsTypes DEF StopCopying
<1>6. CASE Copied
  BY <1>6 DEF Copied, MoveTo, Move
<1>7. CASE TakeLock
  BY <1>7 DEF TakeLock, MoveTo, Move, Place
<1>8. CASE BringOver
  <2>1. files' \in [Place -> SUBSET VideoFiles] /\ dirs' \subseteq Place
    <3>1. files["here"] \in SUBSET VideoFiles
      BY DEF Place
    <3>2. CASE files' = [files EXCEPT !["there"] = files["here"]] /\ dirs' = dirs \cup {"there"}
      BY <3>1, <3>2 DEF Place
    <3>3. CASE files' = [here |-> {}, there |-> files["here"]] /\ dirs' = {"there"}
      <4> DEFINE was == files["here"]
      <4>1. files' = [here |-> {}, there |-> was] /\ was \in SUBSET VideoFiles
        BY <3>1, <3>3
      <4> HIDE DEF was
      <4> QED
        BY <3>3, <4>1 DEF Place
    <3> QED
      BY <1>8, <3>2, <3>3 DEF BringOver, Sync
  <2>2. crossed' \subseteq VideoIds
    BY <1>8 DEF BringOver, Crossing
  <2> QED
    BY SMTT(30), <1>8, <2>1, <2>2 DEF BringOver, MoveTo, Move
<1>9. CASE Remember
  <2>1. db' \in [Place -> Rows]
    BY <1>9 DEF Remember, Rows, Place
  <2> QED
    BY <1>9, <2>1 DEF Remember, MoveTo, Move
<1>10. CASE SwitchFails
  <2>1. Undo("failed") /\ faults' \in 0..MaxFaults
    BY <1>10, StoreAssumption DEF SwitchFails, AFault
  <2> QED
    BY <1>0, <1>10, <2>1, UndoingKeepsTypes DEF SwitchFails
<1>11. CASE SetDataDir
  BY <1>11 DEF SetDataDir, MoveTo, Move, Place
<1>12. CASE LeaveLock
  BY <1>12 DEF LeaveLock, MoveTo, Move
<1>13. CASE RestartInto
  BY <1>0, <1>13 DEF RestartInto
<1>14. ASSUME NEW f \in move.todo, CopyFile(f) PROVE Typed'
  <2>1. CASE f \notin files["here"]
    BY <1>0, <1>14, <2>1, UndoingKeepsTypes DEF CopyFile
  <2>2. CASE f \in files["here"]
    <3>1. files' \in [Place -> SUBSET VideoFiles] /\ dirs' \subseteq Place
      BY <1>14, <2>2 DEF CopyFile, Place
    <3>2. move' \in Move
      BY <1>14, <2>2 DEF CopyFile, Move
    <3> QED
      BY <1>14, <2>2, <3>1, <3>2 DEF CopyFile
  <2> QED
    BY <2>1, <2>2
<1> QED
  BY <1>1, <1>2, <1>3, <1>4, <1>5, <1>6, <1>7, <1>8, <1>9, <1>10, <1>11, <1>12, <1>13, <1>14
     DEF StorageRequest, StorageStep

\* So does what ends the process, and what begins it again.
LEMMA LifeKeepsTypes ==
    ASSUME Typed,
           \/ (AskRestart(Busy) \/ BeginRestart \/ Boot) /\ UNCHANGED <<jobVars, filmVars, moveVars>>
           \/ ProcessEnds
    PROVE  Typed'
<1> USE DEF Typed, DiskTyped, LifeTyped, WatchTyped, RunTyped, FilmTyped, MoveTyped,
            diskVars, lifeVars, boundVars, jobVars, filmVars, moveVars
<1>1. CASE AskRestart(Busy) /\ UNCHANGED <<jobVars, filmVars, moveVars>>
  BY <1>1, StoreAssumption DEF AskRestart, ACall
<1>2. CASE BeginRestart /\ UNCHANGED <<jobVars, filmVars, moveVars>>
  BY ZenonT(40), <1>2 DEF BeginRestart
<1>3. CASE Boot /\ UNCHANGED <<jobVars, filmVars, moveVars>>
  <2> DEFINE row == db[config]
             jobs == AbandonJobs(row.job)
             films == AbandonFilms(row.film)
             new == [row EXCEPT !.job = jobs, !.film = films]
  <2>1. row \in Rows
    OBVIOUS
  <2>2. jobs \in [JobIds -> JobStates] /\ films \in [VideoIds -> VideoStates]
    BY <2>1 DEF AbandonJobs, AbandonFilms, JobStates, VideoStates, Rows
  <2>3. db' = [db EXCEPT ![config] = new]
    BY <1>3, <2>1 DEF Boot, Rows
  <2> HIDE DEF jobs, films
  <2>4. new \in Rows
    BY <2>1, <2>2 DEF Rows
  <2> HIDE DEF new
  <2>5. db' \in [Place -> Rows]
    BY <2>3, <2>4
  <2> QED
    BY SMTT(30), <1>3, <2>5 DEF Boot
<1>4. CASE ProcessEnds
  <2>1. UNCHANGED <<diskVars, home, calls, faults>> /\ watch' = Nobody
        /\ up' = FALSE /\ restarting' = FALSE /\ asking' = FALSE /\ lock' = FALSE
    BY <1>4 DEF ProcessEnds, Die, Exec, Gone
  <2>2. pid' = crashes' + 1 /\ crashes' \in 0..MaxCrashes
    BY <1>4, StoreAssumption DEF ProcessEnds, Die, Exec
  <2>3. Nobody \in Watch /\ Nobody.of = "nothing"
    BY DEF Nobody, Watch, JobStates
  <2>4. RunTyped'
    <3>1. NoRun \in Run
      BY DEF NoRun, Run, Places, JobKinds, Ended
    <3>2. \A k \in kids : [k EXCEPT !.ours = FALSE] \in Kids
      BY DEF Kids
    <3>3. run' = [i \in JobIds |-> NoRun] /\ starters' = {} /\ hold' = {}
          /\ kids' = {[k EXCEPT !.ours = FALSE] : k \in kids}
      BY <1>4 DEF ProcessEnds, JobsGone
    <3> QED
      BY <3>1, <3>2, <3>3
  <2>5. FilmTyped'
    BY <1>4 DEF ProcessEnds, VideosGone, FilmPlaces
  <2>6. MoveTyped'
    <3>1. AtRest \in Move
      BY DEF AtRest, Move, How
    <3> DEFINE cut == move.at \in {"note", "config"} /\ move.how = "rename"
    <3>2. torn' = (torn \/ cut)
      BY <1>4 DEF ProcessEnds, StorageGone
    <3>3. torn' \in BOOLEAN
      BY <3>2
    <3> QED
      BY <1>4, <3>1, <3>3 DEF ProcessEnds, StorageGone
  <2> QED
    BY <2>1, <2>2, <2>3, <2>4, <2>5, <2>6
<1> QED
  BY <1>1, <1>2, <1>3, <1>4

\* Every step of the server keeps the types.
LEMMA TypedNext == Typed /\ [Next]_vars => Typed'
<1> SUFFICES ASSUME Typed, [Next]_vars PROVE Typed'
  OBVIOUS
<1>1. CASE UNCHANGED vars
  BY <1>1 DEF vars, diskVars, lifeVars, boundVars, jobVars, filmVars, moveVars,
     Typed, DiskTyped, LifeTyped, WatchTyped, RunTyped, FilmTyped, MoveTyped
<1> QED
  BY <1>1, JobsKeepTypes, VideosKeepTypes, StorageKeepsTypes, LifeKeepsTypes DEF Next

\* The server begins with its types.
LEMMA TypedInit == Init => Typed
<1> SUFFICES ASSUME Init PROVE Typed
  OBVIOUS
<1> USE DEF Init
<1>1. DiskTyped
  <2>1. NoRows \in Rows /\ FirstRows \in Rows
    BY DEF NoRows, FirstRows, Rows, JobStates, VideoStates
  <2>2. UNION {Whole(v) : v \in Kept} \in SUBSET VideoFiles
    BY StoreAssumption DEF Whole, VideoFiles, Extensions
  <2> QED
    BY <2>1, <2>2 DEF StoreInit, DiskTyped, Place
<1>2. LifeTyped
  <2>1. /\ up = TRUE /\ pid = 1 /\ home = "here" /\ restarting = FALSE /\ asking = FALSE /\ lock = FALSE
        /\ calls = 0 /\ crashes = 0 /\ faults = 0
    BY DEF StoreInit
  <2>2. 0 \in 0..MaxCalls /\ 0 \in 0..MaxCrashes /\ 0 \in 0..MaxFaults
    BY StoreAssumption
  <2>3. pid = crashes + 1 /\ home \in Place
    BY <2>1 DEF Place
  <2>4. up \in BOOLEAN /\ restarting \in BOOLEAN /\ asking \in BOOLEAN /\ lock \in BOOLEAN
    BY <2>1
  <2>5. calls \in 0..MaxCalls /\ crashes \in 0..MaxCrashes /\ faults \in 0..MaxFaults
    BY <2>1, <2>2
  <2> QED
    BY <2>3, <2>4, <2>5 DEF LifeTyped
<1>3. WatchTyped
  BY DEF StoreInit, WatchTyped, Nobody, Watch, JobStates
<1>4. RunTyped
  BY DEF JobsInit, RunTyped, NoRun, Run, Places, JobKinds, Ended
<1>5. FilmTyped
  BY DEF VideosInit, FilmTyped, FilmPlaces
<1>6. MoveTyped
  BY DEF StorageInit, MoveTyped, AtRest, Move, How
<1> QED
  BY <1>1, <1>2, <1>3, <1>4, <1>5, <1>6 DEF Typed

\* What is held for a LoRA run is one amount, of types the runs check.
LEMMA TypedIsTypeOK == Typed => TypeOK
<1> SUFFICES ASSUME Typed PROVE TypeOK
  OBVIOUS
<1>1. StoreTypeOK
  <2>1. {up, restarting, asking, lock} \subseteq BOOLEAN
    BY Zenon DEF Typed, LifeTyped
  <2>2. watch.id \in {0} \cup JobIds \cup VideoIds
    BY DEF Typed, WatchTyped, Watch
  <2>3. pid \in 1..MaxCrashes + 1
    BY StoreAssumption DEF Typed, LifeTyped
  <2> QED
    BY <2>1, <2>2, <2>3 DEF StoreTypeOK, Typed, DiskTyped, LifeTyped, Rows, VideoFiles
<1>2. JobsTypeOK
  <2>1. Cardinality(hold) <= 1 /\ hold \subseteq {Starter} \cup JobIds
    <3>1. CASE hold = {}
      BY <3>1, FS_EmptySet
    <3>2. ASSUME NEW x \in {Starter} \cup JobIds, hold = {x} PROVE Cardinality(hold) = 1
      BY <3>2, FS_Singleton
    <3> QED
      BY <3>1, <3>2 DEF Typed, RunTyped
  <2>2. run \in [JobIds -> [at : Places, kind : JobKinds, seen : {0} \cup JobIds, live : BOOLEAN,
                           stop : BOOLEAN, end : JobStates]]
    BY DEF Typed, RunTyped, Run, Ended, JobStates
  <2> QED
    BY <2>1, <2>2 DEF JobsTypeOK, Typed, RunTyped, Starters, Kids
<1>3. VideosTypeOK
  BY DEF VideosTypeOK, Typed, FilmTyped
<1>4. StorageTypeOK
  <2>1. {cancel, torn} \subseteq BOOLEAN
    BY Zenon DEF Typed, MoveTyped
  <2> QED
    BY <2>1 DEF StorageTypeOK, Typed, MoveTyped, Move, VideoFiles
<1> QED
  BY <1>1, <1>2, <1>3, <1>4 DEF TypeOK

(***************************************************************************)
(* Who writes which rows                                                   *)
(*                                                                         *)
(* A process that is down knows nothing. What moves is the directory the   *)
(* server is in, into one that has no rows until the switch; and what a    *)
(* move left behind is only known where it went to.                        *)
(***************************************************************************)
Idle ==
    ~up => /\ starters = {} /\ run = [i \in JobIds |-> NoRun] /\ hold = {}
           /\ \A k \in kids : ~k.ours
           /\ film = [v \in VideoIds |-> "none"]
           /\ move = AtRest /\ watch = Nobody

MoveIsHere ==
    /\ db["here"].left = "nothing"
    /\ move.at # "rest" => home = "here"
    /\ move.at \in {"clear", "copy", "checked"} => db["there"] = NoRows

\* A row that is given next is none before, and all below it are something.
LEMMA NextIsFree ==
    ASSUME DiskTyped, LifeTyped
    PROVE  /\ \A i \in NextIn(db[home].job) :
                /\ i \in JobIds /\ db[home].job[i] = "none"
                /\ \A h \in JobIds : h < i => db[home].job[h] # "none"
           /\ \A v \in NextIn(db[home].film) : v \in VideoIds /\ db[home].film[v] = "none"
<1>1. ASSUME NEW rows, NEW Ids \in SUBSET Nat, DOMAIN rows = Ids, NEW i \in NextIn(rows)
      PROVE  i \in Ids /\ rows[i] = "none" /\ \A h \in Ids : h < i => rows[h] # "none"
  <2> DEFINE free == {j \in DOMAIN rows : rows[j] = "none"}
  <2>1. free # {} /\ i = Min(free)
    BY DEF NextIn
  <2>2. free \in SUBSET Nat
    BY <1>1
  <2> HIDE DEF free
  <2>3. \E x \in free : \A y \in free : x <= y
    BY <2>1, <2>2, HasLeast
  <2>4. i \in free /\ \A y \in free : i <= y
    BY <2>1, <2>3 DEF Min
  <2>5. \A y \in Nat : i <= y => ~(y < i)
    BY <2>2, <2>4
  <2> QED
    BY <1>1, <2>4, <2>5 DEF free
<1>2. db[home].job \in [JobIds -> JobStates] /\ db[home].film \in [VideoIds -> VideoStates]
  BY DEF DiskTyped, LifeTyped, Rows
<1>3. JobIds \in SUBSET Nat /\ VideoIds \in SUBSET Nat
  BY IdsAreNumbers
<1> DEFINE jobs == db[home].job
           films == db[home].film
<1>4. DOMAIN jobs = JobIds /\ DOMAIN films = VideoIds
  BY <1>2
<1> HIDE DEF jobs, films
<1>5. /\ \A i \in NextIn(jobs) : /\ i \in JobIds /\ jobs[i] = "none"
                                 /\ \A h \in JobIds : h < i => jobs[h] # "none"
      /\ \A v \in NextIn(films) : v \in VideoIds /\ films[v] = "none"
  BY <1>1, <1>3, <1>4
<1> QED
  BY <1>5 DEF jobs, films

\* What each part does to the rows of the jobs and of the videos in a place.
SameJobs(p) == db'[p].job = db[p].job
SameFilms(p) == db'[p].film = db[p].film
SameLeft(p) == db'[p].left = db[p].left

\* The jobs write rows of their own where the server is: a new one, or the
\* end of one whose work has ended.
LEMMA JobsWriteJobs ==
    ASSUME Typed, JobsRequest \/ JobsStep
    PROVE  /\ UNCHANGED <<config, files, dirs, up, pid, home, restarting, asking, lock>>
           /\ faults' >= faults
           /\ \A p \in Place \ {home} : db'[p] = db[p]
           /\ \A p \in Place : SameFilms(p) /\ SameLeft(p)
           /\ \A i \in JobIds : \/ JobRow(i)' = JobRow(i)
                                \/ /\ JobRow(i) = "none" /\ JobRow(i)' = "running"
                                   /\ \A h \in JobIds : h < i => JobRow(h) # "none"
                                \/ run[i].at = "ending" /\ JobRow(i)' = run[i].end
<1> USE DEF Typed, DiskTyped, LifeTyped, RunTyped, diskVars, lifeVars, boundVars, JobRow, SameFilms, SameLeft
<1>1. ASSUME NEW s \in starters, NEW i \in JobIds, CreateRow(s, i)
      PROVE  db[home].job[i] = "none" /\ \A h \in JobIds : h < i => db[home].job[h] # "none"
  BY <1>1, NextIsFree DEF CreateRow
<1>2. ASSUME NEW s \in starters, NEW i \in JobIds, CreateRow(s, i) PROVE SetJobRow(i, "running") /\ "running" \in JobStates
  BY <1>2 DEF CreateRow, JobStates
<1>3. ASSUME NEW s \in starters, NEW i \in JobIds, CreateRow(s, i)
      PROVE  /\ \A p \in Place \ {home} : db'[p] = db[p]
             /\ \A p \in Place : SameFilms(p) /\ SameLeft(p)
             /\ \A j \in JobIds : db'[home].job[j] = IF j = i THEN "running" ELSE db[home].job[j]
  BY <1>2, <1>3, JobRowIsSet
<1>4. ASSUME NEW i \in JobIds, WriteEnd(i)
      PROVE  /\ run[i].at = "ending" /\ faults' >= faults
             /\ \A p \in Place \ {home} : db'[p] = db[p]
             /\ \A p \in Place : SameFilms(p) /\ SameLeft(p)
             /\ \A j \in JobIds : db'[home].job[j] = db[home].job[j] \/ (j = i /\ db'[home].job[j] = run[i].end)
  <2>1. run[i].at = "ending" /\ faults' >= faults /\ (SetJobRow(i, run[i].end) \/ UNCHANGED db)
    BY <1>4, StoreAssumption DEF WriteEnd, AFault
  <2>2. run[i].end \in JobStates
    BY DEF Run, Ended, JobStates
  <2>3. CASE UNCHANGED db
    BY <2>1, <2>3
  <2>4. CASE SetJobRow(i, run[i].end)
    BY <2>1, <2>2, <2>4, JobRowIsSet
  <2> QED
    BY <2>1, <2>3, <2>4
<1>5. ASSUME NEW s \in starters, NEW i \in JobIds, CreateRow(s, i)
      PROVE  UNCHANGED <<config, files, dirs, up, pid, home, restarting, asking, lock, faults>>
  BY <1>5 DEF CreateRow
<1>6. ASSUME NEW i \in JobIds, WriteEnd(i)
      PROVE  UNCHANGED <<config, files, dirs, up, pid, home, restarting, asking, lock>>
  BY <1>6 DEF WriteEnd
<1>7. \/ \E s \in starters, i \in JobIds : CreateRow(s, i)
      \/ \E i \in JobIds : WriteEnd(i)
      \/ UNCHANGED <<diskVars, lifeVars, lock>> /\ faults' >= faults
  <2> DEFINE Stays == UNCHANGED <<diskVars, lifeVars, lock>> /\ faults' >= faults
  <2>1. ASSUME NEW kind, AskToStart(kind) PROVE Stays
    BY <2>1, StoreAssumption DEF AskToStart
  <2>2. ASSUME NEW i, CancelJob(i) \/ FollowJob(i) \/ Unregister(i) PROVE Stays
    BY <2>2, StoreAssumption DEF CancelJob, FollowJob, Unregister
  <2>3. ASSUME NEW i, Launch(i) \/ Ends(i) PROVE Stays
    BY <2>3, StoreAssumption DEF Launch, Ends, AFault
  <2>4. ASSUME NEW s, SetAside(s) \/ AskAgain(s) PROVE Stays
    BY <2>4, StoreAssumption DEF SetAside, AskAgain
  <2>5. ASSUME NEW k, Interrupt(k) \/ Orphaned(k) \/ KidEnds(k) PROVE Stays
    BY <2>5, StoreAssumption DEF Interrupt, Orphaned, KidEnds
  <2>6. CASE ReadJob \/ HearJob
    BY <2>6, StoreAssumption DEF ReadJob, HearJob
  <2>7. Stays \/ (\E s \in starters, i \in JobIds : CreateRow(s, i)) \/ (\E i \in JobIds : WriteEnd(i))
    BY <2>1, <2>2, <2>3, <2>4, <2>5, <2>6 DEF JobsRequest, JobsStep
  <2> QED
    BY <2>7
<1>8. CASE UNCHANGED <<diskVars, lifeVars, lock>> /\ faults' >= faults
  BY <1>8
<1>9. CASE \E s \in starters, i \in JobIds : CreateRow(s, i)
  <2>1. PICK s \in starters, i \in JobIds : CreateRow(s, i)
    BY <1>9
  <2>2. UNCHANGED <<config, files, dirs, up, pid, home, restarting, asking, lock, faults>> /\ faults' >= faults
    BY <1>5, <2>1, StoreAssumption
  <2> QED
    BY <1>1, <1>3, <2>1, <2>2
<1>10. CASE \E i \in JobIds : WriteEnd(i)
  <2>1. PICK i \in JobIds : WriteEnd(i)
    BY <1>10
  <2> QED
    BY <1>4, <1>6, <2>1
<1> QED
  BY <1>7, <1>8, <1>9, <1>10

FilmIsWriting == {"film", "row", "fail"}
\* The videos write rows of their own there: a new one, one that is being
\* made, or one that is deleted.
LEMMA VideosWriteVideos ==
    ASSUME Typed, VideosRequest \/ VideosStep
    PROVE  /\ UNCHANGED <<config, up, pid, home, restarting, asking, lock>>
           /\ faults' >= faults
           /\ \A p \in Place \ {home} : db'[p] = db[p]
           /\ \A p \in Place : SameJobs(p) /\ SameLeft(p)
           /\ \A v \in VideoIds : \/ VideoRow(v)' = VideoRow(v)
                                  \/ VideoRow(v) = "none" /\ VideoRow(v)' = "queued"
                                  \/ film[v] \in FilmIsWriting
                                  \/ VideoRow(v) # "none" /\ VideoRow(v)' = "deleted"
<1> USE DEF Typed, DiskTyped, LifeTyped, FilmTyped, diskVars, lifeVars, boundVars, VideoRow, SameJobs, SameLeft
<1>1. ASSUME NEW v \in VideoIds, v \in NextIn(db[home].film) PROVE db[home].film[v] = "none"
  BY <1>1, NextIsFree
<1> DEFINE Stays == UNCHANGED <<config, up, pid, home, restarting, asking, lock>> /\ faults' >= faults
           Writes == \E v \in VideoIds, status \in VideoStates :
                        /\ SetVideoRow(v, status)
                        /\ \/ v \in NextIn(db[home].film) /\ status = "queued"
                           \/ film[v] \in FilmIsWriting
                           \/ db[home].film[v] # "none" /\ status = "deleted"
<1>2. Stays /\ (UNCHANGED db \/ Writes)
  <2>1. ASSUME NEW v \in VideoIds, NEW picture, CreateVideo(v, picture) \/ DeleteRow(v) \/ FollowVideo(v)
        PROVE  Stays /\ (UNCHANGED db \/ Writes)
    BY <2>1, StoreAssumption DEF CreateVideo, DeleteRow, FollowVideo, VideoStates, RowIsThere, AFault
  <2>2. ASSUME NEW v \in VideoIds, KeepPicture(v) \/ BeginFilm(v) \/ Look(v) \/ Tick(v) \/ Filmed(v)
                 \/ WriteVideo(v) \/ WritePoster(v) \/ Weigh(v) \/ CleanUp(v) \/ DeleteFiles(v)
        PROVE  Stays /\ UNCHANGED db
    BY <2>2, StoreAssumption
       DEF KeepPicture, BeginFilm, Look, Tick, Filmed, WriteVideo, WritePoster, Write, Weigh, CleanUp,
           DeleteFiles, AFault, FailedToWrite
  <2>3. ASSUME NEW v \in VideoIds, Advance(v) \/ FinishRow(v) \/ FailVideo(v)
        PROVE  Stays /\ (UNCHANGED db \/ Writes)
    BY <2>3, StoreAssumption DEF Advance, FinishRow, FailVideo, VideoStates, FilmIsWriting, AFault
  <2>4. CASE ReadVideo \/ HearVideo
    BY <2>4, StoreAssumption DEF ReadVideo, HearVideo, AFault
  <2> QED
    BY <2>1, <2>2, <2>3, <2>4 DEF VideosRequest, VideosStep
<1>3. ASSUME NEW v \in VideoIds, NEW status \in VideoStates, SetVideoRow(v, status)
      PROVE  /\ \A p \in Place \ {home} : db'[p] = db[p]
             /\ \A p \in Place : SameJobs(p) /\ SameLeft(p)
             /\ \A w \in VideoIds : db'[home].film[w] = IF w = v THEN status ELSE db[home].film[w]
  BY <1>3, VideoRowIsSet
<1> QED
  BY <1>1, <1>2, <1>3

\* A move, and what ends one, writes no row where the server is, and only
\* the switch writes any where there were some.
LEMMA StorageWritesElsewhere ==
    ASSUME Typed, MoveIsHere, StorageRequest \/ StorageStep
    PROVE  /\ UNCHANGED <<up, pid, home, film, watch>>
           /\ faults' >= faults
           /\ db'[home].job = db[home].job /\ db'[home].film = db[home].film
           /\ \A p \in Place : db'[p] = NoRows \/ db[p] = NoRows \/ (SameJobs(p) /\ SameFilms(p))
           /\ \A p \in Place : (SameJobs(p) \/ db'[p] = NoRows \/ db'[p] = db["here"])
           /\ MoveIsHere'
<1> USE DEF Typed, DiskTyped, LifeTyped, MoveTyped, diskVars, lifeVars, boundVars, filmVars, moveVars, Untouched,
            SameJobs, SameFilms
<1>0. AtRest.at = "rest" /\ db \in [Place -> Rows] /\ Place = {"here", "there"}
  BY DEF AtRest, Place
<1> DEFINE Goal == /\ UNCHANGED <<up, pid, home, film, watch>>
                   /\ faults' >= faults
                   /\ db'[home].job = db[home].job /\ db'[home].film = db[home].film
                   /\ \A p \in Place : db'[p] = NoRows \/ db[p] = NoRows \/ (SameJobs(p) /\ SameFilms(p))
                   /\ \A p \in Place : (SameJobs(p) \/ db'[p] = NoRows \/ db'[p] = db["here"])
                   /\ MoveIsHere'
<1>1. ASSUME NEW how \in How, StartMove(how) PROVE Goal
  <2>1. home = "here" /\ db["there"] = NoRows /\ db' = db /\ home' = home
    BY <1>1 DEF StartMove
  <2> QED
    BY <1>0, <1>1, <2>1, StoreAssumption DEF StartMove, MoveIsHere
<1>2. CASE CancelMove \/ BeginCarry \/ Copied
  BY <1>0, <1>2, StoreAssumption DEF CancelMove, BeginCarry, Copied, MoveTo, MoveIsHere, Move
<1>3. CASE ForgetPrevious
  <2>1. home = "there"
    BY <1>0, <1>3 DEF ForgetPrevious, MoveIsHere
  <2>2. db'["here"] = NoRows /\ NoRows.left = "nothing" /\ db'["there"].job = db["there"].job
        /\ db'["there"].film = db["there"].film
    BY <1>0, <1>3, <2>1 DEF ForgetPrevious, Rows, NoRows
  <2> QED
    BY <1>0, <1>3, <2>1, <2>2, StoreAssumption DEF ForgetPrevious, MoveIsHere
<1>4. ASSUME NEW why \in {"failed", "cancelled"}, Undo(why), move.at # "rest", faults' >= faults,
             UNCHANGED config, Untouched
      PROVE  Goal
  <2>1. home = "here" /\ db'["there"] = NoRows /\ db'["here"] = db["here"] /\ move' = AtRest
    BY <1>4, UndoingKeepsTypes DEF MoveIsHere
  <2> QED
    BY <1>0, <1>4, <2>1 DEF MoveIsHere
<1>5. CASE StopCopying \/ SwitchFails
  <2>1. \E why \in {"failed", "cancelled"} : Undo(why)
    BY <1>5 DEF StopCopying, SwitchFails
  <2>2. move.at # "rest" /\ faults' >= faults /\ UNCHANGED config /\ Untouched
    BY <1>5, StoreAssumption DEF StopCopying, SwitchFails, AFault
  <2> QED
    BY <1>4, <2>1, <2>2
<1>6. ASSUME NEW f \in move.todo, CopyFile(f) PROVE Goal
  <2>1. CASE f \notin files["here"]
    BY <1>4, <1>6, <2>1, StoreAssumption DEF CopyFile
  <2>2. CASE f \in files["here"]
    BY <1>0, <1>6, <2>2, StoreAssumption DEF CopyFile, MoveIsHere, Move
  <2> QED
    BY <2>1, <2>2
<1>7. CASE TakeLock
  <2>1. home = "here" /\ db["there"] = NoRows /\ db'["there"] = db["here"] /\ db'["here"] = db["here"]
    BY <1>0, <1>7 DEF TakeLock, MoveIsHere
  <2> QED
    BY <1>0, <1>7, <2>1, StoreAssumption DEF TakeLock, MoveIsHere, MoveTo, Move
<1>8. CASE BringOver \/ SetDataDir \/ LeaveLock \/ RestartInto
  BY <1>0, <1>8, StoreAssumption DEF BringOver, SetDataDir, LeaveLock, RestartInto, MoveTo, MoveIsHere, Move
<1>9. CASE Remember
  <2>1. home = "here" /\ db'["here"] = db["here"] /\ db'["there"].job = db["there"].job
        /\ db'["there"].film = db["there"].film
    BY <1>0, <1>9 DEF Remember, MoveIsHere, Rows
  <2> QED
    BY <1>0, <1>9, <2>1, StoreAssumption DEF Remember, MoveIsHere, MoveTo, Move
<1>10. Goal
  BY <1>1, <1>2, <1>3, <1>5, <1>6, <1>7, <1>8, <1>9 DEF StorageRequest, StorageStep
<1> QED
  BY <1>10

(***************************************************************************)
(* Jobs                                                                    *)
(***************************************************************************)

\* How a job may get on, in a step of the jobs': it stays where it is, is
\* made, begins, ends its work, has its end written or refused, or is over.
GetsOn(i) ==
    /\ run'[i].kind = run[i].kind /\ run'[i].seen = run[i].seen
    /\ \/ /\ run'[i].at = run[i].at /\ run'[i].live = run[i].live /\ run'[i].end = run[i].end
          /\ JobRow(i)' = JobRow(i)
       \/ /\ run[i].at = "created" /\ run'[i].at \in {"working", "ending", "stuck"} /\ run'[i].live
          /\ run'[i].at = "stuck" => faults' > 0
          /\ JobRow(i)' = JobRow(i)
       \/ /\ run[i].at = "working" /\ run'[i].at \in {"ending", "stuck"} /\ run'[i].live = run[i].live
          /\ run'[i].at = "stuck" => faults' > 0
          /\ JobRow(i)' = JobRow(i)
       \/ /\ run[i].at = "ending" /\ run'[i].at = "told"
          /\ run'[i].live = run[i].live /\ run'[i].end = run[i].end
          /\ JobRow(i)' = run[i].end \/ (JobRow(i)' = JobRow(i) /\ faults' > 0)
       \/ /\ run[i].at = "told" /\ run'[i].at = "over" /\ ~run'[i].live /\ run'[i].end = run[i].end
          /\ JobRow(i)' = JobRow(i)
IsMade(i) ==
    /\ JobRow(i) = "none" /\ JobRow(i)' = "running"
    /\ run'[i].at = "created" /\ ~run'[i].live
    /\ \E s \in starters : run'[i].kind = s.kind /\ run'[i].seen = s.seen

\* A job that is not touched stays where it is.
LEMMA LeftAlone ==
    ASSUME NEW i \in JobIds, run'[i] = run[i], JobRow(i)' = JobRow(i)
    PROVE  GetsOn(i)
BY DEF GetsOn

\* Every step of the jobs makes one or gets one on.
LEMMA JobsGetOn ==
    ASSUME Typed, Idle, JobsRequest \/ JobsStep
    PROVE  \A i \in JobIds : GetsOn(i) \/ IsMade(i)
<1> DEFINE Goal == \A i \in JobIds : GetsOn(i) \/ IsMade(i)
<1>0. /\ run \in [JobIds -> Run] /\ db \in [Place -> Rows] /\ home \in Place
      /\ faults \in Nat /\ starters \subseteq Starters /\ kids \subseteq Kids
  BY StoreAssumption DEF Typed, RunTyped, DiskTyped, LifeTyped
<1>1. ASSUME UNCHANGED <<db, home>>, NEW i \in JobIds, GetsOn(i),
             \A j \in JobIds \ {i} : run'[j] = run[j]
      PROVE  Goal
  BY <1>1, LeftAlone DEF JobRow
<1>2. ASSUME UNCHANGED <<db, home, run>> PROVE Goal
  BY <1>2, LeftAlone DEF JobRow
<1>3. ASSUME NEW kind, AskToStart(kind) PROVE Goal
  BY <1>2, <1>3 DEF AskToStart, diskVars, lifeVars
<1>4. ASSUME NEW i \in JobIds, FollowJob(i) PROVE Goal
  BY <1>2, <1>4 DEF FollowJob, diskVars, lifeVars, jobVars
<1>5. ASSUME NEW s, SetAside(s) \/ AskAgain(s) PROVE Goal
  BY <1>2, <1>5 DEF SetAside, AskAgain, diskVars, lifeVars
<1>6. ASSUME NEW k, Interrupt(k) \/ Orphaned(k) PROVE Goal
  BY <1>2, <1>6 DEF Interrupt, Orphaned, diskVars, lifeVars
<1>7. CASE ReadJob \/ HearJob
  BY <1>2, <1>7 DEF ReadJob, HearJob, diskVars, lifeVars, jobVars
<1>8. ASSUME NEW i \in JobIds, CancelJob(i) PROVE Goal
  <2>1. run' = [run EXCEPT ![i].stop = TRUE] /\ UNCHANGED <<db, home>>
    BY <1>8 DEF CancelJob, diskVars, lifeVars
  <2>2. GetsOn(i) /\ \A j \in JobIds \ {i} : run'[j] = run[j]
    BY <1>0, <2>1 DEF GetsOn, JobRow, Run
  <2> QED
    BY <1>1, <2>1, <2>2
<1>9. ASSUME NEW i \in JobIds, Launch(i) PROVE Goal
  <2>1. PICK at \in {"working", "stuck", "ending"}, end \in Ended :
            Registered(i, at, end) /\ (at = "stuck" => faults' = faults + 1)
    BY <1>9 DEF Launch, AFault, Ended
  <2>2. run[i].at = "created" /\ UNCHANGED <<db, home>>
    BY <1>9 DEF Launch, diskVars, lifeVars
  <2>3. /\ run'[i].at = at /\ run'[i].kind = run[i].kind /\ run'[i].seen = run[i].seen /\ run'[i].live
        /\ \A j \in JobIds \ {i} : run'[j] = run[j]
    BY <1>0, <2>1 DEF Registered, Run
  <2>4. (at = "stuck" => faults' > 0) /\ JobRow(i)' = JobRow(i)
    BY <1>0, <2>1, <2>2 DEF JobRow
  <2>5. GetsOn(i)
    BY <2>2, <2>3, <2>4 DEF GetsOn
  <2> QED
    BY <1>1, <2>2, <2>3, <2>5
<1>10. ASSUME NEW i \in JobIds, Ends(i) PROVE Goal
  <2>1. run[i].at = "working" /\ UNCHANGED <<db, home>>
    BY <1>10 DEF Ends, diskVars, lifeVars
  <2>2. \/ \E end \in Outcomes(i) : run' = [run EXCEPT ![i].at = "ending", ![i].end = end]
        \/ run' = [run EXCEPT ![i].at = "stuck"] /\ faults' = faults + 1
    BY <1>10 DEF Ends, AFault
  <2>3. /\ run'[i].kind = run[i].kind /\ run'[i].seen = run[i].seen /\ run'[i].live = run[i].live
        /\ run'[i].at = "ending" \/ (run'[i].at = "stuck" /\ faults' = faults + 1)
        /\ \A j \in JobIds \ {i} : run'[j] = run[j]
    BY <1>0, <2>2 DEF Run
  <2>4. GetsOn(i)
    BY <1>0, <2>1, <2>3 DEF GetsOn, JobRow
  <2> QED
    BY <1>1, <2>1, <2>3, <2>4
<1>11. ASSUME NEW i \in JobIds, Unregister(i) PROVE Goal
  <2>1. /\ run[i].at = "told" /\ UNCHANGED <<db, home>>
        /\ run' = [run EXCEPT ![i].at = "over", ![i].live = FALSE]
    BY <1>11 DEF Unregister, diskVars, lifeVars
  <2>2. GetsOn(i) /\ \A j \in JobIds \ {i} : run'[j] = run[j]
    BY <1>0, <2>1 DEF GetsOn, JobRow, Run
  <2> QED
    BY <1>1, <2>1, <2>2
<1>12. ASSUME NEW k \in kids, KidEnds(k) PROVE Goal
  <2>1. UNCHANGED <<db, home>> /\ k.job \in JobIds
    BY <1>0, <1>12 DEF KidEnds, diskVars, lifeVars, Kids
  <2>2. CASE ~IsWaitedFor(k)
    BY <1>2, <1>12, <2>1, <2>2 DEF KidEnds
  <2>3. CASE IsWaitedFor(k)
    <3> DEFINE i == k.job
    <3>1. PICK end \in Ended : run' = [run EXCEPT ![i].at = "ending", ![i].end = end]
      BY <1>12, <2>3 DEF KidEnds, Ended
    <3>2. run[i].at = "working"
      BY <2>3 DEF IsWaitedFor
    <3> HIDE DEF i
    <3>3. i \in JobIds
      BY <2>1 DEF i
    <3>4. GetsOn(i) /\ \A j \in JobIds \ {i} : run'[j] = run[j]
      BY <1>0, <2>1, <3>1, <3>2, <3>3 DEF GetsOn, JobRow, Run
    <3> QED
      BY <1>1, <2>1, <3>3, <3>4
  <2> QED
    BY <2>2, <2>3
<1>13. ASSUME NEW i \in JobIds, WriteEnd(i) PROVE Goal
  <2>1. /\ run[i].at = "ending" /\ home' = home
        /\ run' = [run EXCEPT ![i].at = "told"]
        /\ SetJobRow(i, run[i].end) \/ (UNCHANGED db /\ faults' = faults + 1)
    BY <1>13 DEF WriteEnd, lifeVars, AFault
  <2>2. run[i].end \in JobStates
    BY <1>0 DEF Run, Ended, JobStates
  <2>3. /\ \A j \in JobIds \ {i} : JobRow(j)' = JobRow(j)
        /\ JobRow(i)' = run[i].end \/ (JobRow(i)' = JobRow(i) /\ faults' = faults + 1)
    <3>1. CASE SetJobRow(i, run[i].end)
      BY <1>0, <2>1, <2>2, <3>1, JobRowIsSet DEF JobRow, Typed
    <3>2. CASE UNCHANGED db /\ faults' = faults + 1
      BY <2>1, <3>2 DEF JobRow
    <3> QED
      BY <2>1, <3>1, <3>2
  <2>4. GetsOn(i) /\ \A j \in JobIds \ {i} : run'[j] = run[j]
    BY <1>0, <2>1, <2>3 DEF GetsOn, Run
  <2> QED
    BY <2>3, <2>4, LeftAlone
<1>14. ASSUME NEW s \in starters, NEW i \in JobIds, CreateRow(s, i) PROVE Goal
  <2>1. /\ SetJobRow(i, "running") /\ home' = home /\ "running" \in JobStates
        /\ run' = [run EXCEPT ![i] = [NoRun EXCEPT !.at = "created", !.kind = s.kind, !.seen = s.seen]]
    BY <1>14 DEF CreateRow, lifeVars, JobStates
  <2>2. \A j \in JobIds : JobRow(j)' = IF j = i THEN "running" ELSE JobRow(j)
    BY <1>0, <2>1, JobRowIsSet DEF JobRow, Typed
  <2>3. /\ run'[i].at = "created" /\ ~run'[i].live /\ run'[i].kind = s.kind /\ run'[i].seen = s.seen
        /\ \A j \in JobIds \ {i} : run'[j] = run[j]
    BY <1>0, <2>1 DEF NoRun
  <2>4. JobRow(i) = "none"
    BY <1>14, <2>1, <2>2, NextIsFree DEF CreateRow, JobRow, Typed
  <2>5. IsMade(i)
    BY <2>2, <2>3, <2>4 DEF IsMade
  <2> QED
    BY <2>2, <2>3, <2>5, LeftAlone
<1> QED
  BY <1>3, <1>4, <1>5, <1>6, <1>7, <1>8, <1>9, <1>10, <1>11, <1>12, <1>13, <1>14 DEF JobsRequest, JobsStep

\* A row of a job whose work goes on says `running`; whoever is somewhere has
\* a row; a row says `running` only while somebody will end it, or something
\* failed; and the registry has those whose work is or was going on.
RowsHaveRuns ==
    \A i \in JobIds :
        /\ run[i].at \in {"created", "working", "ending"} => JobRow(i) = "running"
        /\ run[i].at # "none" => JobRow(i) # "none"
        /\ up /\ JobRow(i) = "running" => run[i].at \in {"created", "working", "ending"} \/ faults > 0
        /\ run[i].live <=> run[i].at \in {"working", "ending", "told", "stuck"}

\* Rows are made in order: there is none after one that is not there.
NoGaps ==
    \A p \in Place : \A i, h \in JobIds : h < i /\ db[p].job[i] # "none" => db[p].job[h] # "none"

\* What a start, or the job it made, found in its way has ended, and whatever
\* was made since has a higher number than it saw.
Passed(i, kind) == JobRow(i) # "none" /\ (run[i].kind \in InTheWay(kind) => JobRow(i) # "running")
LookedBefore ==
    \A i \in JobIds :
        /\ \A s \in starters : i <= s.seen => Passed(i, s.kind)
        /\ \A j \in JobIds : run[j].at # "none" /\ i <= run[j].seen => Passed(i, run[j].kind)

\* Each way of getting on keeps a job's row and place together.
LEMMA GettingOnKeepsRows ==
    ASSUME Typed, Typed', RowsHaveRuns, UNCHANGED <<up, home>>, faults' >= faults,
           \A i \in JobIds : GetsOn(i) \/ IsMade(i)
    PROVE  RowsHaveRuns'
<1> SUFFICES ASSUME NEW i \in JobIds
             PROVE  /\ run'[i].at \in {"created", "working", "ending"} => JobRow(i)' = "running"
                    /\ run'[i].at # "none" => JobRow(i)' # "none"
                    /\ up' /\ JobRow(i)' = "running" => run'[i].at \in {"created", "working", "ending"} \/ faults' > 0
                    /\ run'[i].live <=> run'[i].at \in {"working", "ending", "told", "stuck"}
  BY DEF RowsHaveRuns
<1>1. /\ run[i].at \in {"created", "working", "ending"} => JobRow(i) = "running"
      /\ run[i].at # "none" => JobRow(i) # "none"
      /\ up /\ JobRow(i) = "running" => run[i].at \in {"created", "working", "ending"} \/ faults > 0
      /\ run[i].live <=> run[i].at \in {"working", "ending", "told", "stuck"}
  BY DEF RowsHaveRuns
<1>2. run[i].end \in Ended /\ faults \in Nat /\ faults' \in Nat /\ faults' >= faults
  BY StoreAssumption DEF Typed, RunTyped, Run, LifeTyped
<1>3. CASE IsMade(i)
  BY <1>3 DEF IsMade
<1>4. CASE GetsOn(i)
  BY <1>1, <1>2, <1>4 DEF GetsOn, Ended
<1> QED
  BY <1>3, <1>4

\* What was passed stays so.
LEMMA PassedForGood ==
    ASSUME Typed, RowsHaveRuns, NEW i \in JobIds, GetsOn(i) \/ IsMade(i), NEW kind, Passed(i, kind)
    PROVE  Passed(i, kind)'
<1>1. run[i].end \in Ended
  BY DEF Typed, RunTyped, Run
<1> QED
  BY <1>1 DEF Passed, GetsOn, IsMade, Ended, RowsHaveRuns

\* All the rows there are have been passed by who finds none of them in its way.
LEMMA MadeAreSeen ==
    ASSUME Typed, NoGaps, NEW kind, Clear(kind), NEW i \in JobIds, i <= Made
    PROVE  Passed(i, kind)
<1> DEFINE made == {j \in JobIds : JobRow(j) # "none"}
           n == Cardinality(JobIds)
<1>1. n \in Nat /\ JobIds = 1..n
  BY StoreAssumption, FS_CardinalityType
<1>2. made \in SUBSET (1..n)
  BY <1>1
<1>3. \A j \in made : \A h \in 1..j : h \in made
  <2>1. SUFFICES ASSUME NEW j \in made, NEW h \in 1..j PROVE h \in JobIds /\ JobRow(h) # "none"
    OBVIOUS
  <2>2. j \in JobIds /\ JobRow(j) # "none"
    OBVIOUS
  <2> HIDE DEF n
  <2>3. h \in JobIds /\ j \in Nat /\ h \in Nat /\ (h = j \/ h < j)
    BY <1>1, <2>1, <2>2
  <2> QED
    BY <2>2, <2>3 DEF NoGaps, JobRow, Typed, LifeTyped
<1> HIDE DEF n, made
<1>4. Cardinality(made) \in Nat /\ made = 1..Cardinality(made)
  BY <1>1, <1>2, <1>3, NoGap
<1>5. i \in made
  <2> DEFINE m == Cardinality(made)
  <2>1. m \in Nat /\ made = 1..m /\ i <= m /\ i \in 1..n
    BY <1>1, <1>4 DEF Made, made
  <2> HIDE DEF m
  <2> QED
    BY <1>1, <2>1
<1> QED
  BY <1>5 DEF made, Passed, Clear

\* A start is one that was there, further on, or one that has just looked.
LEMMA StartersLook ==
    ASSUME Typed, JobsRequest \/ JobsStep
    PROVE  \A s \in starters' : \/ \E t \in starters : t.kind = s.kind /\ t.seen = s.seen
                                \/ s.seen = Made /\ Clear(s.kind)
<1> DEFINE Goal == \A s \in starters' : \/ \E t \in starters : t.kind = s.kind /\ t.seen = s.seen
                                        \/ s.seen = Made /\ Clear(s.kind)
<1>0. starters \subseteq Starters
  BY DEF Typed, RunTyped
<1>1. ASSUME NEW kind \in Menu, AskToStart(kind) PROVE Goal
  BY <1>1 DEF AskToStart
<1>2. ASSUME NEW s \in starters, SetAside(s) PROVE Goal
  <2> DEFINE new == [s EXCEPT !.at = "held"]
  <2>1. new.kind = s.kind /\ new.seen = s.seen
    BY <1>0 DEF Starters
  <2>2. starters' \subseteq starters \cup {new}
    BY <1>2 DEF SetAside
  <2> QED
    BY <2>1, <2>2
<1>3. ASSUME NEW s \in starters, AskAgain(s) PROVE Goal
  <2> DEFINE made == Made
             new == [s EXCEPT !.at = "sure", !.seen = made]
  <2>1. new.kind = s.kind /\ new.seen = made
    BY <1>0 DEF Starters
  <2>2. starters' \subseteq starters \/ (starters' \subseteq starters \cup {new} /\ Clear(s.kind))
    BY <1>3 DEF AskAgain
  <2> HIDE DEF new
  <2> QED
    BY <2>1, <2>2
<1>4. starters' \subseteq starters => Goal
  OBVIOUS
<1>5. ASSUME NEW s \in starters, NEW i, CreateRow(s, i) PROVE starters' \subseteq starters
  BY <1>5 DEF CreateRow
<1>6. ASSUME NEW i, CancelJob(i) \/ FollowJob(i) \/ Launch(i) \/ Ends(i) \/ WriteEnd(i) \/ Unregister(i)
      PROVE  starters' \subseteq starters
  BY <1>6 DEF CancelJob, FollowJob, Launch, Ends, WriteEnd, Unregister, jobVars
<1>7. ASSUME NEW k, Interrupt(k) \/ Orphaned(k) \/ KidEnds(k) PROVE starters' \subseteq starters
  BY <1>7 DEF Interrupt, Orphaned, KidEnds
<1>8. ReadJob \/ HearJob => starters' \subseteq starters
  BY DEF ReadJob, HearJob, jobVars
<1> QED
  BY <1>1, <1>2, <1>3, <1>4, <1>5, <1>6, <1>7, <1>8 DEF JobsRequest, JobsStep

\* So whoever looked keeps having looked.
LEMMA GettingOnKeepsLooks ==
    ASSUME Typed, Typed', RowsHaveRuns, NoGaps, LookedBefore, JobsRequest \/ JobsStep,
           \A i \in JobIds : GetsOn(i) \/ IsMade(i)
    PROVE  LookedBefore'
<1>1. ASSUME NEW i \in JobIds, NEW s \in starters', i <= s.seen PROVE Passed(i, s.kind)'
  <2>1. CASE \E t \in starters : t.kind = s.kind /\ t.seen = s.seen
    <3>1. Passed(i, s.kind)
      BY <1>1, <2>1 DEF LookedBefore
    <3> QED
      BY <3>1, PassedForGood
  <2>2. CASE s.seen = Made /\ Clear(s.kind)
    <3>1. Passed(i, s.kind)
      BY <1>1, <2>2, MadeAreSeen
    <3> QED
      BY <3>1, PassedForGood
  <2> QED
    BY <2>1, <2>2, StartersLook
<1>2. ASSUME NEW i \in JobIds, NEW j \in JobIds, run'[j].at # "none", i <= run'[j].seen,
             NEW kind, kind = run'[j].kind
      PROVE  Passed(i, kind)'
  <2>1. CASE IsMade(j)
    <3>1. PICK s \in starters : run'[j].kind = s.kind /\ run'[j].seen = s.seen
      BY <2>1 DEF IsMade
    <3>2. Passed(i, kind)
      BY <1>2, <3>1 DEF LookedBefore
    <3> QED
      BY <3>2, PassedForGood
  <2>2. CASE GetsOn(j)
    <3>1. run[j].at # "none" /\ run'[j].kind = run[j].kind /\ run'[j].seen = run[j].seen
      BY <1>2, <2>2 DEF GetsOn
    <3>2. Passed(i, kind)
      BY <1>2, <3>1 DEF LookedBefore
    <3> QED
      BY <3>2, PassedForGood
  <2> QED
    BY <2>1, <2>2
<1>3. ASSUME NEW i \in JobIds, NEW j \in JobIds, run'[j].at # "none", i <= run'[j].seen
      PROVE  Passed(i, run[j].kind)'
  BY <1>2, <1>3 DEF Passed
<1> QED
  BY <1>1, <1>3 DEF LookedBefore

(***************************************************************************)
(* The memory that is set aside for one LoRA run at a time: a start that   *)
(* has it, a job that is made and not begun, and a run somebody waits for, *)
(* are each the one it is held for.                                        *)
(***************************************************************************)
HasMemory(s) == s.kind = "tune" /\ s.at # "asked"
MemoryIsHeld ==
    /\ \A s \in starters : s.at # "sure" => s.kind = "tune"
    /\ \A s \in starters : HasMemory(s) => hold = {Starter}
    /\ \A s, t \in starters : HasMemory(s) /\ HasMemory(t) => s = t
    /\ \A i \in JobIds : run[i].at = "created" /\ run[i].kind = "tune" => i \in hold
    /\ \A k \in kids : k.ours => /\ run[k.job].at \notin {"none", "created"}
                                 /\ run[k.job].at = "working" => k.job \in hold

\* Every step of the jobs keeps it so.
LEMMA JobsHoldMemory ==
    ASSUME Typed, Idle, RowsHaveRuns, MemoryIsHeld, JobsRequest \/ JobsStep
    PROVE  MemoryIsHeld'
<1>0. /\ run \in [JobIds -> Run] /\ starters \subseteq Starters /\ kids \subseteq Kids
      /\ db \in [Place -> Rows] /\ home \in Place /\ Starter \notin JobIds
      /\ \A k \in kids : k.job \in JobIds
  BY IdsAreNumbers DEF Typed, RunTyped, DiskTyped, LifeTyped, Kids
<1> USE DEF MemoryIsHeld, HasMemory
<1>1. ASSUME NEW kind \in Menu, AskToStart(kind) PROVE MemoryIsHeld'
  <2>1. UNCHANGED <<run, hold, kids>>
    BY <1>1 DEF AskToStart
  <2> DEFINE made == Made
             call == calls'
             new == [kind |-> kind, seen |-> made, call |-> call,
                     at |-> IF kind = "tune" THEN "asked" ELSE "sure"]
  <2>2. starters' = starters \cup {new}
    BY <1>1 DEF AskToStart
  <2> HIDE DEF made, call
  <2>3. (new.at # "sure" => new.kind = "tune") /\ ~HasMemory(new)
    OBVIOUS
  <2> HIDE DEF new
  <2> QED
    BY <2>1, <2>2, <2>3
<1>2. ASSUME NEW i \in JobIds, CancelJob(i) PROVE MemoryIsHeld'
  <2>1. UNCHANGED <<starters, hold, kids>>
        /\ \A j \in JobIds : run'[j].at = run[j].at /\ run'[j].kind = run[j].kind
    BY <1>0, <1>2 DEF CancelJob, Run
  <2> QED
    BY <1>0, <2>1
<1>3. ASSUME NEW i \in JobIds, FollowJob(i) PROVE MemoryIsHeld'
  BY <1>3 DEF FollowJob, jobVars
<1>4. ASSUME NEW s \in starters, SetAside(s) PROVE MemoryIsHeld'
  <2>1. UNCHANGED <<run, kids>> /\ s.at = "asked"
    BY <1>4 DEF SetAside
  <2>2. CASE hold = {}
    <3> DEFINE new == [s EXCEPT !.at = "held"]
    <3>1. hold' = {Starter} /\ starters' = (starters \ {s}) \cup {new}
      BY <1>4, <2>2 DEF SetAside
    <3>2. new.kind = s.kind /\ new.at = "held" /\ s.kind = "tune"
      BY <1>0, <2>1 DEF Starters
    <3>3. \A t \in starters : ~HasMemory(t)
      BY <2>2
    <3> HIDE DEF new
    <3> QED
      BY <1>0, <2>1, <2>2, <3>1, <3>2, <3>3
  <2>3. CASE hold # {}
    BY <1>4, <2>1, <2>3 DEF SetAside
  <2> QED
    BY <2>2, <2>3
<1>5. ASSUME NEW s \in starters, AskAgain(s) PROVE MemoryIsHeld'
  <2>1. UNCHANGED <<run, kids>> /\ s.at = "held" /\ s.kind = "tune" /\ hold = {Starter}
    BY <1>5 DEF AskAgain
  <2>2. CASE Clear(s.kind)
    <3> DEFINE made == Made
               new == [s EXCEPT !.at = "sure", !.seen = made]
    <3>1. UNCHANGED hold /\ starters' = (starters \ {s}) \cup {new}
      BY <1>5, <2>2 DEF AskAgain
    <3>2. new.kind = s.kind /\ new.at = "sure"
      BY <1>0, <2>1 DEF Starters
    <3> HIDE DEF new
    <3> QED
      BY <1>0, <2>1, <3>1, <3>2
  <2>3. CASE ~Clear(s.kind)
    BY <1>0, <1>5, <2>1, <2>3 DEF AskAgain
  <2> QED
    BY <2>2, <2>3
<1>6. ASSUME NEW s \in starters, NEW i \in JobIds, CreateRow(s, i) PROVE MemoryIsHeld'
  <2>1. /\ s.at = "sure" /\ starters' = starters \ {s} /\ UNCHANGED kids
        /\ hold' = IF s.kind = "tune" THEN {i} ELSE hold
    BY <1>6 DEF CreateRow
  <2>2. /\ run'[i].at = "created" /\ run'[i].kind = s.kind
        /\ \A j \in JobIds \ {i} : run'[j] = run[j]
    BY <1>0, <1>6 DEF CreateRow, NoRun
  <2>3. JobRow(i) = "none" /\ run[i].at = "none"
    BY <1>6, NextIsFree DEF CreateRow, JobRow, Typed, RowsHaveRuns
  <2>4. \A k \in kids : k.ours => k.job # i
    BY <2>3
  <2>5. CASE s.kind = "tune"
    <3>1. hold = {Starter} /\ \A t \in starters \ {s} : ~HasMemory(t)
      BY <2>1, <2>5
    <3> QED
      BY <1>0, <2>1, <2>2, <2>4, <2>5, <3>1
  <2>6. CASE s.kind # "tune"
    BY <1>0, <2>1, <2>2, <2>4, <2>6
  <2> QED
    BY <2>5, <2>6
<1>7. ASSUME NEW i \in JobIds, Launch(i) PROVE MemoryIsHeld'
  <2>1. run[i].at = "created" /\ UNCHANGED starters
    BY <1>7 DEF Launch
  <2>2. \A k \in kids : k.ours => k.job # i
    BY <2>1
  <2>3. PICK at \in {"working", "stuck", "ending"}, end \in Ended :
            /\ Registered(i, at, end)
            /\ at = "stuck" => hold' = hold \ {i}
            /\ at # "stuck" => hold' = hold
            /\ kids' = kids \/ (kids' = kids \cup {TheKid(i)} /\ run[i].kind = "tune")
    BY <1>7 DEF Launch, Ended
  <2>4. run'[i].at = at /\ \A j \in JobIds \ {i} : run'[j] = run[j]
    BY <1>0, <2>3 DEF Registered, Run
  <2>5. TheKid(i).job = i
    BY DEF TheKid
  <2>6. \A s \in starters : HasMemory(s) => at # "stuck" \/ hold' = hold
    BY <1>0, <2>3
  <2>7. \A k \in kids' : k.ours => /\ run'[k.job].at \notin {"none", "created"}
                                   /\ run'[k.job].at = "working" => k.job \in hold'
    <3>1. ASSUME NEW k \in kids, k.ours
          PROVE  /\ run'[k.job].at \notin {"none", "created"}
                 /\ run'[k.job].at = "working" => k.job \in hold'
      BY <1>0, <2>2, <2>3, <2>4, <3>1
    <3>2. run[i].kind = "tune" => run'[i].at \notin {"none", "created"} /\ (run'[i].at = "working" => i \in hold')
      BY <2>1, <2>3, <2>4
    <3> HIDE DEF MemoryIsHeld
    <3> QED
      BY <2>3, <2>5, <3>1, <3>2
  <2>8. \A j \in JobIds : run'[j].at = "created" /\ run'[j].kind = "tune" => j \in hold'
    BY <2>3, <2>4
  <2> QED
    BY <1>0, <2>1, <2>3, <2>6, <2>7, <2>8
<1>8. ASSUME NEW i \in JobIds, Ends(i) PROVE MemoryIsHeld'
  <2>1. UNCHANGED <<starters, hold, kids>> /\ run'[i].at \in {"ending", "stuck"}
        /\ \A j \in JobIds \ {i} : run'[j] = run[j]
    BY <1>0, <1>8 DEF Ends, Run
  <2> QED
    BY <1>0, <2>1
<1>9. ASSUME NEW i \in JobIds, WriteEnd(i) PROVE MemoryIsHeld'
  <2>1. UNCHANGED <<starters, hold, kids>> /\ run'[i].at = "told"
        /\ \A j \in JobIds \ {i} : run'[j] = run[j]
    BY <1>0, <1>9 DEF WriteEnd, Run
  <2> QED
    BY <1>0, <2>1
<1>10. ASSUME NEW i \in JobIds, Unregister(i) PROVE MemoryIsHeld'
  <2>1. UNCHANGED <<starters, kids>> /\ hold' = hold \ {i} /\ run'[i].at = "over"
        /\ \A j \in JobIds \ {i} : run'[j] = run[j]
    BY <1>0, <1>10 DEF Unregister, Run
  <2> QED
    BY <1>0, <2>1
<1>11. ASSUME NEW k \in kids, Interrupt(k) \/ Orphaned(k) PROVE MemoryIsHeld'
  <2> DEFINE new == [k EXCEPT !.told = TRUE]
  <2>1. UNCHANGED <<starters, run, hold>> /\ kids' = (kids \ {k}) \cup {new}
    BY <1>11 DEF Interrupt, Orphaned
  <2>2. new.job = k.job /\ new.ours = k.ours
    BY <1>0 DEF Kids
  <2> HIDE DEF new
  <2> QED
    BY <2>1, <2>2
<1>12. ASSUME NEW k \in kids, KidEnds(k) PROVE MemoryIsHeld'
  <2>1. UNCHANGED starters /\ kids' = kids \ {k}
    BY <1>12 DEF KidEnds
  <2>2. CASE ~IsWaitedFor(k)
    BY <1>12, <2>1, <2>2 DEF KidEnds
  <2>3. CASE IsWaitedFor(k)
    <3> DEFINE i == k.job
    <3>1. PICK end \in Ended : run' = [run EXCEPT ![i].at = "ending", ![i].end = end]
      BY <1>12, <2>3 DEF KidEnds, Ended
    <3>2. hold' = hold \ {i} /\ i \in JobIds
      BY <1>0, <1>12, <2>3 DEF KidEnds
    <3> HIDE DEF i
    <3>3. run'[i].at = "ending" /\ \A j \in JobIds \ {i} : run'[j] = run[j]
      BY <1>0, <3>1, <3>2 DEF Run
    <3> QED
      BY <1>0, <2>1, <3>2, <3>3
  <2> QED
    BY <2>2, <2>3
<1>13. CASE ReadJob \/ HearJob
  BY <1>13 DEF ReadJob, HearJob, jobVars
<1> HIDE DEF MemoryIsHeld
<1> QED
  BY <1>1, <1>2, <1>3, <1>4, <1>5, <1>6, <1>7, <1>8, <1>9, <1>10, <1>11, <1>12, <1>13 DEF JobsRequest, JobsStep

(***************************************************************************)
(* Who follows a job                                                       *)
(***************************************************************************)

\* Who follows a job has its channel, with its end in it once it is over, or
\* looked when it was not on the registry: before, or after.
ToldTheEnd ==
    \/ run[watch.id].at = "over" /\ watch.news = run[watch.id].end
    \/ JobRow(watch.id) = watch.news /\ watch.news # "running"
    \/ watch.early \/ faults > 0
JobFollowed ==
    watch.of = "job" =>
        /\ JobRow(watch.id) # "none"
        /\ watch.sub /\ watch.at \in {"look", "wait"} =>
            IF run[watch.id].at = "over" THEN watch.news # "none" /\ watch.news = run[watch.id].end
            ELSE watch.news = "none"
        /\ watch.at = "wait" => watch.sub
        /\ ~watch.sub /\ watch.at = "look" => watch.early \/ run[watch.id].at \in {"none", "over"}
        /\ watch.at = "told" => ToldTheEnd

\* Whoever is told is told the end, while nothing else is done to the job.
LEMMA StillFollowed ==
    ASSUME Typed, Typed', RowsHaveRuns, JobFollowed, watch' = watch, faults' >= faults,
           \A i \in JobIds : (GetsOn(i) /\ (run'[i].at = "over" => run[i].at = "over")) \/ IsMade(i)
    PROVE  JobFollowed'
<1> SUFFICES ASSUME watch.of = "job" PROVE JobFollowed'
  BY DEF JobFollowed
<1> DEFINE i == watch.id
<1>1. i \in JobIds /\ faults \in Nat /\ faults' \in Nat /\ run[i].end \in Ended
  BY StoreAssumption DEF Typed, WatchTyped, LifeTyped, RunTyped, Run
<1>2. JobRow(i) # "none" /\ ~IsMade(i)
  BY DEF JobFollowed, IsMade
<1>3. GetsOn(i) /\ (run'[i].at = "over" => run[i].at = "over")
  BY <1>1, <1>2
<1>4. /\ JobRow(i)' # "none"
      /\ run[i].at = "over" => run'[i].at = "over" /\ run'[i].end = run[i].end
      /\ run[i].at = "none" => run'[i].at = "none"
      /\ JobRow(i) # "running" => JobRow(i)' = JobRow(i)
  BY <1>1, <1>2, <1>3 DEF GetsOn, Ended, RowsHaveRuns
<1>5. faults > 0 => faults' > 0
  BY <1>1
<1>6. ToldTheEnd => ToldTheEnd'
  BY <1>4, <1>5 DEF ToldTheEnd
<1> QED
  BY <1>3, <1>4, <1>6 DEF JobFollowed

\* Every step of the jobs keeps it so.
LEMMA JobsTellTheEnd ==
    ASSUME Typed, Typed', Idle, RowsHaveRuns, JobFollowed, JobsRequest \/ JobsStep
    PROVE  JobFollowed'
<1>0. /\ run \in [JobIds -> Run] /\ watch \in Watch /\ faults' >= faults
      /\ \A i \in JobIds : GetsOn(i) \/ IsMade(i)
  BY JobsGetOn, JobsWriteJobs DEF Typed, RunTyped, WatchTyped
<1>1. ASSUME watch' = watch, \A i \in JobIds : run'[i].at = "over" => run[i].at = "over" \/ IsMade(i) PROVE JobFollowed'
  BY <1>0, <1>1, StillFollowed
<1>2. ASSUME watch' = watch, UNCHANGED run PROVE JobFollowed'
  BY <1>1, <1>2
<1>3. ASSUME NEW kind, AskToStart(kind) PROVE JobFollowed'
  BY <1>2, <1>3 DEF AskToStart
<1>4. ASSUME NEW s, SetAside(s) \/ AskAgain(s) PROVE JobFollowed'
  BY <1>2, <1>4 DEF SetAside, AskAgain
<1>5. ASSUME NEW k, Interrupt(k) \/ Orphaned(k) PROVE JobFollowed'
  BY <1>2, <1>5 DEF Interrupt, Orphaned
<1>6. ASSUME NEW i \in JobIds, run'[i].at # "over", \A j \in JobIds \ {i} : run'[j] = run[j], watch' = watch PROVE JobFollowed'
  BY <1>1, <1>6
<1>7. ASSUME NEW i \in JobIds, CancelJob(i) PROVE JobFollowed'
  <2>1. watch' = watch /\ \A j \in JobIds : run'[j].at = run[j].at
    BY <1>0, <1>7 DEF CancelJob, Run
  <2> QED
    BY <1>1, <2>1
<1>8. ASSUME NEW s \in starters, NEW i \in JobIds, CreateRow(s, i) PROVE JobFollowed'
  BY <1>0, <1>6, <1>8 DEF CreateRow, NoRun
<1>9. ASSUME NEW i \in JobIds, Launch(i) PROVE JobFollowed'
  BY <1>0, <1>6, <1>9 DEF Launch, Registered, Run
<1>10. ASSUME NEW i \in JobIds, Ends(i) \/ WriteEnd(i) PROVE JobFollowed'
  BY <1>0, <1>6, <1>10 DEF Ends, WriteEnd, Run
<1>11. ASSUME NEW k \in kids, KidEnds(k) PROVE JobFollowed'
  <2>1. k.job \in JobIds /\ watch' = watch
    BY <1>11 DEF KidEnds, Typed, RunTyped, Kids
  <2>2. CASE ~IsWaitedFor(k)
    BY <1>2, <1>11, <2>1, <2>2 DEF KidEnds
  <2>3. ASSUME NEW end, run' = [run EXCEPT ![k.job].at = "ending", ![k.job].end = end] PROVE JobFollowed'
    BY <1>0, <1>6, <2>1, <2>3 DEF Run
  <2> QED
    BY <1>11, <2>2, <2>3 DEF KidEnds
<1>12. ASSUME NEW i \in JobIds, Unregister(i) PROVE JobFollowed'
  <2>1. /\ run'[i].at = "over" /\ run'[i].end = run[i].end /\ run[i].end \in Ended
        /\ \A j \in JobIds \ {i} : run'[j] = run[j]
        /\ \A j \in JobIds : JobRow(j)' = JobRow(j)
        /\ watch' = IF watch.of = "job" /\ watch.id = i /\ watch.sub
                    THEN [watch EXCEPT !.news = run[i].end] ELSE watch
    BY <1>0, <1>12 DEF Unregister, Run, JobRow, diskVars, lifeVars
  <2>2. CASE watch.of = "job" /\ watch.id = i
    <3>1. /\ watch'.of = watch.of /\ watch'.id = watch.id /\ watch'.at = watch.at
          /\ watch'.sub = watch.sub /\ watch'.early = watch.early
          /\ watch'.news = IF watch.sub THEN run[i].end ELSE watch.news
      BY <1>0, <2>1, <2>2 DEF Watch
    <3>2. ToldTheEnd => ToldTheEnd'
      <4>1. faults' = faults
        BY <1>12 DEF Unregister, boundVars
      <4> QED
        BY <2>1, <2>2, <3>1, <4>1 DEF ToldTheEnd
    <3> QED
      BY <2>1, <2>2, <3>1, <3>2 DEF JobFollowed, Ended
  <2>3. CASE ~(watch.of = "job" /\ watch.id = i)
    <3>1. watch' = watch
      BY <2>1, <2>3
    <3>2. CASE watch.of # "job"
      BY <3>1, <3>2 DEF JobFollowed
    <3>3. CASE watch.of = "job" /\ watch.id # i
      <4>1. watch.id \in JobIds \ {i} /\ faults' = faults
        BY <1>12, <3>3 DEF Typed, WatchTyped, Unregister, boundVars
      <4> QED
        BY <2>1, <3>1, <4>1 DEF JobFollowed, ToldTheEnd
    <3> QED
      BY <2>3, <3>2, <3>3
  <2> QED
    BY <2>2, <2>3
<1>13. ASSUME NEW i \in JobIds, FollowJob(i) PROVE JobFollowed'
  <2> DEFINE live == run[i].live
             early == run[i].at = "created"
             new == [Nobody EXCEPT !.of = "job", !.id = i, !.at = "look", !.sub = live, !.early = early]
  <2>1. watch' = new /\ UNCHANGED <<db, home, run, faults>> /\ JobRow(i) # "none"
    BY <1>13 DEF FollowJob, diskVars, lifeVars, jobVars
  <2>2. /\ run[i].live <=> run[i].at \in {"working", "ending", "told", "stuck"}
        /\ run[i].at \in {"none", "created", "working", "ending", "told", "over", "stuck"}
    BY <1>0 DEF RowsHaveRuns, Run, Places
  <2> HIDE DEF live, early
  <2>3. new.of = "job" /\ new.id = i /\ new.at = "look" /\ new.sub = live /\ new.early = early /\ new.news = "none"
    BY DEF Nobody
  <2> HIDE DEF new
  <2>4. live \in BOOLEAN /\ (live => run[i].at # "over") /\ JobRow(i)' # "none"
    BY <1>0, <2>1, <2>2 DEF live, Run, JobRow
  <2>5. ~live => early \/ run[i].at \in {"none", "over"}
    BY <2>2 DEF live, early
  <2> QED
    BY <2>1, <2>3, <2>4, <2>5 DEF JobFollowed
<1>14. CASE ReadJob
  <2> DEFINE i == watch.id
  <2>1. /\ watch.of = "job" /\ watch.at = "look" /\ up /\ UNCHANGED <<db, home, run, faults>>
        /\ watch' = IF watch.sub THEN [watch EXCEPT !.at = "wait"]
                    ELSE [watch EXCEPT !.at = "told", !.news = JobRow(i)]
    BY <1>14 DEF ReadJob, CanUseRows, diskVars, lifeVars, jobVars, boundVars
  <2>2. i \in JobIds
    BY <2>1 DEF Typed, WatchTyped
  <2>3. JobRow(i)' = JobRow(i) /\ JobRow(i) # "none"
    BY <2>1 DEF JobRow, JobFollowed
  <2>4. CASE watch.sub
    BY <1>0, <2>1, <2>3, <2>4 DEF JobFollowed, Watch
  <2>5. CASE ~watch.sub
    <3>1. watch'.of = "job" /\ watch'.id = i /\ watch'.at = "told" /\ watch'.news = JobRow(i)
          /\ watch'.early = watch.early /\ watch'.sub = watch.sub
      BY <1>0, <2>1, <2>5 DEF Watch
    <3>2. watch.early \/ run[i].at \in {"none", "over"}
      BY <2>1, <2>5 DEF JobFollowed
    <3>3. JobRow(i) = "running" => watch.early \/ faults > 0
      BY <2>1, <2>2, <3>2 DEF RowsHaveRuns
    <3>4. ToldTheEnd'
      BY <2>1, <2>3, <3>1, <3>3 DEF ToldTheEnd
    <3> QED
      BY <2>3, <2>5, <3>1, <3>4 DEF JobFollowed
  <2> QED
    BY <2>4, <2>5
<1>15. CASE HearJob
  <2>1. /\ watch.of = "job" /\ watch.at = "wait" /\ watch.news # "none"
        /\ watch' = [watch EXCEPT !.at = "told"] /\ UNCHANGED <<db, home, run, faults>>
    BY <1>15 DEF HearJob, diskVars, lifeVars, jobVars, boundVars
  <2>2. /\ watch'.of = "job" /\ watch'.id = watch.id /\ watch'.at = "told" /\ watch'.news = watch.news
        /\ watch'.sub = watch.sub /\ watch'.early = watch.early
    BY <1>0, <2>1 DEF Watch
  <2> QED
    BY <2>1, <2>2 DEF JobFollowed, ToldTheEnd, JobRow
<1> QED
  BY <1>3, <1>4, <1>5, <1>7, <1>8, <1>9, <1>10, <1>11, <1>12, <1>13, <1>14, <1>15 DEF JobsRequest, JobsStep

(***************************************************************************)
(* What the rest of the server leaves of it                                *)
(***************************************************************************)

\* No row is made past one that is not there.
LEMMA JobsLeaveNoGaps ==
    ASSUME Typed, RowsHaveRuns, NoGaps, JobsRequest \/ JobsStep
    PROVE  NoGaps'
<1>1. \A p \in Place \ {home} : db'[p] = db[p]
  BY JobsWriteJobs
<1>2. \A i \in JobIds : \/ JobRow(i)' = JobRow(i)
                        \/ /\ JobRow(i) = "none" /\ JobRow(i)' = "running"
                           /\ \A h \in JobIds : h < i => JobRow(h) # "none"
                        \/ run[i].at = "ending" /\ JobRow(i)' = run[i].end
  BY JobsWriteJobs
<1>3. \A i \in JobIds : run[i].end # "none" /\ (run[i].at = "ending" => JobRow(i) # "none")
  BY DEF Typed, RunTyped, Run, Ended, RowsHaveRuns
<1>4. home' = home /\ home \in Place
  BY JobsWriteJobs DEF Typed, LifeTyped
<1>5. ASSUME NEW i \in JobIds, NEW h \in JobIds, h < i, JobRow(i)' # "none" PROVE JobRow(h)' # "none"
  <2>1. JobRow(h) # "none"
    BY <1>2, <1>3, <1>4, <1>5 DEF NoGaps, JobRow
  <2> QED
    BY <1>2, <1>3, <2>1
<1>6. ASSUME NEW p \in Place, NEW i \in JobIds, NEW h \in JobIds, h < i, db'[p].job[i] # "none"
      PROVE  db'[p].job[h] # "none"
  <2>1. CASE p = home
    BY <1>4, <1>5, <1>6, <2>1 DEF JobRow
  <2>2. CASE p # home
    BY <1>1, <1>6, <2>2 DEF NoGaps
  <2> QED
    BY <2>1, <2>2
<1> QED
  BY <1>6 DEF NoGaps

\* A move copies the rows of a place, or has none.
LEMMA CopiesHaveNoGaps ==
    ASSUME Typed, NoGaps, \A p \in Place : SameJobs(p) \/ db'[p] = NoRows \/ db'[p] = db["here"]
    PROVE  NoGaps'
<1>1. \A i \in JobIds : NoRows.job[i] = "none"
  BY DEF NoRows
<1>2. "here" \in Place
  BY DEF Place
<1> QED
  BY <1>1, <1>2 DEF NoGaps, SameJobs

\* While the process is down its runs only notice, or end.
LEMMA OnlyKidsRunOn ==
    ASSUME Typed, Idle, ~up, JobsRequest \/ JobsStep
    PROVE  UNCHANGED <<starters, run, hold, watch>> /\ \A k \in kids' : ~k.ours
<1>1. kids \subseteq Kids /\ starters = {} /\ \A k \in kids : ~k.ours
  BY SMTT(30) DEF Typed, RunTyped, Idle
<1>2. \E k \in kids : Orphaned(k) \/ KidEnds(k)
  BY <1>1 DEF JobsRequest, JobsStep, AskToStart, CancelJob, FollowJob, Launch, Ends, WriteEnd, Unregister, Interrupt,
              ReadJob, HearJob, CanUseRows
<1>3. ASSUME NEW k \in kids, Orphaned(k) PROVE UNCHANGED <<starters, run, hold, watch>> /\ \A l \in kids' : ~l.ours
  <2> DEFINE new == [k EXCEPT !.told = TRUE]
  <2>1. kids' = (kids \ {k}) \cup {new} /\ UNCHANGED <<starters, run, hold, watch>>
    BY <1>3 DEF Orphaned
  <2>2. ~new.ours
    BY <1>1 DEF Kids
  <2> HIDE DEF new
  <2> QED
    BY <1>1, <2>1, <2>2
<1>4. ASSUME NEW k \in kids, KidEnds(k) PROVE UNCHANGED <<starters, run, hold, watch>> /\ \A l \in kids' : ~l.ours
  BY <1>1, <1>4 DEF KidEnds, IsWaitedFor
<1> QED
  BY <1>2, <1>3, <1>4

\* The videos and the move need the server.
LEMMA TheRestNeedsTheServer ==
    /\ VideosRequest \/ VideosStep => up
    /\ StorageRequest \/ StorageStep => up
<1>1. ASSUME NEW v, NEW picture, CreateVideo(v, picture) \/ DeleteRow(v) \/ FollowVideo(v) PROVE up
  BY <1>1 DEF CreateVideo, DeleteRow, FollowVideo, CanUseRows
<1>2. ASSUME NEW v, \/ KeepPicture(v) \/ BeginFilm(v) \/ Advance(v) \/ Look(v) \/ Tick(v) \/ Filmed(v)
                    \/ WriteVideo(v) \/ WritePoster(v) \/ Weigh(v) \/ FinishRow(v) \/ CleanUp(v)
                    \/ FailVideo(v) \/ DeleteFiles(v)
      PROVE  up
  BY <1>2 DEF KeepPicture, BeginFilm, Advance, Look, Tick, Filmed, WriteVideo, WritePoster, Weigh, FinishRow,
              CleanUp, FailVideo, DeleteFiles, CanUseRows
<1>3. ReadVideo \/ HearVideo => up
  BY DEF ReadVideo, HearVideo, CanUseRows
<1>4. StorageRequest \/ StorageStep => up
  BY DEF StorageRequest, StorageStep, StartMove, CancelMove, ForgetPrevious, BeginCarry, StopCopying, Copied,
         TakeLock, BringOver, Remember, SwitchFails, SetDataDir, LeaveLock, RestartInto, CopyFile, CanUseRows
<1> QED
  BY <1>1, <1>2, <1>3, <1>4 DEF VideosRequest, VideosStep

\* Those who follow a job are not told of videos.
LEMMA VideosTellTheirs ==
    ASSUME Typed, VideosRequest \/ VideosStep
    PROVE  watch' = watch \/ watch'.of = "video"
<1>0. watch \in Watch
  BY DEF Typed, WatchTyped
<1>1. ASSUME NEW v, NEW news, Told(v, news) PROVE watch' = watch \/ watch'.of = "video"
  BY <1>0, <1>1 DEF Told, Watch
<1>2. ASSUME NEW v, NEW picture, CreateVideo(v, picture) \/ DeleteRow(v) PROVE watch' = watch
  BY <1>2 DEF CreateVideo, DeleteRow
<1>3. ASSUME NEW v, FollowVideo(v) PROVE watch'.of = "video"
  <2> DEFINE made == BeingMade(v)
             early == film[v] \in {"keep", "made", "nobody"}
  <2>1. watch' = [Nobody EXCEPT !.of = "video", !.id = v, !.at = "look", !.sub = made, !.early = early]
    BY <1>3 DEF FollowVideo
  <2> HIDE DEF made, early
  <2> QED
    BY <2>1 DEF Nobody
<1>4. ASSUME NEW v, \/ KeepPicture(v) \/ BeginFilm(v) \/ Filmed(v) \/ WriteVideo(v) \/ WritePoster(v)
                    \/ Weigh(v) \/ FinishRow(v)
      PROVE  watch' = watch
  BY <1>4 DEF KeepPicture, BeginFilm, Filmed, WriteVideo, WritePoster, Weigh, FinishRow
<1>5. ASSUME NEW v, Advance(v) \/ Look(v) \/ Tick(v) \/ CleanUp(v) \/ FailVideo(v) \/ DeleteFiles(v)
      PROVE  watch' = watch \/ \E news : Told(v, news)
  BY <1>5 DEF Advance, Look, Tick, CleanUp, FailVideo, DeleteFiles
<1>6. ReadVideo => watch'.of = "video"
  BY <1>0 DEF ReadVideo, Watch
<1>7. HearVideo => watch'.of = "video"
  BY <1>0 DEF HearVideo, Again, Watch
<1> QED
  BY <1>1, <1>2, <1>3, <1>4, <1>5, <1>6, <1>7 DEF VideosRequest, VideosStep

(***************************************************************************)
(* The invariant of the jobs                                               *)
(***************************************************************************)
JobsInv == Idle /\ MoveIsHere /\ NoGaps /\ RowsHaveRuns /\ MemoryIsHeld /\ LookedBefore /\ JobFollowed

\* Nobody is anywhere when there are no jobs.
Quiet ==
    /\ starters = {} /\ run = [i \in JobIds |-> NoRun] /\ watch.of # "job"
    /\ \A k \in kids : ~k.ours
    /\ ~up \/ \A i \in JobIds : JobRow(i) # "running"

\* Then whatever is said of the jobs that run is so.
LEMMA NothingRuns == Quiet => RowsHaveRuns /\ MemoryIsHeld /\ LookedBefore /\ JobFollowed
<1> SUFFICES ASSUME Quiet PROVE RowsHaveRuns /\ MemoryIsHeld /\ LookedBefore /\ JobFollowed
  OBVIOUS
<1>1. \A i \in JobIds : run[i].at = "none" /\ run[i].live = FALSE
  BY DEF NoRun, Quiet
<1>2. RowsHaveRuns
  BY <1>1 DEF RowsHaveRuns, Quiet
<1>3. MemoryIsHeld
  BY <1>1 DEF MemoryIsHeld, Quiet
<1>4. LookedBefore
  BY <1>1 DEF LookedBefore, Quiet
<1> QED
  BY <1>2, <1>3, <1>4 DEF JobFollowed, Quiet

\* And after a step that leaves none.
LEMMA NothingWillRun == Quiet' => RowsHaveRuns' /\ MemoryIsHeld' /\ LookedBefore' /\ JobFollowed'
BY NothingRuns, PTL

\* At first nothing runs.
LEMMA JobsInvInit == Init => JobsInv
<1> SUFFICES ASSUME Init PROVE JobsInv
  OBVIOUS
<1>1. /\ starters = {} /\ run = [i \in JobIds |-> NoRun] /\ hold = {} /\ kids = {} /\ up = TRUE
      /\ watch.of # "job" /\ home = "here" /\ move.at = "rest"
  BY DEF Init, StoreInit, JobsInit, StorageInit, Nobody, AtRest
<1>2. /\ db["here"].left = "nothing" /\ "here" \in Place
      /\ \A p \in Place : \A i \in JobIds : db[p].job[i] = "none"
  BY DEF Init, StoreInit, Place, FirstRows, NoRows
<1>3. \A i \in JobIds : JobRow(i) # "running"
  BY <1>1, <1>2 DEF JobRow
<1>4. Idle /\ MoveIsHere /\ NoGaps
  BY <1>1, <1>2 DEF Idle, MoveIsHere, NoGaps
<1> QED
  BY <1>1, <1>3, <1>4, NothingRuns DEF JobsInv, Quiet

\* The jobs keep it.
LEMMA JobsKeepIt ==
    ASSUME Typed, Typed', JobsInv, JobsRequest \/ JobsStep, UNCHANGED <<filmVars, moveVars>>
    PROVE  JobsInv'
<1>1. Idle /\ MoveIsHere /\ NoGaps /\ RowsHaveRuns /\ MemoryIsHeld /\ LookedBefore /\ JobFollowed
  BY DEF JobsInv
<1>2. /\ up' = up /\ home' = home /\ faults' >= faults
      /\ \A p \in Place \ {home} : db'[p] = db[p]
      /\ \A p \in Place : SameFilms(p) /\ SameLeft(p)
      /\ home \in Place
  BY JobsWriteJobs DEF Typed, LifeTyped
<1>3. \A i \in JobIds : GetsOn(i) \/ IsMade(i)
  BY <1>1, JobsGetOn
<1>4. Idle'
  BY <1>1, <1>2, OnlyKidsRunOn DEF Idle, filmVars, moveVars
<1>5. MoveIsHere'
  BY <1>1, <1>2 DEF MoveIsHere, SameLeft, moveVars, Place
<1>6. NoGaps' /\ RowsHaveRuns' /\ MemoryIsHeld' /\ LookedBefore' /\ JobFollowed'
  BY <1>1, <1>2, <1>3, JobsLeaveNoGaps, GettingOnKeepsRows, JobsHoldMemory, GettingOnKeepsLooks, JobsTellTheEnd
<1> QED
  BY <1>4, <1>5, <1>6 DEF JobsInv

\* So does what does not touch their rows.
LEMMA OthersKeepIt ==
    ASSUME Typed, Typed', RowsHaveRuns, MemoryIsHeld, LookedBefore, JobFollowed,
           UNCHANGED <<jobVars, up, home>>, db'[home].job = db[home].job, faults' >= faults,
           watch' = watch \/ watch'.of # "job"
    PROVE  RowsHaveRuns' /\ MemoryIsHeld' /\ LookedBefore' /\ JobFollowed'
<1>1. UNCHANGED <<starters, run, hold, kids>> /\ \A i \in JobIds : JobRow(i)' = JobRow(i)
  BY DEF jobVars, JobRow
<1>2. faults > 0 => faults' > 0
  BY StoreAssumption DEF Typed, LifeTyped
<1>3. RowsHaveRuns'
  BY <1>1, <1>2 DEF RowsHaveRuns
<1>4. MemoryIsHeld'
  BY <1>1 DEF MemoryIsHeld
<1>5. LookedBefore'
  BY <1>1 DEF LookedBefore, Passed
<1>6. ASSUME watch'.of = "job" PROVE JobFollowed'
  <2>1. watch' = watch /\ watch.id \in JobIds
    BY <1>6 DEF Typed, WatchTyped
  <2> QED
    BY <1>1, <1>2, <2>1 DEF JobFollowed, ToldTheEnd
<1> QED
  BY <1>3, <1>4, <1>5, <1>6 DEF JobFollowed

\* The videos keep it.
LEMMA VideosKeepIt ==
    ASSUME Typed, Typed', JobsInv, VideosRequest \/ VideosStep, UNCHANGED <<jobVars, moveVars>>
    PROVE  JobsInv'
<1>1. Idle /\ MoveIsHere /\ NoGaps /\ RowsHaveRuns /\ MemoryIsHeld /\ LookedBefore /\ JobFollowed
  BY DEF JobsInv
<1>2. /\ up' = up /\ home' = home /\ faults' >= faults
      /\ \A p \in Place \ {home} : db'[p] = db[p]
      /\ \A p \in Place : SameJobs(p) /\ SameLeft(p)
      /\ home \in Place
  BY VideosWriteVideos DEF Typed, LifeTyped
<1>3. Idle'
  BY <1>2, TheRestNeedsTheServer DEF Idle
<1>4. MoveIsHere'
  BY <1>1, <1>2 DEF MoveIsHere, SameLeft, moveVars, Place
<1>5. NoGaps'
  BY <1>1, <1>2, CopiesHaveNoGaps
<1>6. watch' = watch \/ watch'.of # "job"
  BY VideosTellTheirs
<1> QED
  BY <1>1, <1>2, <1>3, <1>4, <1>5, <1>6, OthersKeepIt DEF JobsInv, SameJobs

\* So does the move.
LEMMA StorageKeepsIt ==
    ASSUME Typed, Typed', JobsInv, StorageRequest \/ StorageStep, UNCHANGED jobVars
    PROVE  JobsInv'
<1>1. Idle /\ MoveIsHere /\ NoGaps /\ RowsHaveRuns /\ MemoryIsHeld /\ LookedBefore /\ JobFollowed
  BY DEF JobsInv
<1>2. /\ UNCHANGED <<up, home, watch>> /\ faults' >= faults /\ db'[home].job = db[home].job
      /\ \A p \in Place : SameJobs(p) \/ db'[p] = NoRows \/ db'[p] = db["here"]
      /\ MoveIsHere'
  BY <1>1, StorageWritesElsewhere
<1>3. Idle'
  BY <1>2, TheRestNeedsTheServer DEF Idle
<1>4. NoGaps'
  BY <1>1, <1>2, CopiesHaveNoGaps
<1> QED
  BY <1>1, <1>2, <1>3, <1>4, OthersKeepIt DEF JobsInv

\* And the process, as it asks to restart, ends and begins.
LEMMA LifeKeepsIt ==
    ASSUME Typed, Typed', JobsInv,
           \/ (AskRestart(Busy) \/ BeginRestart \/ Boot) /\ UNCHANGED <<jobVars, filmVars, moveVars>>
           \/ ProcessEnds
    PROVE  JobsInv'
<1>1. Idle /\ MoveIsHere /\ NoGaps /\ RowsHaveRuns /\ MemoryIsHeld /\ LookedBefore /\ JobFollowed
  BY DEF JobsInv
<1>2. CASE (AskRestart(Busy) \/ BeginRestart) /\ UNCHANGED <<jobVars, filmVars, moveVars>>
  <2>0. faults \in Nat
    BY StoreAssumption DEF Typed, LifeTyped
  <2>1. UNCHANGED <<db, up, home, watch, faults>> /\ up
    <3>1. CASE AskRestart(Busy)
      BY <3>1, Zenon DEF AskRestart, diskVars
    <3>2. CASE BeginRestart
      BY <3>2, Zenon DEF BeginRestart, diskVars, boundVars
    <3> QED
      BY <1>2, <3>1, <3>2
  <2>2. Idle' /\ MoveIsHere' /\ NoGaps'
    BY <1>1, <1>2, <2>1 DEF Idle, MoveIsHere, NoGaps, moveVars
  <2>3. faults' >= faults
    BY <2>0, <2>1
  <2> QED
    BY <1>1, <1>2, <2>1, <2>2, <2>3, OthersKeepIt DEF JobsInv
<1>3. CASE Boot /\ UNCHANGED <<jobVars, filmVars, moveVars>>
  <2>1. /\ UNCHANGED <<jobVars, moveVars, watch>> /\ ~up /\ up' /\ home' = config
        /\ db' = [db EXCEPT ![config].job = AbandonJobs(@), ![config].film = AbandonFilms(@)]
    BY <1>3 DEF Boot
  <2>2. /\ starters = {} /\ run = [i \in JobIds |-> NoRun] /\ move.at = "rest" /\ watch.of # "job"
        /\ \A k \in kids : ~k.ours
    BY <1>1, <2>1 DEF Idle, AtRest, Nobody
  <2>3. config \in Place /\ db \in [Place -> Rows]
    BY DEF Typed, DiskTyped
  <2>4. /\ \A p \in Place : db'[p].left = db[p].left
        /\ \A p \in Place \ {config} : db'[p] = db[p]
        /\ db'[config].job = AbandonJobs(db[config].job)
    BY <2>1, <2>3 DEF Rows
  <2>5. \A i \in JobIds : db'[config].job[i] = IF db[config].job[i] = "running" THEN "failed" ELSE db[config].job[i]
    BY <2>4 DEF AbandonJobs
  <2>6. MoveIsHere' /\ Idle'
    BY <1>1, <2>1, <2>2, <2>4 DEF MoveIsHere, Idle, Place, moveVars
  <2>7. ASSUME NEW p \in Place, NEW i \in JobIds, NEW h \in JobIds, h < i, db'[p].job[i] # "none"
        PROVE  db'[p].job[h] # "none"
    BY <1>1, <2>4, <2>5, <2>7 DEF NoGaps
  <2>8. NoGaps'
    BY <2>7 DEF NoGaps
  <2>9. \A i \in JobIds : JobRow(i)' # "running"
    <3>1. \A i \in JobIds : db'[config].job[i] # "running"
      BY <2>5
    <3> QED
      BY <2>1, <3>1 DEF JobRow
  <2> QED
    BY <2>1, <2>2, <2>6, <2>8, <2>9, NothingWillRun DEF JobsInv, jobVars, Quiet
<1>4. CASE ProcessEnds
  <2>1. ~up' /\ watch' = Nobody /\ UNCHANGED <<db, home>>
    BY <1>4 DEF ProcessEnds, Die, Exec, Gone, diskVars
  <2>2. /\ starters' = {} /\ run' = [i \in JobIds |-> NoRun] /\ hold' = {}
        /\ film' = [v \in VideoIds |-> "none"] /\ move' = AtRest
    BY <1>4 DEF ProcessEnds, JobsGone, VideosGone, StorageGone
  <2>3. \A k \in kids' : ~k.ours
    <3>1. kids' = {[k EXCEPT !.ours = FALSE] : k \in kids} /\ kids \subseteq Kids
      BY <1>4 DEF ProcessEnds, JobsGone, Typed, RunTyped
    <3> QED
      BY <3>1 DEF Kids
  <2>4. Idle' /\ MoveIsHere' /\ NoGaps'
    BY <1>1, <2>1, <2>2, <2>3 DEF Idle, MoveIsHere, NoGaps, AtRest
  <2>5. watch'.of # "job"
    BY <2>1 DEF Nobody
  <2> QED
    BY <2>1, <2>2, <2>3, <2>4, <2>5, NothingWillRun DEF JobsInv, Quiet
<1> QED
  BY <1>2, <1>3, <1>4

\* Every step keeps it.
LEMMA JobsInvNext == Typed /\ JobsInv /\ [Next]_vars => Typed' /\ JobsInv'
<1> SUFFICES ASSUME Typed, JobsInv, [Next]_vars PROVE Typed' /\ JobsInv'
  OBVIOUS
<1>1. Typed'
  BY TypedNext
<1>2. CASE UNCHANGED vars
  <2>1. UNCHANGED <<jobVars, up, home, watch, db, film, move, faults>> /\ faults \in Nat
    BY <1>2, StoreAssumption DEF vars, diskVars, lifeVars, boundVars, filmVars, moveVars, Typed, LifeTyped
  <2>2. Idle' /\ MoveIsHere' /\ NoGaps' /\ faults' >= faults
    BY <2>1 DEF JobsInv, Idle, MoveIsHere, NoGaps, jobVars
  <2> QED
    BY <1>1, <2>1, <2>2, OthersKeepIt DEF JobsInv
<1> QED
  BY <1>1, <1>2, JobsKeepIt, VideosKeepIt, StorageKeepsIt, LifeKeepsIt DEF Next

(***************************************************************************)
(* Videos                                                                  *)
(***************************************************************************)

\* How the row and the task of a video get on, in a step of the videos'.
FilmGetsOn(v) ==
    LET same == VideoRow(v)' = VideoRow(v)
    IN  \/ film'[v] = film[v] /\ (same \/ (RowIsThere(v) /\ VideoRow(v)' = "deleted"))
        \/ VideoRow(v) = "none" /\ VideoRow(v)' = "queued" /\ film'[v] \in {"keep", "made", "nobody"}
        \/ film[v] = "keep" /\ film'[v] \in {"made", "nobody"} /\ same
        \/ film[v] = "made" /\ film'[v] \in {"film", "nobody"} /\ same
        \/ film[v] = "film" /\ film'[v] = "look" /\ RowIsThere(v) /\ VideoRow(v)' = "in_progress"
        \/ film[v] = "film" /\ film'[v] = "over" /\ ~RowIsThere(v) /\ same
        \/ /\ film[v] \in {"film", "look", "mp4", "png", "size"}
           /\ film'[v] \in {"film", "mp4", "png", "size", "row", "fail"} /\ same
        \/ film[v] = "row" /\ film'[v] = "clean" /\ RowIsThere(v) /\ VideoRow(v)' = "completed"
        \/ film[v] = "row" /\ film'[v] = "lost" /\ ~RowIsThere(v) /\ same
        \/ film[v] \in {"clean", "lost"} /\ film'[v] = "over" /\ same
        \/ film[v] = "row" /\ film'[v] = "fail" /\ same
        \/ /\ film[v] = "fail" /\ film'[v] = "over"
           /\ IF RowIsThere(v) THEN VideoRow(v)' = "failed" ELSE same
        \/ film[v] \in {"film", "fail"} /\ film'[v] = "cut" /\ same

\* Every step of the videos gets one on, and leaves the others.
LEMMA FilmsGetOn ==
    ASSUME Typed, VideosRequest \/ VideosStep
    PROVE  \A v \in VideoIds : FilmGetsOn(v)
<1> DEFINE Goal == \A v \in VideoIds : FilmGetsOn(v)
<1>0. film \in [VideoIds -> FilmPlaces] /\ home \in Place /\ db \in [Place -> Rows]
  BY DEF Typed, FilmTyped, LifeTyped, DiskTyped
<1>1. ASSUME NEW v \in VideoIds, FilmGetsOn(v), \A w \in VideoIds \ {v} : film'[w] = film[w],
             \A w \in VideoIds \ {v} : VideoRow(w)' = VideoRow(w)
      PROVE  Goal
  BY <1>1 DEF FilmGetsOn
<1>2. ASSUME NEW v \in VideoIds, NEW at, Goes(v, at)
      PROVE  film'[v] = at /\ \A w \in VideoIds \ {v} : film'[w] = film[w]
  BY <1>0, <1>2 DEF Goes
<1>3. ASSUME UNCHANGED <<db, home>> PROVE \A w \in VideoIds : VideoRow(w)' = VideoRow(w)
  BY <1>3 DEF VideoRow
<1>4. ASSUME NEW v \in VideoIds, NEW status \in VideoStates, SetVideoRow(v, status), home' = home
      PROVE  VideoRow(v)' = status /\ \A w \in VideoIds \ {v} : VideoRow(w)' = VideoRow(w)
  BY <1>0, <1>4, VideoRowIsSet DEF VideoRow, Typed
<1>5. UNCHANGED <<db, home, film>> => Goal
  BY <1>3 DEF FilmGetsOn
<1>6. ASSUME NEW v \in VideoIds, NEW picture \in BOOLEAN, CreateVideo(v, picture) PROVE Goal
  <2>1. /\ home' = home /\ v \in NextIn(db[home].film) /\ SetVideoRow(v, "queued")
        /\ \E at \in {"keep", "made", "nobody"} : Goes(v, at)
    BY <1>6 DEF CreateVideo, lifeVars
  <2>2. VideoRow(v) = "none"
    BY <2>1, NextIsFree DEF VideoRow, Typed
  <2>3. /\ VideoRow(v)' = "queued" /\ \A w \in VideoIds \ {v} : VideoRow(w)' = VideoRow(w)
    BY <1>4, <2>1 DEF VideoStates
  <2>4. FilmGetsOn(v) /\ \A w \in VideoIds \ {v} : film'[w] = film[w]
    BY <1>2, <2>1, <2>2, <2>3 DEF FilmGetsOn
  <2> QED
    BY <1>1, <2>3, <2>4
<1>7. ASSUME NEW v \in VideoIds, DeleteRow(v) PROVE Goal
  <2>1. home' = home /\ film' = film /\ RowIsThere(v) /\ SetVideoRow(v, "deleted")
    BY <1>7 DEF DeleteRow, lifeVars
  <2>2. VideoRow(v)' = "deleted" /\ \A w \in VideoIds \ {v} : VideoRow(w)' = VideoRow(w)
    BY <1>4, <2>1 DEF VideoStates
  <2>3. FilmGetsOn(v)
    BY <2>1, <2>2 DEF FilmGetsOn
  <2> QED
    BY <1>1, <2>1, <2>2, <2>3
<1>8. ASSUME NEW v \in VideoIds, FollowVideo(v) \/ DeleteFiles(v) PROVE Goal
  BY <1>5, <1>8 DEF FollowVideo, DeleteFiles, diskVars, lifeVars, filmVars
<1>9. ASSUME NEW v \in VideoIds, UNCHANGED <<db, home>>, NEW at, Goes(v, at),
             \/ film[v] = "keep" /\ at \in {"made", "nobody"}
             \/ film[v] = "made" /\ at \in {"film", "nobody"}
             \/ film[v] = "film" /\ at = "over" /\ ~RowIsThere(v)
             \/ /\ film[v] \in {"film", "look", "mp4", "png", "size"}
                /\ at \in {"film", "mp4", "png", "size", "row", "fail"}
             \/ film[v] \in {"clean", "lost"} /\ at = "over"
             \/ film[v] = "row" /\ at = "lost" /\ ~RowIsThere(v)
             \/ film[v] = "row" /\ at = "fail"
             \/ film[v] = "fail" /\ at = "over" /\ ~RowIsThere(v)
             \/ film[v] \in {"film", "fail"} /\ at = "cut"
      PROVE  Goal
  <2>1. FilmGetsOn(v)
    BY <1>2, <1>3, <1>9 DEF FilmGetsOn
  <2> QED
    BY <1>1, <1>2, <1>3, <1>9, <2>1
<1>10. ASSUME NEW v \in VideoIds, KeepPicture(v) PROVE Goal
  <2>1. UNCHANGED <<db, home>> /\ film[v] = "keep" /\ \E at \in {"made", "nobody"} : Goes(v, at)
    BY <1>10 DEF KeepPicture, lifeVars
  <2> QED
    BY <1>9, <2>1
<1>18. ASSUME NEW v \in VideoIds, BeginFilm(v) PROVE Goal
  BY <1>9, <1>18 DEF BeginFilm, diskVars, lifeVars
<1>11. ASSUME NEW v \in VideoIds, Tick(v) PROVE Goal
  BY <1>9, <1>11 DEF Tick, diskVars, lifeVars
<1>12. ASSUME NEW v \in VideoIds, Look(v) \/ Filmed(v) \/ WriteVideo(v) \/ WritePoster(v) \/ Weigh(v) PROVE Goal
  <2>1. /\ UNCHANGED <<db, home>> /\ film[v] \in {"film", "look", "mp4", "png", "size"}
        /\ \E at \in {"film", "mp4", "png", "size", "row", "fail"} : Goes(v, at)
    BY <1>12 DEF Look, Filmed, WriteVideo, WritePoster, Write, FailedToWrite, Weigh, lifeVars, diskVars
  <2> QED
    BY <1>9, <2>1
<1>13. ASSUME NEW v \in VideoIds, CleanUp(v) PROVE Goal
  BY <1>9, <1>13 DEF CleanUp, lifeVars
<1>14. ASSUME NEW v \in VideoIds, Advance(v) PROVE Goal
  <2>1. /\ home' = home /\ film[v] = "film"
        /\ \/ RowIsThere(v) /\ SetVideoRow(v, "in_progress") /\ Goes(v, "look")
           \/ ~RowIsThere(v) /\ UNCHANGED db /\ Goes(v, "over")
           \/ UNCHANGED db /\ Goes(v, "cut")
    BY <1>14 DEF Advance, lifeVars
  <2>2. ASSUME RowIsThere(v), SetVideoRow(v, "in_progress"), Goes(v, "look") PROVE Goal
    <3>1. VideoRow(v)' = "in_progress" /\ \A w \in VideoIds \ {v} : VideoRow(w)' = VideoRow(w)
      BY <1>4, <2>1, <2>2 DEF VideoStates
    <3>2. FilmGetsOn(v)
      BY <1>2, <2>1, <2>2, <3>1 DEF FilmGetsOn
    <3> QED
      BY <1>1, <1>2, <2>2, <3>1, <3>2
  <2> QED
    BY <1>9, <2>1, <2>2
<1>15. ASSUME NEW v \in VideoIds, FinishRow(v) PROVE Goal
  <2>1. /\ home' = home /\ film[v] = "row"
        /\ \/ RowIsThere(v) /\ SetVideoRow(v, "completed") /\ Goes(v, "clean")
           \/ ~RowIsThere(v) /\ UNCHANGED db /\ Goes(v, "lost")
           \/ UNCHANGED db /\ Goes(v, "fail")
    BY <1>15 DEF FinishRow, lifeVars
  <2>2. ASSUME RowIsThere(v), SetVideoRow(v, "completed"), Goes(v, "clean") PROVE Goal
    <3>1. VideoRow(v)' = "completed" /\ \A w \in VideoIds \ {v} : VideoRow(w)' = VideoRow(w)
      BY <1>4, <2>1, <2>2 DEF VideoStates
    <3>2. FilmGetsOn(v)
      BY <1>2, <2>1, <2>2, <3>1 DEF FilmGetsOn
    <3> QED
      BY <1>1, <1>2, <2>2, <3>1, <3>2
  <2> QED
    BY <1>9, <2>1, <2>2
<1>16. ASSUME NEW v \in VideoIds, FailVideo(v) PROVE Goal
  <2>1. /\ home' = home /\ film[v] = "fail"
        /\ \/ RowIsThere(v) /\ SetVideoRow(v, "failed") /\ Goes(v, "over")
           \/ ~RowIsThere(v) /\ UNCHANGED db /\ Goes(v, "over")
           \/ UNCHANGED db /\ Goes(v, "cut")
    BY <1>16 DEF FailVideo, lifeVars
  <2>2. ASSUME RowIsThere(v), SetVideoRow(v, "failed"), Goes(v, "over") PROVE Goal
    <3>1. VideoRow(v)' = "failed" /\ \A w \in VideoIds \ {v} : VideoRow(w)' = VideoRow(w)
      BY <1>4, <2>1, <2>2 DEF VideoStates
    <3>2. FilmGetsOn(v)
      BY <1>2, <2>1, <2>2, <3>1 DEF FilmGetsOn
    <3> QED
      BY <1>1, <1>2, <2>2, <3>1, <3>2
  <2> QED
    BY <1>9, <2>1, <2>2
<1>17. CASE ReadVideo \/ HearVideo
  BY <1>5, <1>17 DEF ReadVideo, HearVideo, diskVars, lifeVars, filmVars
<1> QED
  BY <1>6, <1>7, <1>8, <1>10, <1>11, <1>12, <1>13, <1>14, <1>15, <1>16, <1>17, <1>18
     DEF VideosRequest, VideosStep

\* The rows a video may have, by where its task is; while the process is up.
RowsOfFilm(at) ==
    CASE at = "none" -> VideoStates \ {"queued", "in_progress"}
      [] at \in {"keep", "made", "nobody"} -> {"queued", "deleted"}
      [] at = "clean" -> {"completed", "deleted"}
      [] at = "lost" -> {"deleted"}
      [] at = "over" -> {"completed", "failed", "deleted"}
      [] OTHER -> {"queued", "in_progress", "deleted"}
FilmsHaveRows == up => \A v \in VideoIds : VideoRow(v) \in RowsOfFilm(film[v])

\* Getting on keeps the row one of those.
LEMMA GettingOnKeepsFilms ==
    ASSUME NEW v \in VideoIds, film[v] \in FilmPlaces, VideoRow(v) \in RowsOfFilm(film[v]), FilmGetsOn(v)
    PROVE  VideoRow(v)' \in RowsOfFilm(film'[v])
BY DEF FilmGetsOn, RowsOfFilm, RowIsThere, FilmPlaces, VideoStates

\* A row that has ended stays so until it is deleted.
LEMMA EndedFilmsStay ==
    ASSUME NEW v \in VideoIds, film[v] \in FilmPlaces, VideoRow(v) \in RowsOfFilm(film[v]), FilmGetsOn(v), HasEnded(v)
    PROVE  VideoRow(v)' \in {VideoRow(v), "deleted"}
BY DEF FilmGetsOn, RowsOfFilm, RowIsThere, FilmPlaces, VideoStates, HasEnded

(***************************************************************************)
(* Who follows a video                                                     *)
(***************************************************************************)

\* Who follows a video has its channel while somebody makes it, and the news
\* that it closed after that, when its row has ended or the task could not
\* write it; or looked when there was no task: before, or after.
IsOver(v) == film[v] \in {"over", "cut"}
VideoFollowed ==
    watch.of = "video" =>
        /\ VideoRow(watch.id) # "none"
        /\ watch.sub /\ watch.at \in {"look", "wait"} => BeingMade(watch.id) \/ watch.news = "closed"
        /\ watch.news = "closed" => HasEnded(watch.id) \/ film[watch.id] = "cut"
        /\ ~watch.sub /\ watch.at = "look" => watch.early \/ HasEnded(watch.id) \/ film[watch.id] = "cut"
        /\ watch.at = "wait" => watch.sub
        /\ watch.at = "told" => HasEnded(watch.id)
        /\ watch.at = "left" => watch.early \/ film[watch.id] = "cut"

\* Either nobody is done, or who is tells so; or it is the watcher that moves.
LEMMA EndsAreTold ==
    ASSUME Typed, VideosRequest \/ VideosStep
    PROVE  \/ watch' = watch /\ \A v \in VideoIds : IsOver(v)' => IsOver(v)
           \/ \E v \in VideoIds, news \in {"told", "closed"} :
                /\ Told(v, news)
                /\ \A w \in VideoIds \ {v} : film'[w] = film[w]
                /\ IF news = "closed" THEN IsOver(v)' ELSE IsOver(v)' => IsOver(v)
           \/ (\E v \in VideoIds : FollowVideo(v)) \/ ReadVideo \/ HearVideo
<1> DEFINE Goal == \/ watch' = watch /\ \A v \in VideoIds : IsOver(v)' => IsOver(v)
                   \/ \E v \in VideoIds, news \in {"told", "closed"} :
                        /\ Told(v, news)
                        /\ \A w \in VideoIds \ {v} : film'[w] = film[w]
                        /\ IF news = "closed" THEN IsOver(v)' ELSE IsOver(v)' => IsOver(v)
                   \/ (\E v \in VideoIds : FollowVideo(v)) \/ ReadVideo \/ HearVideo
<1>0. film \in [VideoIds -> FilmPlaces]
  BY DEF Typed, FilmTyped
<1>1. ASSUME NEW v \in VideoIds, NEW at, Goes(v, at)
      PROVE  film'[v] = at /\ \A w \in VideoIds \ {v} : film'[w] = film[w]
  BY <1>0, <1>1 DEF Goes
<1>2. ASSUME NEW v \in VideoIds, NEW at, Goes(v, at), at \notin {"over", "cut"}, watch' = watch PROVE Goal
  BY <1>1, <1>2 DEF IsOver
<1>3. ASSUME NEW v \in VideoIds, NEW at \in {"over", "cut"}, Goes(v, at), Told(v, "closed") PROVE Goal
  BY <1>1, <1>3 DEF IsOver
<1>4. watch' = watch /\ film' = film => Goal
  BY DEF IsOver
<1>5. ASSUME NEW v \in VideoIds, NEW picture \in BOOLEAN, CreateVideo(v, picture) PROVE Goal
  BY <1>2, <1>5 DEF CreateVideo
<1>6. ASSUME NEW v \in VideoIds, DeleteRow(v) PROVE Goal
  BY <1>4, <1>6 DEF DeleteRow
<1>7. ASSUME NEW v \in VideoIds, DeleteFiles(v) PROVE Goal
  <2>1. film' = film /\ Told(v, "told")
    BY <1>7 DEF DeleteFiles
  <2> QED
    BY <2>1 DEF IsOver
<1>8. ASSUME NEW v \in VideoIds, Look(v) PROVE Goal
  <2>1. Goes(v, "film") /\ Told(v, "told")
    BY <1>8 DEF Look
  <2> QED
    BY <1>1, <2>1 DEF IsOver
<1>9. ASSUME NEW v \in VideoIds, \/ KeepPicture(v) \/ BeginFilm(v) \/ Filmed(v) \/ WriteVideo(v) \/ WritePoster(v)
                                 \/ Weigh(v) \/ FinishRow(v)
      PROVE  Goal
  <2>1. watch' = watch /\ \E at : Goes(v, at) /\ at \notin {"over", "cut"}
    BY <1>9 DEF KeepPicture, BeginFilm, Filmed, WriteVideo, WritePoster, Write, FailedToWrite, Weigh, FinishRow
  <2> QED
    BY <1>2, <2>1
<1>10. ASSUME NEW v \in VideoIds, Advance(v) PROVE Goal
  <2>1. \/ watch' = watch /\ Goes(v, "look")
        \/ Told(v, "closed") /\ \E at \in {"over", "cut"} : Goes(v, at)
    BY <1>10 DEF Advance
  <2> QED
    BY <1>2, <1>3, <2>1
<1>11. ASSUME NEW v \in VideoIds, Tick(v) \/ CleanUp(v) \/ FailVideo(v) PROVE Goal
  BY <1>3, <1>11 DEF Tick, CleanUp, FailVideo
<1>12. Goal
  BY <1>5, <1>6, <1>7, <1>8, <1>9, <1>10, <1>11 DEF VideosRequest, VideosStep
<1> QED
  BY <1>12

\* Every step of the videos keeps it so.
LEMMA VideosTellTheEnd ==
    ASSUME Typed, Typed', up, FilmsHaveRows, VideoFollowed, VideosRequest \/ VideosStep
    PROVE  VideoFollowed'
<1>0. /\ film \in [VideoIds -> FilmPlaces] /\ watch \in Watch
      /\ \A v \in VideoIds : film[v] \in FilmPlaces /\ VideoRow(v) \in RowsOfFilm(film[v]) /\ FilmGetsOn(v)
  BY FilmsGetOn DEF FilmsHaveRows, Typed, FilmTyped, WatchTyped
<1>1. \A v \in VideoIds : /\ VideoRow(v)' \in RowsOfFilm(film'[v])
                          /\ HasEnded(v) => HasEnded(v)'
                          /\ VideoRow(v) # "none" => VideoRow(v)' # "none"
  <2>1. \A v \in VideoIds : /\ VideoRow(v)' \in RowsOfFilm(film'[v])
                            /\ HasEnded(v) => VideoRow(v)' \in {VideoRow(v), "deleted"}
    BY <1>0, GettingOnKeepsFilms, EndedFilmsStay
  <2>2. \A v \in VideoIds : VideoRow(v) # "none" => VideoRow(v)' # "none"
    BY <1>0 DEF FilmGetsOn
  <2> QED
    BY <2>1, <2>2 DEF HasEnded
<1>2. \A v \in VideoIds : /\ BeingMade(v) => BeingMade(v)' \/ IsOver(v)'
                          /\ film[v] = "cut" => film'[v] = "cut"
  <2>1. \A v \in VideoIds : FilmGetsOn(v) /\ film[v] \in FilmPlaces /\ VideoRow(v) \in RowsOfFilm(film[v])
    BY <1>0
  <2> QED
    BY <2>1 DEF FilmGetsOn, BeingMade, FilmPlaces, RowsOfFilm, IsOver
<1>3. ASSUME watch' = watch, watch.of = "video",
             IsOver(watch.id)' => IsOver(watch.id)
      PROVE  VideoFollowed'
  <2>1. watch.id \in VideoIds
    BY <1>3 DEF Typed, WatchTyped
  <2>2. BeingMade(watch.id) => BeingMade(watch.id)'
    BY <1>2, <1>3, <2>1 DEF BeingMade, IsOver
  <2> QED
    BY <1>1, <1>2, <1>3, <2>1, <2>2 DEF VideoFollowed
<1>4. ASSUME NEW v \in VideoIds, NEW news \in {"told", "closed"}, Told(v, news),
             \A w \in VideoIds \ {v} : film'[w] = film[w],
             IF news = "closed" THEN IsOver(v)' ELSE IsOver(v)' => IsOver(v)
      PROVE  VideoFollowed'
  <2>1. CASE watch.of = "video" /\ watch.id = v /\ watch.sub /\ BeingMade(v)
    <3>1. watch' = [watch EXCEPT !.news = news]
      BY <1>4, <2>1 DEF Told
    <3>2. /\ watch'.of = "video" /\ watch'.id = v /\ watch'.sub = watch.sub /\ watch'.at = watch.at
          /\ watch'.early = watch.early /\ watch'.news = news
      BY <1>0, <2>1, <3>1 DEF Watch
    <3>3. news = "closed" => HasEnded(v)' \/ film'[v] = "cut"
      BY <1>1, <1>4 DEF RowsOfFilm, HasEnded, IsOver
    <3>4. news # "closed" => BeingMade(v)'
      BY <1>2, <1>4, <2>1 DEF BeingMade, IsOver
    <3> QED
      BY <1>1, <1>2, <2>1, <3>2, <3>3, <3>4 DEF VideoFollowed
  <2>2. CASE ~(watch.of = "video" /\ watch.id = v /\ watch.sub /\ BeingMade(v))
    <3>1. watch' = watch
      BY <1>4, <2>2 DEF Told
    <3>2. CASE watch.of # "video"
      BY <3>1, <3>2 DEF VideoFollowed
    <3>3. CASE watch.of = "video" /\ watch.id # v
      <4>1. watch.id \in VideoIds \ {v}
        BY <3>3 DEF Typed, WatchTyped
      <4>2. film'[watch.id] = film[watch.id]
        BY <1>4, <4>1
      <4> QED
        BY <1>3, <3>1, <3>3, <4>2 DEF IsOver
    <3>4. CASE watch.of = "video" /\ watch.id = v /\ ~watch.sub
      BY <1>1, <1>2, <1>4, <3>1, <3>4 DEF VideoFollowed
    <3>5. CASE watch.of = "video" /\ watch.id = v /\ ~BeingMade(v)
      BY <1>1, <1>2, <1>4, <3>1, <3>5 DEF VideoFollowed, BeingMade
    <3> QED
      BY <2>2, <3>2, <3>3, <3>4, <3>5
  <2> QED
    BY <2>1, <2>2
<1>5. ASSUME NEW v \in VideoIds, FollowVideo(v) PROVE VideoFollowed'
  <2> DEFINE made == BeingMade(v)
             early == film[v] \in {"keep", "made", "nobody"}
             new == [Nobody EXCEPT !.of = "video", !.id = v, !.at = "look", !.sub = made, !.early = early]
  <2>1. watch' = new /\ UNCHANGED <<db, home, film>> /\ RowIsThere(v)
    BY <1>5 DEF FollowVideo, diskVars, lifeVars, filmVars
  <2>2. VideoRow(v)' = VideoRow(v) /\ (BeingMade(v) => BeingMade(v)') /\ (HasEnded(v) => HasEnded(v)')
    BY <2>1 DEF VideoRow, BeingMade, HasEnded
  <2>3. made \/ early \/ HasEnded(v) \/ film[v] = "cut"
    BY <1>0, <2>1 DEF RowsOfFilm, FilmPlaces, VideoStates, BeingMade, HasEnded, RowIsThere
  <2>4. (made => BeingMade(v)) /\ made \in BOOLEAN
    BY DEF BeingMade
  <2> HIDE DEF made, early
  <2>5. new.of = "video" /\ new.id = v /\ new.at = "look" /\ new.sub = made /\ new.early = early /\ new.news = "none"
    BY DEF Nobody
  <2> HIDE DEF new
  <2> QED
    BY <2>1, <2>2, <2>3, <2>4, <2>5 DEF VideoFollowed, RowIsThere
<1>6. CASE ReadVideo
  <2> DEFINE seen == IF HasEnded(watch.id) THEN "told" ELSE IF watch.sub THEN "wait" ELSE "left"
  <2>1. /\ watch.of = "video" /\ watch.at = "look" /\ UNCHANGED <<db, home, film>>
        /\ \E at \in {seen, "refused"} : watch' = [watch EXCEPT !.at = at]
    BY <1>6 DEF ReadVideo, diskVars, lifeVars, filmVars
  <2>2. PICK at \in {seen, "refused"} : watch' = [watch EXCEPT !.at = at]
    BY <2>1
  <2>3. at = "told" => HasEnded(watch.id)
    BY <2>2
  <2>4. (at = "wait" => watch.sub) /\ (at = "left" => ~watch.sub /\ ~HasEnded(watch.id)) /\ at # "look"
    BY <2>2
  <2> HIDE DEF seen
  <2>5. /\ watch'.of = "video" /\ watch'.id = watch.id /\ watch'.at = at /\ watch'.sub = watch.sub
        /\ watch'.early = watch.early /\ watch'.news = watch.news
    BY <1>0, <2>1, <2>2 DEF Watch
  <2>6. /\ (HasEnded(watch.id) => HasEnded(watch.id)') /\ (BeingMade(watch.id) => BeingMade(watch.id)')
        /\ VideoRow(watch.id)' = VideoRow(watch.id) /\ film'[watch.id] = film[watch.id]
    BY <2>1, <2>5 DEF VideoRow, HasEnded, BeingMade
  <2> QED
    BY <2>1, <2>3, <2>4, <2>5, <2>6 DEF VideoFollowed
<1>7. CASE HearVideo
  <2> DEFINE closed == watch.news = "closed"
  <2>1. /\ watch.of = "video" /\ watch.at = "wait" /\ UNCHANGED <<db, home, film>>
        /\ watch' = [watch EXCEPT !.at = "look", !.news = "none", !.sub = ~closed]
    BY <1>7 DEF HearVideo, Again, diskVars, lifeVars, filmVars
  <2>2. /\ closed => HasEnded(watch.id) \/ film[watch.id] = "cut"
        /\ ~closed => BeingMade(watch.id)
    BY <2>1 DEF VideoFollowed
  <2>3. closed \in BOOLEAN
    OBVIOUS
  <2> HIDE DEF closed
  <2>4. /\ watch'.of = "video" /\ watch'.id = watch.id /\ watch'.at = "look" /\ watch'.sub = ~closed
        /\ watch'.early = watch.early /\ watch'.news = "none"
    BY <1>0, <2>1, <2>3 DEF Watch
  <2> QED
    BY <2>1, <2>2, <2>3, <2>4 DEF VideoFollowed, VideoRow, HasEnded, BeingMade
<1>8. CASE watch' = watch /\ \A v \in VideoIds : IsOver(v)' => IsOver(v)
  <2>1. CASE watch.of = "video"
    BY <1>3, <1>8, <2>1 DEF Typed, WatchTyped, IsOver
  <2> QED
    BY <1>8, <2>1 DEF VideoFollowed
<1> QED
  BY <1>4, <1>5, <1>6, <1>7, <1>8, EndsAreTold

(***************************************************************************)
(* The invariant of the server                                             *)
(***************************************************************************)
ServerInv == Typed /\ JobsInv /\ FilmsHaveRows /\ VideoFollowed

\* Those who follow a video are not told of jobs.
LEMMA JobsTellTheirsOnly ==
    ASSUME Typed, JobsRequest \/ JobsStep
    PROVE  watch' = watch \/ watch'.of = "job"
<1>0. watch \in Watch
  BY DEF Typed, WatchTyped
<1>1. ASSUME NEW i, FollowJob(i) PROVE watch'.of = "job"
  <2> DEFINE live == run[i].live
             early == run[i].at = "created"
  <2>1. watch' = [Nobody EXCEPT !.of = "job", !.id = i, !.at = "look", !.sub = live, !.early = early]
    BY <1>1 DEF FollowJob
  <2> HIDE DEF live, early
  <2> QED
    BY <2>1 DEF Nobody
<1>2. ASSUME NEW i, Unregister(i) PROVE watch' = watch \/ watch'.of = "job"
  BY <1>0, <1>2 DEF Unregister, Watch
<1>3. ReadJob => watch'.of = "job"
  BY <1>0 DEF ReadJob, Watch
<1>4. HearJob => watch'.of = "job"
  BY <1>0 DEF HearJob, Watch
<1>5. ASSUME NEW i, CancelJob(i) \/ Launch(i) \/ Ends(i) \/ WriteEnd(i) PROVE watch' = watch
  BY <1>5 DEF CancelJob, Launch, Ends, WriteEnd
<1>6. ASSUME NEW s, SetAside(s) \/ AskAgain(s) \/ (\E i : CreateRow(s, i)) PROVE watch' = watch
  BY <1>6 DEF SetAside, AskAgain, CreateRow
<1>7. ASSUME NEW k, Interrupt(k) \/ Orphaned(k) \/ KidEnds(k) PROVE watch' = watch
  BY <1>7 DEF Interrupt, Orphaned, KidEnds
<1>8. ASSUME NEW kind, AskToStart(kind) PROVE watch' = watch
  BY <1>8 DEF AskToStart
<1> QED
  BY <1>1, <1>2, <1>3, <1>4, <1>5, <1>6, <1>7, <1>8 DEF JobsRequest, JobsStep

\* What touches neither a video's row nor its task leaves who follows it.
LEMMA VideosLeftAlone ==
    ASSUME Typed, FilmsHaveRows, VideoFollowed, UNCHANGED <<up, home, film>>,
           db'[home].film = db[home].film, watch' = watch \/ watch'.of # "video"
    PROVE  FilmsHaveRows' /\ VideoFollowed'
<1>1. \A v \in VideoIds : VideoRow(v)' = VideoRow(v)
  BY DEF VideoRow
<1>2. FilmsHaveRows'
  BY <1>1 DEF FilmsHaveRows
<1>3. ASSUME watch'.of = "video" PROVE VideoFollowed'
  <2>1. watch' = watch /\ watch.id \in VideoIds
    BY <1>3 DEF Typed, WatchTyped
  <2> QED
    BY <1>1, <2>1 DEF VideoFollowed, HasEnded, BeingMade
<1> QED
  BY <1>2, <1>3 DEF VideoFollowed

\* At first the videos that are kept are finished.
LEMMA ServerInvInit == Init => ServerInv
<1> SUFFICES ASSUME Init PROVE ServerInv
  OBVIOUS
<1>1. Typed /\ JobsInv
  BY TypedInit, JobsInvInit
<1>2. /\ home = "here" /\ "here" \in Place /\ film = [v \in VideoIds |-> "none"] /\ watch.of # "video"
      /\ \A v \in VideoIds : db["here"].film[v] \in {"completed", "none"}
  BY DEF Init, StoreInit, VideosInit, Place, FirstRows, NoRows, Nobody
<1>3. FilmsHaveRows
  BY <1>2 DEF FilmsHaveRows, VideoRow, RowsOfFilm, VideoStates
<1> QED
  BY <1>1, <1>2, <1>3 DEF ServerInv, VideoFollowed

\* Every step keeps it.
LEMMA ServerInvNext == ServerInv /\ [Next]_vars => ServerInv'
<1> SUFFICES ASSUME ServerInv, [Next]_vars PROVE ServerInv'
  OBVIOUS
<1>1. Typed /\ JobsInv /\ FilmsHaveRows /\ VideoFollowed /\ MoveIsHere /\ Typed' /\ JobsInv'
  BY JobsInvNext DEF ServerInv, JobsInv
<1>2. home \in Place /\ db \in [Place -> Rows] /\ config \in Place
  BY <1>1 DEF Typed, LifeTyped, DiskTyped
<1>3. CASE (JobsRequest \/ JobsStep) /\ UNCHANGED <<filmVars, moveVars>>
  <2>1. UNCHANGED <<up, home, film>> /\ db'[home].film = db[home].film
    BY <1>1, <1>2, <1>3, JobsWriteJobs DEF SameFilms, filmVars
  <2> QED
    BY <1>1, <1>3, <2>1, JobsTellTheirsOnly, VideosLeftAlone DEF ServerInv
<1>4. CASE (VideosRequest \/ VideosStep) /\ UNCHANGED <<jobVars, moveVars>>
  <2>1. up
    BY <1>4, TheRestNeedsTheServer
  <2>2. VideoFollowed'
    BY <1>1, <1>4, <2>1, VideosTellTheEnd
  <2>3. FilmsHaveRows'
    <3>1. \A v \in VideoIds : film[v] \in FilmPlaces /\ VideoRow(v) \in RowsOfFilm(film[v]) /\ FilmGetsOn(v)
      BY <1>1, <1>4, <2>1, FilmsGetOn DEF FilmsHaveRows, Typed, FilmTyped
    <3>2. \A v \in VideoIds : VideoRow(v)' \in RowsOfFilm(film'[v])
      BY <3>1, GettingOnKeepsFilms
    <3> QED
      BY <3>2 DEF FilmsHaveRows
  <2> QED
    BY <1>1, <2>2, <2>3 DEF ServerInv
<1>5. CASE (StorageRequest \/ StorageStep) /\ UNCHANGED jobVars
  <2>1. UNCHANGED <<up, home, film, watch>> /\ db'[home].film = db[home].film
    BY <1>1, <1>5, StorageWritesElsewhere
  <2> QED
    BY <1>1, <2>1, VideosLeftAlone DEF ServerInv
<1>6. CASE (AskRestart(Busy) \/ BeginRestart) /\ UNCHANGED <<jobVars, filmVars, moveVars>>
  <2>1. UNCHANGED <<db, up, home, watch, film>>
    <3>1. CASE AskRestart(Busy)
      BY <1>6, <3>1, Zenon DEF AskRestart, diskVars, filmVars
    <3>2. CASE BeginRestart
      BY <1>6, <3>2, Zenon DEF BeginRestart, diskVars, filmVars
    <3> QED
      BY <1>6, <3>1, <3>2
  <2> QED
    BY <1>1, <2>1, VideosLeftAlone DEF ServerInv
<1>7. CASE Boot /\ UNCHANGED <<jobVars, filmVars, moveVars>>
  <2>1. /\ UNCHANGED watch /\ film' = film /\ ~up /\ home' = config
        /\ db' = [db EXCEPT ![config].job = AbandonJobs(@), ![config].film = AbandonFilms(@)]
    BY <1>7 DEF Boot, filmVars
  <2>2. film = [v \in VideoIds |-> "none"] /\ watch.of # "video"
    BY <1>1, <2>1 DEF JobsInv, Idle, Nobody
  <2>3. db'[config].film = AbandonFilms(db[config].film) /\ db[config].film \in [VideoIds -> VideoStates]
    BY <1>2, <2>1 DEF Rows
  <2>4. \A v \in VideoIds : db'[config].film[v] \in VideoStates \ {"queued", "in_progress"}
    BY <2>3 DEF AbandonFilms, VideoStates
  <2>5. \A v \in VideoIds : VideoRow(v)' \in RowsOfFilm(film'[v])
    <3>1. \A v \in VideoIds : film'[v] = "none"
      BY <2>1, <2>2
    <3> QED
      BY <2>1, <2>4, <3>1 DEF VideoRow, RowsOfFilm
  <2> QED
    BY <1>1, <2>1, <2>2, <2>5 DEF ServerInv, FilmsHaveRows, VideoFollowed
<1>8. CASE ProcessEnds
  <2>1. ~up' /\ watch' = Nobody
    BY <1>8 DEF ProcessEnds, Die, Exec, Gone
  <2> QED
    BY <1>1, <2>1 DEF ServerInv, FilmsHaveRows, VideoFollowed, Nobody
<1>9. CASE UNCHANGED vars
  <2>1. UNCHANGED <<db, up, home, watch, film>>
    BY <1>9 DEF vars, diskVars, lifeVars, filmVars
  <2> QED
    BY <1>1, <2>1, VideosLeftAlone DEF ServerInv
<1> QED
  BY <1>3, <1>4, <1>5, <1>6, <1>7, <1>8, <1>9 DEF Next

\* The rows and the process keep what the invariant says of them, through
\* every request, failure, death and restart.
THEOREM ServerInvariant == Spec => []ServerInv
BY ServerInvInit, ServerInvNext, PTL DEF Spec

(***************************************************************************)
(* What it gives                                                           *)
(***************************************************************************)

\* Every variable of the server has its type.
THEOREM ServerIsTyped == Spec => []TypeOK
<1>1. ServerInv => TypeOK
  BY TypedIsTypeOK DEF ServerInv
<1> QED
  BY <1>1, ServerInvariant, PTL

\* A row that says `running` is that of a job somebody will write the end
\* of, or something has failed (jobs.rs, `abandon_orphans` and `finish`).
THEOREM RunningRowsAreMade == Spec => []RunningRowsHaveMakers
<1>1. ServerInv => RunningRowsHaveMakers
  BY DEF ServerInv, JobsInv, RowsHaveRuns, RunningRowsHaveMakers
<1> QED
  BY <1>1, ServerInvariant, PTL

\* Two training runs, or a benchmark and an older one or a training run of
\* text, are at work at once only if the newer looked before there was the
\* older's row (jobs.rs, `live_kind`).
THEOREM OverlapsAreRaces == Spec => []OverlapsOnlyWhenBothLooked
<1>1. ServerInv => OverlapsOnlyWhenBothLooked
  <2> SUFFICES ASSUME ServerInv, NEW i \in AtWork, NEW j \in AtWork, i < j, LooksOut(run[j].kind, run[i].kind)
               PROVE  run[j].seen < i
    BY DEF OverlapsOnlyWhenBothLooked, BothLooked
  <2>0. run[i].kind \in InTheWay(run[j].kind)
    BY DEF LooksOut, Training, InTheWay
  <2>1. /\ i \in JobIds /\ j \in JobIds /\ run[i].at \in {"created", "working"} /\ run[j].at # "none"
    BY DEF AtWork
  <2>2. JobRow(i) = "running"
    BY <2>1 DEF ServerInv, JobsInv, RowsHaveRuns
  <2>3. ~(i <= run[j].seen)
    BY <2>0, <2>1, <2>2 DEF ServerInv, JobsInv, LookedBefore, Passed
  <2>4. i \in Nat /\ run[j].seen \in Nat
    <3>1. run[j].seen \in {0} \cup JobIds
      BY <2>1 DEF ServerInv, Typed, RunTyped, Run
    <3>2. \A n \in {0} \cup JobIds : n \in Nat
      BY IdsAreNumbers
    <3> QED
      BY <2>1, <3>1, <3>2
  <2> QED
    BY <2>3, <2>4
<1> QED
  BY <1>1, ServerInvariant, PTL

\* The memory set aside for a LoRA run is held as long as a process of it is
\* waited for (tuning.rs, `Reserved`).
THEOREM MemoryIsHeldForTheRun == Spec => []MemoryOutlivesTheRun
<1>1. ServerInv => MemoryOutlivesTheRun
  BY DEF ServerInv, JobsInv, MemoryIsHeld, MemoryOutlivesTheRun, IsWaitedFor
<1> QED
  BY <1>1, ServerInvariant, PTL

\* A video whose row is not over has a task that will end it, or a request
\* that will give it one, unless the request ended first or the task on a
\* write that was refused (videos.rs, `create`, `advance`, `run`, `abandon`).
THEOREM UnfinishedVideosAreMade == Spec => []UnfinishedVideosHaveMakers
<1>1. ServerInv => UnfinishedVideosHaveMakers
  <2> SUFFICES ASSUME ServerInv, up, NEW v \in VideoIds, VideoRow(v) \in {"queued", "in_progress"}
               PROVE  BeingMade(v) \/ film[v] \in {"keep", "made"} \cup {"nobody", "cut"}
    BY DEF UnfinishedVideosHaveMakers
  <2>1. film[v] \in FilmPlaces /\ VideoRow(v) \in RowsOfFilm(film[v])
    BY DEF ServerInv, FilmsHaveRows, Typed, FilmTyped
  <2> QED
    BY <2>1 DEF RowsOfFilm, FilmPlaces, BeingMade
<1> QED
  BY <1>1, ServerInvariant, PTL

\* Whoever follows a job or a video is told its end, and is not left waiting
\* once it is over; a video's is let go of without one only if it looked before
\* there was a task, or the task or its own reading met a refusal of the
\* database (`events` of jobs.rs and videos.rs).
THEOREM EndsAreHeard == Spec => []WatchersHear
<1>1. ServerInv => WatchersHearTheEnd
  BY DEF ServerInv, JobsInv, JobFollowed, ToldTheEnd, WatchersHearTheEnd
<1>2. ServerInv => VideoWatchersHear
  BY DEF ServerInv, VideoFollowed, HasEnded, VideoWatchersHear
<1> QED
  BY <1>1, <1>2, ServerInvariant, PTL DEF WatchersHear

\* No step changes a row that has ended, except to delete a video's.
LEMMA EndedRowsStay ==
    ASSUME ServerInv, [Next]_vars, NEW p \in Place, db'[p] # NoRows
    PROVE  /\ \A i \in JobIds : db[p].job[i] \in {"done", "failed", "cancelled"} => db'[p].job[i] = db[p].job[i]
           /\ \A v \in VideoIds : db[p].film[v] \in {"completed", "failed"} =>
                db'[p].film[v] \in {db[p].film[v], "deleted"}
<1> DEFINE Goal == /\ \A i \in JobIds : db[p].job[i] \in {"done", "failed", "cancelled"} => db'[p].job[i] = db[p].job[i]
                   /\ \A v \in VideoIds : db[p].film[v] \in {"completed", "failed"} =>
                        db'[p].film[v] \in {db[p].film[v], "deleted"}
<1>0. home \in Place /\ db \in [Place -> Rows] /\ config \in Place /\ Typed /\ MoveIsHere /\ RowsHaveRuns /\ FilmsHaveRows
  BY DEF ServerInv, JobsInv, Typed, LifeTyped, DiskTyped
<1>1. db'[p] = db[p] => Goal
  OBVIOUS
<1>2. CASE JobsRequest \/ JobsStep
  <2>1. /\ home' = home /\ (p # home => db'[p] = db[p]) /\ db'[p].film = db[p].film
        /\ \A i \in JobIds : \/ JobRow(i)' = JobRow(i)
                             \/ JobRow(i) = "none"
                             \/ run[i].at = "ending"
    BY <1>0, <1>2, JobsWriteJobs DEF SameFilms
  <2>2. \A i \in JobIds : JobRow(i) \in {"done", "failed", "cancelled"} => JobRow(i)' = JobRow(i)
    BY <1>0, <2>1 DEF RowsHaveRuns
  <2> QED
    BY <1>1, <2>1, <2>2 DEF JobRow
<1>3. CASE VideosRequest \/ VideosStep
  <2>1. home' = home /\ (p # home => db'[p] = db[p]) /\ db'[p].job = db[p].job
    BY <1>0, <1>3, VideosWriteVideos DEF SameJobs
  <2>2. \A v \in VideoIds : film[v] \in FilmPlaces /\ VideoRow(v) \in RowsOfFilm(film[v]) /\ FilmGetsOn(v)
    BY <1>0, <1>3, FilmsGetOn, TheRestNeedsTheServer DEF FilmsHaveRows, Typed, FilmTyped
  <2>3. \A v \in VideoIds : HasEnded(v) => VideoRow(v)' \in {VideoRow(v), "deleted"}
    BY <2>2, EndedFilmsStay
  <2> QED
    BY <1>1, <2>1, <2>3 DEF VideoRow, HasEnded
<1>4. CASE StorageRequest \/ StorageStep
  <2>1. db[p] = NoRows \/ (db'[p].job = db[p].job /\ db'[p].film = db[p].film)
    BY <1>0, <1>4, StorageWritesElsewhere DEF SameJobs, SameFilms
  <2> QED
    BY <2>1 DEF NoRows
<1>5. CASE Boot
  <2>1. /\ p # config => db'[p] = db[p]
        /\ db'[config].job = AbandonJobs(db[config].job) /\ db'[config].film = AbandonFilms(db[config].film)
    BY <1>0, <1>5 DEF Boot, Rows
  <2> QED
    BY <1>1, <2>1 DEF AbandonJobs, AbandonFilms
<1>6. AskRestart(Busy) => db' = db
  BY Zenon DEF AskRestart, diskVars
<1>7. BeginRestart => db' = db
  BY DEF BeginRestart, diskVars
<1>8. ProcessEnds => db' = db
  BY DEF ProcessEnds, Die, Exec, Gone, diskVars
<1>9. UNCHANGED vars => db' = db
  BY DEF vars, diskVars
<1> QED
  BY <1>1, <1>2, <1>3, <1>4, <1>5, <1>6, <1>7, <1>8, <1>9 DEF Next

\* Once ended, for good: a row of a job or of a video that has ended is never
\* written again, by a task that ends late, a restart or a copy.
THEOREM EndsAreFinal == Spec => EndedStaysEnded
<1>1. ServerInv /\ [Next]_vars =>
        [\A p \in Place : db'[p] # NoRows =>
            /\ \A i \in JobIds : db[p].job[i] \in {"done", "failed", "cancelled"} => db'[p].job[i] = db[p].job[i]
            /\ \A v \in VideoIds : db[p].film[v] \in {"completed", "failed"} =>
                    db'[p].film[v] \in {db[p].film[v], "deleted"}]_vars
  BY EndedRowsStay
<1> QED
  BY <1>1, ServerInvariant, PTL DEF Spec, EndedStaysEnded

(***************************************************************************)
(* The files of the videos                                                 *)
(*                                                                         *)
(* What a video's row and its task say of its files, where the server is   *)
(* and where a move brings them. A switch that was cut off or could not be *)
(* undone (`torn`) says nothing more.                                      *)
(***************************************************************************)
Has(p, v) == files[p] \cap FilesOf(v)

\* A place a server may start in: what is completed is whole, and what is
\* deleted or was never there has no files, but for those that were crossed.
Complete(p) == \A v \in VideoIds : db[p].film[v] = "completed" => Whole(v) \subseteq Has(p, v)
Tidy(p) == \A v \in VideoIds : db[p].film[v] = "none" \/ (db[p].film[v] = "deleted" /\ v \notin crossed) => Has(p, v) = {}
Ready(p) == Complete(p) /\ Tidy(p)

\* The files that are there for whom looks where the server is, or will be
\* when a rename is undone.
Moved == move.at \in {"note", "config"} /\ move.how = "rename"
Stock(v) == IF Moved THEN Has("here", v) \cup Has("there", v) ELSE Has(home, v)

\* What a video has while the server is up: what its task has written as
\* long as it has a row, and then what nobody removed.
Works(v) ==
    /\ VideoRow(v) = "completed" => Whole(v) \subseteq Stock(v)
    /\ RowIsThere(v) /\ film[v] = "png" => <<v, "mp4">> \in Stock(v)
    /\ RowIsThere(v) /\ film[v] \in {"size", "row"} => Whole(v) \subseteq Stock(v)
    /\ VideoRow(v) = "none" => Has(home, v) = {}
    /\ VideoRow(v) = "deleted" /\ v \notin deleting /\ v \notin crossed =>
        /\ film[v] \notin {"keep", "look"}
        /\ film[v] = "png" => <<v, "mp4">> \in Has(home, v)
        /\ film[v] = "size" => <<v, "mp4">> \in Has(home, v) \/ Has(home, v) = {}
        /\ film[v] \notin {"png", "size", "row", "lost"} => Has(home, v) = {}

DirsHoldFiles == \A p \in Place : p \notin dirs => files[p] = {}

\* Where a move is, where the configuration points and what is in the place
\* it goes to; and a deletion begins with the row.
MoveFits ==
    /\ home = "there" => config = "there"
    /\ move.at \in {"clear", "copy", "checked", "sync", "note", "config"} => config = "here"
    /\ move.at \in {"leave", "go"} => config = "there"
    /\ move.at \in {"sync", "note", "config"} => lock /\ db["there"].film = db["here"].film
    /\ move.at = "config" \/ (config = "there" /\ home = "here") => db["there"].left # "nothing"
    /\ stage \in {"failed", "cancelled"} => move.at = "rest"
    /\ stage \in {"failed", "cancelled"} /\ config = "here" =>
        files["there"] = {} /\ "there" \notin dirs /\ db["there"] = NoRows
DeletionsBegun == \A v \in deleting : up /\ VideoRow(v) = "deleted"

FilesKept ==
    ~torn => /\ ~up => Ready(config)
             /\ move.at \in {"note", "config"} \/ home # config => Ready("there")
             /\ up /\ home = config => \A v \in VideoIds : Works(v)

FilesInv == DirsHoldFiles /\ MoveFits /\ DeletionsBegun /\ FilesKept

\* The files of a video are of no other.
LEMMA FilesAreOwn ==
    ASSUME NEW v \in VideoIds
    PROVE  /\ Whole(v) = {<<v, "mp4">>, <<v, "png">>} /\ Whole(v) \subseteq FilesOf(v)
           /\ \A ext \in Extensions : <<v, ext>> \in FilesOf(v)
           /\ <<v, "preview.png">> \notin Whole(v)
           /\ \A w \in VideoIds \ {v} : \A f \in FilesOf(v) : f \notin FilesOf(w)
BY DEF Whole, FilesOf, Extensions

\* It is the same for a video with the same row, task and files.
LEMMA WorkIsAlike ==
    ASSUME NEW v \in VideoIds, Works(v), Stock(v)' = Stock(v), Has(home, v)' = Has(home, v),
           film'[v] = film[v], VideoRow(v)' = VideoRow(v),
           v \in deleting' <=> v \in deleting, v \in crossed => v \in crossed'
    PROVE  Works(v)'
<1>1. RowIsThere(v)' <=> RowIsThere(v)
  BY DEF RowIsThere
<1> QED
  BY <1>1 DEF Works

\* What a video has depends on what is its own.
LEMMA WorkIsOwn ==
    ASSUME NEW v \in VideoIds, home \in Place, Works(v), UNCHANGED <<home, move>>,
           film'[v] = film[v], VideoRow(v)' = VideoRow(v), \A p \in Place : Has(p, v)' = Has(p, v),
           v \in deleting' <=> v \in deleting, v \in crossed => v \in crossed'
    PROVE  Works(v)'
<1>1. Stock(v)' = Stock(v) /\ Has(home, v)' = Has(home, v)
  BY DEF Stock, Moved, Place, Has
<1> QED
  BY <1>1, WorkIsAlike

\* A step of one video's leaves the others.
LEMMA OthersWorkOn ==
    ASSUME NEW v \in VideoIds, home \in Place, \A w \in VideoIds : Works(w), UNCHANGED <<home, move>>,
           \A w \in VideoIds \ {v} : /\ film'[w] = film[w] /\ VideoRow(w)' = VideoRow(w)
                                     /\ \A p \in Place : Has(p, w)' = Has(p, w)
                                     /\ w \in deleting' <=> w \in deleting
                                     /\ w \in crossed => w \in crossed',
           Works(v)'
    PROVE  \A w \in VideoIds : Works(w)'
BY WorkIsOwn

\* What is written or removed where the server is.
LEMMA HomeIsWritten ==
    ASSUME DiskTyped, home \in Place, UNCHANGED home, NEW v \in VideoIds, NEW fs \in SUBSET FilesOf(v)
    PROVE  /\ files' = [files EXCEPT ![home] = @ \cup fs] =>
                /\ Has(home, v)' = Has(home, v) \cup fs
                /\ \A p \in Place \ {home} : files'[p] = files[p]
                /\ \A w \in VideoIds \ {v} : \A p \in Place : Has(p, w)' = Has(p, w)
           /\ files' = [files EXCEPT ![home] = @ \ fs] =>
                /\ Has(home, v)' = Has(home, v) \ fs
                /\ \A p \in Place \ {home} : files'[p] = files[p]
                /\ \A w \in VideoIds \ {v} : \A p \in Place : Has(p, w)' = Has(p, w)
<1>0. files \in [Place -> SUBSET VideoFiles] /\ \A w \in VideoIds \ {v} : \A f \in FilesOf(v) : f \notin FilesOf(w)
  BY FilesAreOwn DEF DiskTyped
<1>1. ASSUME files' = [files EXCEPT ![home] = @ \cup fs]
      PROVE  /\ Has(home, v)' = Has(home, v) \cup fs
             /\ \A p \in Place \ {home} : files'[p] = files[p]
             /\ \A w \in VideoIds \ {v} : \A p \in Place : Has(p, w)' = Has(p, w)
  <2>1. files'[home] = files[home] \cup fs /\ \A p \in Place \ {home} : files'[p] = files[p]
    BY <1>0, <1>1
  <2>2. files'[home] \cap FilesOf(v) = (files[home] \cap FilesOf(v)) \cup fs
    BY <2>1
  <2>3. \A w \in VideoIds \ {v} : files'[home] \cap FilesOf(w) = files[home] \cap FilesOf(w)
    BY <1>0, <2>1
  <2> QED
    BY <2>1, <2>2, <2>3 DEF Has
<1>2. ASSUME files' = [files EXCEPT ![home] = @ \ fs]
      PROVE  /\ Has(home, v)' = Has(home, v) \ fs
             /\ \A p \in Place \ {home} : files'[p] = files[p]
             /\ \A w \in VideoIds \ {v} : \A p \in Place : Has(p, w)' = Has(p, w)
  <2>1. files'[home] = files[home] \ fs /\ \A p \in Place \ {home} : files'[p] = files[p]
    BY <1>0, <1>2
  <2>2. files'[home] \cap FilesOf(v) = (files[home] \cap FilesOf(v)) \ fs
    BY <2>1
  <2>3. \A w \in VideoIds \ {v} : files'[home] \cap FilesOf(w) = files[home] \cap FilesOf(w)
    BY <1>0, <2>1
  <2> QED
    BY <2>1, <2>2, <2>3 DEF Has
<1> QED
  BY <1>1, <1>2

\* Every step of the videos keeps what they have.
LEMMA VideosWorkOn ==
    ASSUME Typed, up, FilmsHaveRows, DeletionsBegun, Moved => lock /\ home = "here",
           \A v \in VideoIds : Works(v), VideosRequest \/ VideosStep, UNCHANGED move
    PROVE  \A v \in VideoIds : Works(v)'
<1> DEFINE Goal == \A v \in VideoIds : Works(v)'
           Rest(v) == \A w \in VideoIds \ {v} : /\ film'[w] = film[w] /\ VideoRow(w)' = VideoRow(w)
                                                /\ \A p \in Place : Has(p, w)' = Has(p, w)
                                                /\ w \in deleting' <=> w \in deleting
                                                /\ w \in crossed => w \in crossed'
<1>0. /\ film \in [VideoIds -> FilmPlaces] /\ home \in Place /\ db \in [Place -> Rows] /\ DiskTyped /\ LifeTyped
      /\ Place = {"here", "there"}
  BY DEF Typed, FilmTyped, LifeTyped, DiskTyped, Place
<1>1. ASSUME NEW v \in VideoIds, UNCHANGED home, Rest(v), Works(v)' PROVE Goal
  <2> HIDE DEF Rest
  <2>1. \A w \in VideoIds \ {v} : /\ film'[w] = film[w] /\ VideoRow(w)' = VideoRow(w)
                                  /\ \A p \in Place : Has(p, w)' = Has(p, w)
                                  /\ w \in deleting' <=> w \in deleting
                                  /\ w \in crossed => w \in crossed'
    BY <1>1 DEF Rest
  <2> QED
    BY <1>0, <1>1, <2>1, OthersWorkOn
<1>2. ASSUME NEW v \in VideoIds, NEW at, Goes(v, at)
      PROVE  film'[v] = at /\ \A w \in VideoIds \ {v} : film'[w] = film[w]
  BY <1>0, <1>2 DEF Goes
<1>3. ASSUME UNCHANGED <<db, home>> PROVE \A w \in VideoIds : VideoRow(w)' = VideoRow(w)
  BY <1>3 DEF VideoRow
<1>4. ASSUME NEW v \in VideoIds, NEW status \in VideoStates, SetVideoRow(v, status), home' = home
      PROVE  VideoRow(v)' = status /\ \A w \in VideoIds \ {v} : VideoRow(w)' = VideoRow(w)
  BY <1>0, <1>4, VideoRowIsSet DEF VideoRow
<1>5. ASSUME UNCHANGED <<files, home>> PROVE \A w \in VideoIds : \A p \in Place : Has(p, w)' = Has(p, w)
  BY <1>5 DEF Has
<1>6. \A v \in VideoIds : film[v] \in FilmPlaces /\ VideoRow(v) \in RowsOfFilm(film[v])
  BY <1>0 DEF FilmsHaveRows
\* One that has no task, or is not where files are written, with no more files than it had.
<1>7. ASSUME NEW v \in VideoIds, UNCHANGED home, \A p \in Place : Has(p, v)' = Has(p, v)
      PROVE  Stock(v)' = Stock(v) /\ Has(home, v)' = Has(home, v)
  BY <1>0, <1>7 DEF Stock, Moved, Has
<1>8. ASSUME NEW v \in VideoIds, NEW fs \in SUBSET FilesOf(v), UNCHANGED home,
             files' = [files EXCEPT ![home] = @ \cup fs]
      PROVE  /\ Has(home, v)' = Has(home, v) \cup fs /\ Stock(v)' = Stock(v) \cup fs
             /\ \A w \in VideoIds \ {v} : \A p \in Place : Has(p, w)' = Has(p, w)
  <2>1. /\ Has(home, v)' = Has(home, v) \cup fs /\ \A p \in Place \ {home} : files'[p] = files[p]
        /\ \A w \in VideoIds \ {v} : \A p \in Place : Has(p, w)' = Has(p, w)
    BY <1>0, <1>8, HomeIsWritten
  <2>2. \A p \in Place \ {home} : Has(p, v)' = Has(p, v)
    BY <2>1 DEF Has
  <2>3. Stock(v)' = Stock(v) \cup fs
    BY <1>0, <1>8, <2>1, <2>2 DEF Stock, Moved
  <2> QED
    BY <2>1, <2>3
<1>9. ASSUME NEW v \in VideoIds, NEW fs \in SUBSET FilesOf(v), UNCHANGED home,
             files' = [files EXCEPT ![home] = @ \ fs]
      PROVE  /\ Has(home, v)' = Has(home, v) \ fs /\ Stock(v) \ fs \subseteq Stock(v)'
             /\ \A w \in VideoIds \ {v} : \A p \in Place : Has(p, w)' = Has(p, w)
  <2>1. /\ Has(home, v)' = Has(home, v) \ fs /\ \A p \in Place \ {home} : files'[p] = files[p]
        /\ \A w \in VideoIds \ {v} : \A p \in Place : Has(p, w)' = Has(p, w)
    BY <1>0, <1>9, HomeIsWritten
  <2>2. \A p \in Place \ {home} : Has(p, v)' = Has(p, v)
    BY <2>1 DEF Has
  <2>3. Stock(v) \ fs \subseteq Stock(v)'
    BY <1>0, <1>9, <2>1, <2>2 DEF Stock, Moved
  <2> QED
    BY <2>1, <2>3
<1>9a. ASSUME NEW v \in VideoIds, NEW ext \in {"mp4", "png", "input", "preview.png"}, UNCHANGED home,
              files' = [files EXCEPT ![home] = @ \cup {<<v, ext>>}]
       PROVE  /\ Has(home, v)' = Has(home, v) \cup {<<v, ext>>} /\ Stock(v)' = Stock(v) \cup {<<v, ext>>}
              /\ \A w \in VideoIds \ {v} : \A p \in Place : Has(p, w)' = Has(p, w)
  <2>1. {<<v, ext>>} \in SUBSET FilesOf(v)
    BY FilesAreOwn DEF Extensions
  <2> QED
    BY <1>8, <1>9a, <2>1
<1>10. ASSUME NEW v \in VideoIds, NEW picture \in BOOLEAN, CreateVideo(v, picture) PROVE Goal
  <2>1. /\ UNCHANGED <<home, files, deleting, crossed>> /\ v \in NextIn(db[home].film) /\ SetVideoRow(v, "queued")
        /\ \E at \in {"keep", "made", "nobody"} : Goes(v, at)
    BY <1>10 DEF CreateVideo, lifeVars
  <2>2. VideoRow(v)' = "queued" /\ \A w \in VideoIds \ {v} : VideoRow(w)' = VideoRow(w)
    BY <1>4, <2>1 DEF VideoStates
  <2>3. Works(v)'
    BY <1>2, <2>1, <2>2 DEF Works
  <2> QED
    BY <1>1, <1>2, <1>5, <2>1, <2>2, <2>3
<1>11. ASSUME NEW v \in VideoIds, DeleteRow(v) PROVE Goal
  <2>1. UNCHANGED <<home, files, film, crossed>> /\ SetVideoRow(v, "deleted") /\ deleting' = deleting \cup {v}
    BY <1>11 DEF DeleteRow, lifeVars
  <2>2. VideoRow(v)' = "deleted" /\ \A w \in VideoIds \ {v} : VideoRow(w)' = VideoRow(w)
    BY <1>4, <2>1 DEF VideoStates
  <2>3. Works(v)'
    BY <2>1, <2>2 DEF Works, RowIsThere
  <2> QED
    BY <1>1, <1>5, <2>1, <2>2, <2>3
<1>12. ASSUME UNCHANGED <<db, files, home, filmVars>> PROVE Goal
  <2>1. UNCHANGED <<film, deleting, crossed>>
    BY <1>12 DEF filmVars
  <2> QED
    BY <1>0, <1>3, <1>5, <1>12, <2>1, WorkIsOwn
<1>13. ASSUME NEW v \in VideoIds, FollowVideo(v) PROVE Goal
  BY <1>12, <1>13 DEF FollowVideo, diskVars, lifeVars
<1>14. CASE ReadVideo \/ HearVideo
  BY <1>12, <1>14 DEF ReadVideo, HearVideo, diskVars, lifeVars
\* A task that moves on by itself: its row stays, and nobody deletes.
<1>15. ASSUME NEW v \in VideoIds, UNCHANGED <<db, home, deleting, crossed>>, NEW at, Goes(v, at),
              \A w \in VideoIds \ {v} : \A p \in Place : Has(p, w)' = Has(p, w),
              Works(v)'
       PROVE  Goal
  BY <1>1, <1>2, <1>3, <1>15
<1>16. ASSUME NEW v \in VideoIds, KeepPicture(v) PROVE Goal
  <2>1. UNCHANGED <<db, home, deleting, crossed>> /\ film[v] = "keep"
    BY <1>16 DEF KeepPicture, lifeVars
  <2>2. PICK at \in {"made", "nobody"} : Goes(v, at)
    BY <1>16 DEF KeepPicture
  <2>3. UNCHANGED files \/ files' = [files EXCEPT ![home] = @ \cup {<<v, "input">>}]
    BY <1>16 DEF KeepPicture, Adds
  <2>4. \A w \in VideoIds \ {v} : \A p \in Place : Has(p, w)' = Has(p, w)
    BY <1>5, <1>9a, <2>1, <2>3
  <2>5. Works(v)'
    BY <1>2, <1>3, <1>6, <2>1, <2>2 DEF Works, RowsOfFilm, RowIsThere
  <2> QED
    BY <1>15, <2>1, <2>2, <2>4, <2>5
<1>31. ASSUME NEW v \in VideoIds, BeginFilm(v) PROVE Goal
  <2>1. UNCHANGED <<db, files, home, deleting, crossed>> /\ film[v] = "made"
    BY <1>31 DEF BeginFilm, lifeVars, diskVars
  <2>2. PICK at \in {"film", "nobody"} : Goes(v, at)
    BY <1>31 DEF BeginFilm
  <2>3. Works(v)'
    BY <1>2, <1>3, <1>5, <1>6, <1>7, <2>1, <2>2 DEF Works, RowsOfFilm, RowIsThere
  <2> QED
    BY <1>5, <1>15, <2>1, <2>2, <2>3
<1>17. ASSUME NEW v \in VideoIds, Advance(v) PROVE Goal
  <2>1. /\ UNCHANGED <<home, files, deleting, crossed>> /\ film[v] = "film"
        /\ \/ SetVideoRow(v, "in_progress") /\ Goes(v, "look")
           \/ UNCHANGED db /\ \E at \in {"over", "cut"} : Goes(v, at)
    BY <1>17 DEF Advance, lifeVars
  <2>2. ASSUME UNCHANGED db, NEW at \in {"over", "cut"}, Goes(v, at) PROVE Goal
    <3>1. Works(v)'
      BY <1>2, <1>3, <1>5, <1>6, <1>7, <2>1, <2>2 DEF Works, RowsOfFilm, RowIsThere
    <3> QED
      BY <1>5, <1>15, <2>1, <2>2, <3>1
  <2>3. ASSUME SetVideoRow(v, "in_progress"), Goes(v, "look") PROVE Goal
    <3>1. VideoRow(v)' = "in_progress" /\ \A w \in VideoIds \ {v} : VideoRow(w)' = VideoRow(w)
      BY <1>4, <2>1, <2>3 DEF VideoStates
    <3>2. Works(v)'
      BY <1>2, <2>3, <3>1 DEF Works
    <3> QED
      BY <1>1, <1>2, <1>5, <2>1, <2>3, <3>1, <3>2
  <2> QED
    BY <2>1, <2>2, <2>3
<1>18. ASSUME NEW v \in VideoIds, Look(v) PROVE Goal
  <2>1. UNCHANGED <<db, home, deleting, crossed>> /\ film[v] = "look" /\ Goes(v, "film")
    BY <1>18 DEF Look, lifeVars
  <2>2. UNCHANGED files \/ files' = [files EXCEPT ![home] = @ \cup {<<v, "preview.png">>}]
    BY <1>18 DEF Look, Adds
  <2>3. \A w \in VideoIds \ {v} : \A p \in Place : Has(p, w)' = Has(p, w)
    BY <1>5, <1>9a, <2>1, <2>2
  <2>4. Works(v)'
    BY <1>2, <1>3, <1>6, <2>1 DEF Works, RowsOfFilm, RowIsThere
  <2> QED
    BY <1>15, <2>1, <2>3, <2>4
<1>19. ASSUME NEW v \in VideoIds, Tick(v) PROVE Goal
  <2>1. UNCHANGED <<db, files, home, deleting, crossed>> /\ film[v] = "film" /\ Goes(v, "over") /\ ~RowIsThere(v)
    BY <1>19 DEF Tick, diskVars, lifeVars
  <2>2. Works(v)'
    BY <1>2, <1>3, <1>5, <1>6, <1>7, <2>1 DEF Works, RowsOfFilm, RowIsThere
  <2> QED
    BY <1>5, <1>15, <2>1, <2>2
<1>20. ASSUME NEW v \in VideoIds, Filmed(v) PROVE Goal
  <2>1. UNCHANGED <<db, files, home, deleting, crossed>> /\ film[v] = "film"
    BY <1>20 DEF Filmed, diskVars, lifeVars
  <2>2. PICK at \in {"mp4", "fail"} : Goes(v, at)
    BY <1>20 DEF Filmed
  <2>3. Works(v)'
    BY <1>2, <1>3, <1>5, <1>6, <1>7, <2>1, <2>2 DEF Works, RowsOfFilm, RowIsThere
  <2> QED
    BY <1>5, <1>15, <2>1, <2>2, <2>3
\* A file that could not be written: none of its are left.
<1>21. ASSUME NEW v \in VideoIds, FailedToWrite(v), UNCHANGED <<db, home, deleting, crossed>>,
              film[v] \in {"mp4", "png"}
       PROVE  Goal
  <2>1. files' = [files EXCEPT ![home] = @ \ FilesOf(v)] /\ Goes(v, "fail")
    BY <1>21 DEF FailedToWrite, Removes
  <2>2. /\ Has(home, v)' = Has(home, v) \ FilesOf(v)
        /\ \A w \in VideoIds \ {v} : \A p \in Place : Has(p, w)' = Has(p, w)
    BY <1>9, <1>21, <2>1
  <2>3. Has(home, v)' = {}
    BY <2>2 DEF Has
  <2>4. VideoRow(v)' = VideoRow(v) /\ VideoRow(v) \in {"queued", "in_progress", "deleted"} /\ film'[v] = "fail"
    BY <1>2, <1>3, <1>6, <1>21, <2>1 DEF RowsOfFilm
  <2>5. Works(v)'
    BY <1>21, <2>3, <2>4 DEF Works
  <2> QED
    BY <1>15, <1>21, <2>1, <2>2, <2>5
<1>22. ASSUME NEW v \in VideoIds, WriteVideo(v) PROVE Goal
  <2>1. UNCHANGED <<db, home, deleting, crossed>> /\ film[v] = "mp4"
    BY <1>22 DEF WriteVideo, lifeVars
  <2>2. FailedToWrite(v) \/ (Goes(v, "png") /\ files' = [files EXCEPT ![home] = @ \cup {<<v, "mp4">>}])
    BY <1>22 DEF WriteVideo, Adds
  <2>3. CASE Goes(v, "png") /\ files' = [files EXCEPT ![home] = @ \cup {<<v, "mp4">>}]
    <3>1. /\ <<v, "mp4">> \in Has(home, v)' /\ <<v, "mp4">> \in Stock(v)'
          /\ \A w \in VideoIds \ {v} : \A p \in Place : Has(p, w)' = Has(p, w)
      BY <1>9a, <2>1, <2>3
    <3>2. VideoRow(v)' = VideoRow(v) /\ VideoRow(v) \in {"queued", "in_progress", "deleted"} /\ film'[v] = "png"
      BY <1>2, <1>3, <1>6, <2>1, <2>3 DEF RowsOfFilm
    <3>3. Works(v)'
      BY <2>1, <3>1, <3>2 DEF Works
    <3> QED
      BY <1>15, <2>1, <2>3, <3>1, <3>3
  <2> QED
    BY <1>21, <2>1, <2>2, <2>3
<1>23. ASSUME NEW v \in VideoIds, WritePoster(v) PROVE Goal
  <2>1. UNCHANGED <<db, home, deleting, crossed>> /\ film[v] = "png"
    BY <1>23 DEF WritePoster, lifeVars
  <2>2. FailedToWrite(v) \/ (Goes(v, "size") /\ files' = [files EXCEPT ![home] = @ \cup {<<v, "png">>}])
    BY <1>23 DEF WritePoster, Write, Adds
  <2>3. CASE Goes(v, "size") /\ files' = [files EXCEPT ![home] = @ \cup {<<v, "png">>}]
    <3>1. /\ Has(home, v)' = Has(home, v) \cup {<<v, "png">>} /\ Stock(v)' = Stock(v) \cup {<<v, "png">>}
          /\ \A w \in VideoIds \ {v} : \A p \in Place : Has(p, w)' = Has(p, w)
      BY <1>9a, <2>1, <2>3
    <3>2. VideoRow(v)' = VideoRow(v) /\ VideoRow(v) \in {"queued", "in_progress", "deleted"} /\ film'[v] = "size"
      BY <1>2, <1>3, <1>6, <2>1, <2>3 DEF RowsOfFilm
    <3>3. /\ RowIsThere(v) => <<v, "mp4">> \in Stock(v)
          /\ VideoRow(v) = "deleted" /\ v \notin deleting /\ v \notin crossed => <<v, "mp4">> \in Has(home, v)
      BY <2>1 DEF Works
    <3>4. Whole(v) = {<<v, "mp4">>, <<v, "png">>} /\ (RowIsThere(v)' <=> RowIsThere(v))
      BY <3>2, FilesAreOwn DEF RowIsThere
    <3>5. RowIsThere(v) => Whole(v) \subseteq Stock(v)'
      BY <3>1, <3>3, <3>4
    <3>6. VideoRow(v) = "deleted" /\ v \notin deleting /\ v \notin crossed => <<v, "mp4">> \in Has(home, v)'
      BY <3>1, <3>3
    <3>7. Works(v)'
      BY <2>1, <3>2, <3>4, <3>5, <3>6 DEF Works
    <3> QED
      BY <1>15, <2>1, <2>3, <3>1, <3>7
  <2> QED
    BY <1>21, <2>1, <2>2, <2>3
<1>24. ASSUME NEW v \in VideoIds, Weigh(v) PROVE Goal
  <2>1. UNCHANGED <<db, files, home, deleting, crossed>> /\ film[v] = "size"
    BY <1>24 DEF Weigh, diskVars, lifeVars
  <2>2. Goes(v, IF <<v, "mp4">> \in files[home] THEN "row" ELSE "fail")
    BY <1>24 DEF Weigh
  <2>3. <<v, "mp4">> \in files[home] <=> <<v, "mp4">> \in Has(home, v)
    BY FilesAreOwn DEF Has, Extensions
  <2>4. VideoRow(v)' = VideoRow(v) /\ VideoRow(v) \in {"queued", "in_progress", "deleted"}
    BY <1>3, <1>6, <2>1 DEF RowsOfFilm
  <2>5. Stock(v)' = Stock(v) /\ Has(home, v)' = Has(home, v)
    BY <1>5, <1>7, <2>1
  <2>6. film'[v] = IF <<v, "mp4">> \in Has(home, v) THEN "row" ELSE "fail"
    BY <1>2, <2>2, <2>3
  <2>7. Works(v)'
    BY <2>1, <2>4, <2>5, <2>6 DEF Works, RowIsThere
  <2> QED
    BY <1>5, <1>15, <2>1, <2>2, <2>7
<1>25. ASSUME NEW v \in VideoIds, FinishRow(v) PROVE Goal
  <2>1. /\ UNCHANGED <<home, files, deleting>> /\ film[v] = "row"
        /\ \/ RowIsThere(v) /\ SetVideoRow(v, "completed") /\ Goes(v, "clean") /\ UNCHANGED crossed
           \/ ~RowIsThere(v) /\ UNCHANGED <<db, crossed>> /\ Goes(v, "lost")
           \/ /\ UNCHANGED db /\ Goes(v, "fail")
              /\ crossed' = IF RowIsThere(v) \/ v \in deleting THEN crossed ELSE crossed \cup {v}
    BY <1>25 DEF FinishRow, lifeVars
  <2>2. Stock(v)' = Stock(v)
    BY <1>5, <1>7, <2>1
  <2>3. ASSUME ~RowIsThere(v), UNCHANGED <<db, crossed>>, Goes(v, "lost") PROVE Goal
    <3>1. Works(v)'
      BY <1>2, <1>3, <1>6, <2>1, <2>3 DEF Works, RowsOfFilm, RowIsThere
    <3> QED
      BY <1>5, <1>15, <2>1, <2>3, <3>1
  <2>4. ASSUME RowIsThere(v), SetVideoRow(v, "completed"), Goes(v, "clean"), UNCHANGED crossed PROVE Goal
    <3>1. VideoRow(v)' = "completed" /\ \A w \in VideoIds \ {v} : VideoRow(w)' = VideoRow(w)
      BY <1>4, <2>1, <2>4 DEF VideoStates
    <3>2. Whole(v) \subseteq Stock(v)
      BY <2>1, <2>4 DEF Works
    <3>3. Works(v)'
      BY <1>2, <2>2, <2>4, <3>1, <3>2 DEF Works
    <3> QED
      BY <1>1, <1>2, <1>5, <2>1, <2>4, <3>1, <3>3
  \* A refused write leaves the files, and of a row that has gone for good.
  <2>5. ASSUME UNCHANGED db, Goes(v, "fail"),
               crossed' = IF RowIsThere(v) \/ v \in deleting THEN crossed ELSE crossed \cup {v}
        PROVE  Goal
    <3>1. VideoRow(v)' = VideoRow(v) /\ VideoRow(v) \in {"queued", "in_progress", "deleted"} /\ film'[v] = "fail"
      BY <1>2, <1>3, <1>6, <2>1, <2>5 DEF RowsOfFilm
    <3>2. VideoRow(v) = "deleted" => v \in deleting' \/ v \in crossed'
      BY <2>1, <2>5 DEF RowIsThere
    <3>3. Works(v)'
      BY <3>1, <3>2 DEF Works
    <3>4. Rest(v)
      BY <1>2, <1>3, <1>5, <2>1, <2>5
    <3> QED
      BY <1>1, <2>1, <3>3, <3>4
  <2> QED
    BY <2>1, <2>3, <2>4, <2>5
\* The preview goes, and who has none or only needs the others keeps them.
<1>26. ASSUME NEW v \in VideoIds, UNCHANGED home, files' = [files EXCEPT ![home] = @ \ {<<v, "preview.png">>}]
       PROVE  /\ \A w \in VideoIds \ {v} : \A p \in Place : Has(p, w)' = Has(p, w)
              /\ Whole(v) \subseteq Stock(v) => Whole(v) \subseteq Stock(v)'
              /\ Has(home, v) = {} => Has(home, v)' = {}
  <2>1. {<<v, "preview.png">>} \in SUBSET FilesOf(v) /\ <<v, "preview.png">> \notin Whole(v)
    BY FilesAreOwn DEF Extensions
  <2>2. /\ Has(home, v)' = Has(home, v) \ {<<v, "preview.png">>}
        /\ Stock(v) \ {<<v, "preview.png">>} \subseteq Stock(v)'
        /\ \A w \in VideoIds \ {v} : \A p \in Place : Has(p, w)' = Has(p, w)
    BY <1>9, <1>26, <2>1
  <2> QED
    BY <2>1, <2>2
<1>27. ASSUME NEW v \in VideoIds, CleanUp(v) PROVE Goal
  <2>1. UNCHANGED <<db, home, deleting, crossed>> /\ film[v] \in {"clean", "lost"} /\ Goes(v, "over")
    BY <1>27 DEF CleanUp, lifeVars
  <2>2. VideoRow(v)' = VideoRow(v) /\ film'[v] = "over"
    BY <1>2, <1>3, <2>1
  <2>3. CASE film[v] = "lost"
    <3>1. files' = [files EXCEPT ![home] = @ \ FilesOf(v)] /\ VideoRow(v) = "deleted"
      BY <1>6, <1>27, <2>3 DEF CleanUp, Removes, Leftover, RowsOfFilm
    <3>2. /\ Has(home, v)' = Has(home, v) \ FilesOf(v)
          /\ \A w \in VideoIds \ {v} : \A p \in Place : Has(p, w)' = Has(p, w)
      BY <1>9, <2>1, <3>1
    <3>3. Has(home, v)' = {}
      BY <3>2 DEF Has
    <3>4. Works(v)'
      BY <2>2, <3>1, <3>3 DEF Works, RowIsThere
    <3> QED
      BY <1>15, <2>1, <3>2, <3>4
  <2>4. CASE film[v] = "clean"
    <3>1. files' = [files EXCEPT ![home] = @ \ {<<v, "preview.png">>}] /\ VideoRow(v) \in {"completed", "deleted"}
      BY <1>6, <1>27, <2>4 DEF CleanUp, Removes, Leftover, RowsOfFilm
    <3>2. /\ \A w \in VideoIds \ {v} : \A p \in Place : Has(p, w)' = Has(p, w)
          /\ Whole(v) \subseteq Stock(v) => Whole(v) \subseteq Stock(v)'
          /\ Has(home, v) = {} => Has(home, v)' = {}
      BY <1>26, <2>1, <3>1
    <3>3. Works(v)'
      BY <2>1, <2>2, <2>4, <3>1, <3>2 DEF Works
    <3> QED
      BY <1>15, <2>1, <3>2, <3>3
  <2> QED
    BY <2>1, <2>3, <2>4
<1>28. ASSUME NEW v \in VideoIds, FailVideo(v) PROVE Goal
  <2>1. /\ UNCHANGED <<home, deleting, crossed>> /\ film[v] = "fail"
        /\ files' = [files EXCEPT ![home] = @ \ {<<v, "preview.png">>}]
        /\ \/ SetVideoRow(v, "failed") /\ Goes(v, "over")
           \/ UNCHANGED db /\ \E at \in {"over", "cut"} : Goes(v, at)
    BY <1>28 DEF FailVideo, lifeVars, Removes
  <2>2. /\ \A w \in VideoIds \ {v} : \A p \in Place : Has(p, w)' = Has(p, w)
        /\ Has(home, v) = {} => Has(home, v)' = {}
    BY <1>26, <2>1
  <2>3. ASSUME UNCHANGED db, NEW at \in {"over", "cut"}, Goes(v, at) PROVE Goal
    <3>1. VideoRow(v)' = VideoRow(v) /\ VideoRow(v) \in {"queued", "in_progress", "deleted"} /\ film'[v] = at
      BY <1>2, <1>3, <1>6, <2>1, <2>3 DEF RowsOfFilm
    <3>2. Works(v)'
      BY <2>1, <2>2, <3>1 DEF Works, RowIsThere
    <3> QED
      BY <1>15, <2>1, <2>2, <2>3, <3>2
  <2>4. ASSUME SetVideoRow(v, "failed"), Goes(v, "over") PROVE Goal
    <3>1. VideoRow(v)' = "failed" /\ \A w \in VideoIds \ {v} : VideoRow(w)' = VideoRow(w)
      BY <1>4, <2>1, <2>4 DEF VideoStates
    <3>2. Works(v)'
      BY <1>2, <2>4, <3>1 DEF Works
    <3> QED
      BY <1>1, <1>2, <2>1, <2>2, <2>4, <3>1, <3>2
  <2> QED
    BY <2>1, <2>3, <2>4
<1>29. ASSUME NEW v \in VideoIds, DeleteFiles(v) PROVE Goal
  <2>1. /\ UNCHANGED <<db, home, film>> /\ v \in deleting /\ deleting' = deleting \ {v}
        /\ crossed' = IF film[v] \in {"keep", "look", "png"} THEN crossed \cup {v} ELSE crossed
        /\ files' = [files EXCEPT ![home] = @ \ FilesOf(v)]
    BY <1>29 DEF DeleteFiles, lifeVars, Removes
  <2>2. /\ Has(home, v)' = Has(home, v) \ FilesOf(v)
        /\ \A w \in VideoIds \ {v} : \A p \in Place : Has(p, w)' = Has(p, w)
    BY <1>9, <2>1
  <2>3. Has(home, v)' = {}
    BY <2>2 DEF Has
  <2>4. VideoRow(v)' = "deleted" /\ \A w \in VideoIds : VideoRow(w)' = VideoRow(w)
    BY <1>3, <2>1 DEF DeletionsBegun
  <2>5. Works(v)'
    BY <2>1, <2>3, <2>4 DEF Works, RowIsThere
  <2>6. Rest(v)
    BY <2>1, <2>2, <2>4
  <2> QED
    BY <1>1, <2>1, <2>5, <2>6
<1>30. Goal
  BY <1>10, <1>11, <1>13, <1>14, <1>16, <1>17, <1>18, <1>19, <1>20, <1>22, <1>23, <1>24, <1>25, <1>27, <1>28, <1>29,
     <1>31 DEF VideosRequest, VideosStep
<1> QED
  BY <1>30

\* They write where the server is, in a directory that is there.
LEMMA VideosTouchHome ==
    ASSUME Typed, up, FilmsHaveRows, DirsHoldFiles, DeletionsBegun, VideosRequest \/ VideosStep
    PROVE  /\ \A p \in Place \ {home} : files'[p] = files[p] /\ db'[p] = db[p] /\ (p \in dirs' <=> p \in dirs)
           /\ DirsHoldFiles' /\ DeletionsBegun'
           /\ crossed \subseteq crossed'
           /\ lock => db' = db
           /\ UNCHANGED <<config, home, lock, up>>
<1>0. files \in [Place -> SUBSET VideoFiles] /\ home \in Place
  BY DEF Typed, LifeTyped, DiskTyped
<1>1. UNCHANGED <<config, home, lock, up>> /\ \A p \in Place \ {home} : db'[p] = db[p]
  BY VideosWriteVideos
<1> DEFINE Wrote(fs) == files' = [files EXCEPT ![home] = @ \cup fs] /\ home \in dirs'
           Removed(fs) == files' = [files EXCEPT ![home] = @ \ fs]
           Touched == /\ dirs' \in {dirs, dirs \cup {home}}
                      /\ UNCHANGED files \/ (\E f : Wrote({f})) \/ (\E fs : Removed(fs))
<1>2. Touched
  <2>1. ASSUME NEW v, NEW picture, CreateVideo(v, picture) \/ DeleteRow(v) \/ FollowVideo(v) PROVE Touched
    BY <2>1 DEF CreateVideo, DeleteRow, FollowVideo, diskVars
  <2>2. ASSUME NEW v, BeginFilm(v) \/ Advance(v) \/ Tick(v) \/ Filmed(v) \/ Weigh(v) \/ FinishRow(v) PROVE Touched
    BY <2>2 DEF BeginFilm, Advance, Tick, Filmed, Weigh, FinishRow, diskVars
  <2>3. ASSUME NEW v, CleanUp(v) \/ FailVideo(v) \/ DeleteFiles(v) PROVE Touched
    BY <2>3 DEF CleanUp, FailVideo, DeleteFiles, Removes
  <2>4. ASSUME NEW v, KeepPicture(v) PROVE Touched
    BY <2>4 DEF KeepPicture, HasDir, Adds
  <2>5. ASSUME NEW v, Look(v) PROVE Touched
    BY <2>5 DEF Look, Adds
  <2>6. ASSUME NEW v, WriteVideo(v) PROVE Touched
    BY <2>6 DEF WriteVideo, FailedToWrite, Adds, Removes
  <2>7. ASSUME NEW v, WritePoster(v) PROVE Touched
    BY <2>7 DEF WritePoster, Write, FailedToWrite, HasDir, Adds, Removes
  <2>8. CASE ReadVideo \/ HearVideo
    BY <2>8 DEF ReadVideo, HearVideo, diskVars
  <2> HIDE DEF Touched
  <2> QED
    BY <2>1, <2>2, <2>3, <2>4, <2>5, <2>6, <2>7, <2>8 DEF VideosRequest, VideosStep
<1>3. /\ \A p \in Place \ {home} : files'[p] = files[p]
      /\ home \in dirs' \/ files'[home] \subseteq files[home]
      /\ \A p \in Place \ {home} : p \in dirs' <=> p \in dirs
      /\ dirs \subseteq dirs'
  <2>1. CASE UNCHANGED files
    BY <1>2, <2>1
  <2>2. ASSUME NEW f, Wrote({f})
        PROVE  home \in dirs' /\ \A p \in Place \ {home} : files'[p] = files[p]
    BY <1>0, <2>2
  <2>3. ASSUME NEW fs, Removed(fs)
        PROVE  files'[home] \subseteq files[home] /\ \A p \in Place \ {home} : files'[p] = files[p]
    BY <1>0, <2>3
  <2>4. dirs \subseteq dirs' /\ \A p \in Place \ {home} : p \in dirs' <=> p \in dirs
    BY <1>2
  <2> HIDE DEF Wrote, Removed
  <2> QED
    BY <1>2, <2>1, <2>2, <2>3, <2>4
<1>4. DirsHoldFiles'
  <2>1. ASSUME NEW p \in Place, p \notin dirs' PROVE files'[p] = {}
    <3>1. p \notin dirs /\ files[p] = {}
      BY <1>3, <2>1 DEF DirsHoldFiles
    <3> QED
      BY <1>0, <1>3, <2>1, <3>1
  <2> QED
    BY <2>1 DEF DirsHoldFiles
<1>5. crossed \subseteq crossed' /\ (lock => db' = db)
  <2> DEFINE Goal == crossed \subseteq crossed' /\ (lock => db' = db)
  <2>1. ASSUME NEW v, NEW picture, CreateVideo(v, picture) \/ DeleteRow(v) \/ FollowVideo(v) PROVE Goal
    BY <2>1 DEF CreateVideo, DeleteRow, FollowVideo, diskVars, filmVars, CanUseRows
  <2>2. ASSUME NEW v, \/ KeepPicture(v) \/ BeginFilm(v) \/ Look(v) \/ Tick(v) \/ Filmed(v)
                      \/ WriteVideo(v) \/ WritePoster(v) \/ Weigh(v)
        PROVE  Goal
    BY <2>2 DEF KeepPicture, BeginFilm, Look, Tick, Filmed, WriteVideo, WritePoster, Weigh, diskVars
  <2>3. ASSUME NEW v, Advance(v) \/ FinishRow(v) \/ CleanUp(v) \/ FailVideo(v) \/ DeleteFiles(v) PROVE Goal
    BY <2>3 DEF Advance, FinishRow, CleanUp, FailVideo, DeleteFiles, CanUseRows
  <2>4. ReadVideo \/ HearVideo => Goal
    BY DEF ReadVideo, HearVideo, diskVars, filmVars
  <2> HIDE DEF Goal
  <2>5. Goal
    BY <2>1, <2>2, <2>3, <2>4 DEF VideosRequest, VideosStep
  <2> QED
    BY <2>5 DEF Goal
<1>6. DeletionsBegun'
  <2>1. \A v \in VideoIds : FilmGetsOn(v) /\ film[v] \in FilmPlaces /\ VideoRow(v) \in RowsOfFilm(film[v])
    BY FilmsGetOn DEF FilmsHaveRows, Typed, FilmTyped
  <2>2. \A v \in VideoIds : VideoRow(v) = "deleted" => VideoRow(v)' = "deleted"
    BY <2>1, EndedFilmsStay DEF HasEnded
  <2>3. \A v \in deleting' : v \in deleting \/ (v \in VideoIds /\ VideoRow(v)' = "deleted")
    <3> DEFINE Goal == \A v \in deleting' : v \in deleting \/ (v \in VideoIds /\ VideoRow(v)' = "deleted")
    <3>1. UNCHANGED deleting => Goal
      OBVIOUS
    <3>2. ASSUME NEW v \in VideoIds, NEW picture, CreateVideo(v, picture) \/ FollowVideo(v) PROVE UNCHANGED deleting
      BY <3>2 DEF CreateVideo, FollowVideo, filmVars
    <3>3. ASSUME NEW v \in VideoIds, DeleteRow(v) PROVE Goal
      <4>1. SetVideoRow(v, "deleted") /\ deleting' = deleting \cup {v} /\ "deleted" \in VideoStates
        BY <3>3 DEF DeleteRow, VideoStates
      <4>2. db'[home].film[v] = "deleted"
        BY <1>0, <4>1, VideoRowIsSet DEF Typed
      <4> QED
        BY <1>1, <4>1, <4>2 DEF VideoRow
    <3>4. ASSUME NEW v \in VideoIds, \/ KeepPicture(v) \/ BeginFilm(v) \/ Look(v) \/ Tick(v) \/ Filmed(v)
                                     \/ WriteVideo(v) \/ WritePoster(v) \/ Weigh(v) \/ Advance(v) \/ FinishRow(v)
                                     \/ CleanUp(v) \/ FailVideo(v)
          PROVE  UNCHANGED deleting
      BY <3>4 DEF KeepPicture, BeginFilm, Look, Tick, Filmed, WriteVideo, WritePoster, Weigh, Advance, FinishRow,
                  CleanUp, FailVideo
    <3>5. ASSUME NEW v \in VideoIds, DeleteFiles(v) PROVE Goal
      BY <3>5 DEF DeleteFiles
    <3>6. ReadVideo \/ HearVideo => Goal
      BY <3>1 DEF ReadVideo, HearVideo, filmVars
    <3> HIDE DEF Goal
    <3>7. Goal
      BY <3>1, <3>2, <3>3, <3>4, <3>5, <3>6 DEF VideosRequest, VideosStep
    <3> QED
      BY <3>7 DEF Goal
  <2> QED
    BY <1>1, <2>2, <2>3 DEF DeletionsBegun, Typed, FilmTyped
<1> QED
  BY <1>1, <1>3, <1>4, <1>5, <1>6

\* So the videos keep the invariant.
LEMMA VideosKeepFiles ==
    ASSUME Typed, MoveIsHere, FilmsHaveRows, FilesInv, VideosRequest \/ VideosStep, UNCHANGED moveVars
    PROVE  FilesInv'
<1>0. up /\ home \in Place /\ UNCHANGED <<move, stage, torn>> /\ Place = {"here", "there"} /\ config \in Place
  BY TheRestNeedsTheServer DEF moveVars, Typed, LifeTyped, DiskTyped, Place
<1>1. /\ \A p \in Place \ {home} : files'[p] = files[p] /\ db'[p] = db[p] /\ (p \in dirs' <=> p \in dirs)
      /\ DirsHoldFiles' /\ DeletionsBegun' /\ crossed \subseteq crossed' /\ (lock => db' = db)
      /\ UNCHANGED <<config, home, lock, up>>
  BY <1>0, VideosTouchHome DEF FilesInv
<1>2. MoveFits'
  BY <1>0, <1>1 DEF FilesInv, MoveFits
<1>3. Moved => lock /\ home = "here"
  BY <1>0 DEF FilesInv, MoveFits, Moved
<1>4. ASSUME ~torn PROVE /\ move.at \in {"note", "config"} \/ home # config => Ready("there")'
                         /\ home = config => \A v \in VideoIds : Works(v)'
  <2>1. home # config => home = "here"
    BY <1>0 DEF FilesInv, MoveFits
  <2>2. move.at \in {"note", "config"} => home = "here"
    BY <1>0 DEF FilesInv, MoveFits
  <2>3. ASSUME move.at \in {"note", "config"} \/ home # config PROVE Ready("there")'
    <3>1. Ready("there") /\ db'["there"] = db["there"] /\ files'["there"] = files["there"]
      BY <1>0, <1>1, <1>4, <2>1, <2>2, <2>3 DEF FilesInv, FilesKept
    <3> QED
      BY <1>1, <3>1 DEF Ready, Complete, Tidy, Has
  <2>4. ASSUME home = config PROVE \A v \in VideoIds : Works(v)'
    <3>1. \A v \in VideoIds : Works(v)
      BY <1>0, <1>4, <2>4 DEF FilesInv, FilesKept
    <3> QED
      BY <1>0, <1>3, <3>1, VideosWorkOn DEF FilesInv
  <2> QED
    BY <2>3, <2>4
<1> QED
  BY <1>0, <1>1, <1>2, <1>4 DEF FilesInv, FilesKept

\* What touches no file, no row of a video and no move keeps it.
LEMMA FilesLeftAlone ==
    ASSUME Typed, FilesInv, UNCHANGED <<files, dirs, config, up, home, film, deleting, crossed, move, stage, torn, lock>>,
           \A p \in Place : SameFilms(p) /\ SameLeft(p), \A p \in Place \ {home} : db'[p] = db[p]
    PROVE  FilesInv'
<1>0. home \in Place /\ config \in Place /\ Place = {"here", "there"} /\ deleting \subseteq VideoIds
  BY DEF Typed, LifeTyped, DiskTyped, Place, FilmTyped
<1>1. \A p \in Place : db'[p].film = db[p].film /\ db'[p].left = db[p].left
  BY DEF SameFilms, SameLeft
<1>2. \A v \in VideoIds : VideoRow(v)' = VideoRow(v) /\ \A p \in Place : Has(p, v)' = Has(p, v)
  BY <1>0, <1>1 DEF VideoRow, Has
<1>3. DirsHoldFiles' /\ DeletionsBegun'
  BY <1>0, <1>2 DEF FilesInv, DirsHoldFiles, DeletionsBegun
<1>4. MoveFits'
  BY <1>0, <1>1 DEF FilesInv, MoveFits
<1>5. \A p \in Place : Ready(p) => Ready(p)'
  BY <1>1, <1>2 DEF Ready, Complete, Tidy
<1>6. \A v \in VideoIds : Works(v) => Works(v)'
  BY <1>0, <1>2, WorkIsOwn
<1>7. FilesKept'
  BY <1>0, <1>5, <1>6 DEF FilesInv, FilesKept
<1> QED
  BY <1>3, <1>4, <1>7 DEF FilesInv

\* A move that moves on without a file or a row keeps it.
LEMMA MoveGoesOn ==
    ASSUME Typed, FilesInv, UNCHANGED <<files, dirs, config, up, home, film, deleting, crossed, torn>>,
           \A p \in Place : SameFilms(p), MoveFits', move'.at \in {"note", "config"} <=> move.at \in {"note", "config"},
           move.at \in {"note", "config"} => move'.how = move.how
    PROVE  FilesInv'
<1>0. home \in Place /\ config \in Place /\ Place = {"here", "there"} /\ deleting \subseteq VideoIds
  BY DEF Typed, LifeTyped, DiskTyped, Place, FilmTyped
<1>1. \A v \in VideoIds : VideoRow(v)' = VideoRow(v) /\ \A p \in Place : Has(p, v)' = Has(p, v)
  BY <1>0 DEF VideoRow, Has, SameFilms
<1>2. \A p \in Place : Ready(p) => Ready(p)'
  BY <1>1 DEF Ready, Complete, Tidy, SameFilms
<1>3. \A v \in VideoIds : Works(v) => Works(v)'
  <2>1. Moved' <=> Moved
    BY DEF Moved
  <2>2. \A v \in VideoIds : Stock(v)' = Stock(v) /\ Has(home, v)' = Has(home, v)
    BY <1>0, <1>1, <2>1 DEF Stock
  <2> QED
    BY <1>1, <2>2, WorkIsAlike
<1>4. DirsHoldFiles' /\ DeletionsBegun'
  BY <1>0, <1>1 DEF FilesInv, DirsHoldFiles, DeletionsBegun
<1> QED
  BY <1>0, <1>2, <1>3, <1>4 DEF FilesInv, FilesKept

\* A move that is given up, and what was renamed is back or is torn.
LEMMA UndoingKeepsFiles ==
    ASSUME Typed, MoveIsHere, FilesInv, NEW why \in {"failed", "cancelled"}, Undo(why), up,
           move.at \in {"copy", "sync", "note", "config"}, UNCHANGED config, UNCHANGED crossed, Untouched
    PROVE  FilesInv'
<1> DEFINE renamed == move.at \in {"note", "config"} /\ move.how = "rename"
           back == renamed /\ ("here" \notin dirs \/ files["here"] = {})
<1>0. /\ home = "here" /\ config = "here" /\ Place = {"here", "there"} /\ deleting \subseteq VideoIds
      /\ db \in [Place -> Rows] /\ files \in [Place -> SUBSET VideoFiles] /\ dirs \subseteq Place
      /\ UNCHANGED <<home, up, film, deleting>>
  BY DEF Typed, DiskTyped, FilmTyped, Place, MoveIsHere, FilesInv, MoveFits, Untouched, lifeVars
<1>1. /\ stage' = why /\ move' = AtRest /\ AtRest.at = "rest"
      /\ files' = [here |-> IF back THEN files["there"] ELSE files["here"], there |-> {}]
      /\ dirs' = IF back THEN {"here"} ELSE dirs \ {"there"}
      /\ db' = [db EXCEPT !["there"] = NoRows]
      /\ torn' = (torn \/ (renamed /\ ~back))
  BY DEF Undo, AtRest
<1>2. files["here"] = {} \/ ~back
  BY <1>0 DEF FilesInv, DirsHoldFiles
<1>3. files'["there"] = {} /\ files'["here"] = IF back THEN files["there"] ELSE files["here"]
  BY <1>1
<1>4. db'["here"] = db["here"] /\ db'["there"] = NoRows
  BY <1>0, <1>1
<1>5. renamed <=> Moved
  BY DEF Moved
<1>6. "there" \notin dirs' /\ ("here" \notin dirs' => files'["here"] = {})
  <2>1. CASE back
    BY <1>1, <2>1
  <2>2. CASE ~back
    <3>1. dirs' = dirs \ {"there"} /\ files'["here"] = files["here"]
      BY <1>1, <1>3, <2>2
    <3> QED
      BY <1>0, <3>1 DEF FilesInv, DirsHoldFiles
  <2> QED
    BY <2>1, <2>2
<1> HIDE DEF back, renamed
<1>7. DirsHoldFiles'
  BY <1>0, <1>3, <1>6 DEF DirsHoldFiles
<1>8. \A v \in VideoIds : VideoRow(v)' = VideoRow(v)
  BY <1>0, <1>4 DEF VideoRow
<1>9. DeletionsBegun'
  BY <1>0, <1>8 DEF DeletionsBegun, FilesInv
<1>10. MoveFits'
  BY <1>0, <1>1, <1>3, <1>4, <1>6 DEF MoveFits
<1>11. ASSUME ~torn' PROVE \A v \in VideoIds : Works(v)'
  <2>1. ~torn /\ (renamed => back)
    BY <1>1, <1>11
  <2>2. \A v \in VideoIds : Works(v)
    BY <1>0, <2>1 DEF FilesInv, FilesKept
  <2>3. ~Moved' /\ home' = "here"
    BY <1>0, <1>1 DEF Moved
  <2>4. \A v \in VideoIds : Stock(v)' = Has("here", v)' /\ Has(home, v)' = Has("here", v)' /\ Has(home, v) = Has("here", v)
    BY <1>0, <2>3 DEF Stock
  <2>5. \A v \in VideoIds : RowIsThere(v)' <=> RowIsThere(v)
    BY <1>8 DEF RowIsThere
  <2>6. CASE ~Moved
    <3>1. \A v \in VideoIds : Has("here", v)' = Has("here", v) /\ Stock(v) = Has("here", v)
      <4>1. ~back
        BY <1>5, <2>6 DEF back
      <4> QED
        BY <1>0, <1>3, <2>6, <4>1 DEF Has, Stock
    <3>2. ASSUME NEW v \in VideoIds PROVE Works(v)'
      <4>1. /\ Stock(v)' = Stock(v) /\ Has(home, v)' = Has(home, v) /\ VideoRow(v)' = VideoRow(v)
            /\ film'[v] = film[v] /\ (v \in deleting' <=> v \in deleting) /\ (v \in crossed' <=> v \in crossed)
        BY <1>0, <1>8, <2>4, <3>1
      <4> QED
        BY <2>2, <4>1, WorkIsAlike
    <3> QED
      BY <3>2
  <2>7. CASE Moved
    <3>1. back /\ files["here"] = {} /\ files'["here"] = files["there"]
      BY <1>2, <1>3, <1>5, <2>1, <2>7
    <3>2. \A v \in VideoIds : Has("here", v) = {} /\ Has("here", v)' = Has("there", v) /\ Stock(v) = Has("there", v)
      BY <3>1, <2>7 DEF Has, Stock
    <3>3. Ready("there") /\ db["there"].film = db["here"].film
      BY <2>1, <2>7 DEF Moved, FilesInv, FilesKept, MoveFits
    <3>4. \A v \in VideoIds :
            VideoRow(v) = "none" \/ (VideoRow(v) = "deleted" /\ v \notin crossed) => Has("here", v)' = {}
      BY <1>0, <3>2, <3>3 DEF Ready, Tidy, VideoRow
    <3>5. ASSUME NEW v \in VideoIds PROVE Works(v)'
      <4>1. /\ Stock(v)' = Stock(v) /\ Has(home, v)' = Stock(v) /\ Has(home, v) = {} /\ VideoRow(v)' = VideoRow(v)
            /\ RowIsThere(v)' <=> RowIsThere(v)
            /\ film'[v] = film[v] /\ (v \in deleting' <=> v \in deleting) /\ (v \in crossed' <=> v \in crossed)
        BY <1>0, <1>8, <2>4, <2>5, <3>2
      <4>2. VideoRow(v) = "none" \/ (VideoRow(v) = "deleted" /\ v \notin crossed) => Has(home, v)' = {}
        BY <2>4, <3>4
      <4> QED
        BY <2>2, <4>1, <4>2 DEF Works
    <3> QED
      BY <3>5
  <2> QED
    BY <2>6, <2>7
<1> QED
  BY <1>0, <1>1, <1>7, <1>9, <1>10, <1>11 DEF FilesInv, FilesKept

\* A step of the move that leaves the place the server is in as it was.
LEMMA HereIsAsItWas ==
    ASSUME Typed, FilesInv, home = "here", config = "here", UNCHANGED <<config, up, home, film, deleting, torn>>,
           db'["here"] = db["here"], files'["here"] = files["here"], crossed \subseteq crossed',
           ~Moved, ~Moved', DirsHoldFiles', MoveFits',
           ~torn => move'.at \notin {"note", "config"} \/ Ready("there")'
    PROVE  FilesInv'
<1>0. deleting \subseteq VideoIds
  BY DEF Typed, FilmTyped
<1>1. \A v \in VideoIds : /\ VideoRow(v)' = VideoRow(v) /\ Has("here", v)' = Has("here", v)
                          /\ Stock(v)' = Stock(v) /\ Has(home, v)' = Has(home, v)
  BY DEF VideoRow, Has, Stock
<1>2. DeletionsBegun'
  BY <1>0, <1>1 DEF FilesInv, DeletionsBegun
<1>3. \A v \in VideoIds : Works(v) => Works(v)'
  BY <1>1, WorkIsAlike
<1>4. Ready("here") => Ready("here")'
  BY <1>1 DEF Ready, Complete, Tidy
<1> QED
  BY <1>2, <1>3, <1>4 DEF FilesInv, FilesKept

\* The files are brought over while nobody writes a row: what is where the
\* server will be is ready, and a rename takes nothing from anybody.
LEMMA BringingOverKeepsFiles ==
    ASSUME Typed, MoveIsHere, FilmsHaveRows, FilesInv, BringOver
    PROVE  FilesInv'
<1>0. /\ home = "here" /\ config = "here" /\ lock /\ up /\ Place = {"here", "there"} /\ move \in Move
      /\ files \in [Place -> SUBSET VideoFiles] /\ deleting \subseteq VideoIds /\ ~Moved
      /\ UNCHANGED <<db, config, home, up, film, deleting, lock, stage, torn>> /\ move.at = "sync"
      /\ move' = [move EXCEPT !.at = "note"] /\ crossed' = crossed \cup Crossing
  BY DEF BringOver, MoveTo, Untouched, lifeVars, Typed, DiskTyped, FilmTyped, MoveTyped, Place, MoveIsHere,
         FilesInv, MoveFits, Moved
<1>1. move'.at = "note" /\ move'.how = move.how /\ move.how \in How
  BY <1>0 DEF Move
<1>2. files'["there"] = files["here"] /\ "there" \in dirs'
      /\ IF move.how = "copy" THEN files'["here"] = files["here"] /\ dirs' = dirs \cup {"there"}
         ELSE files'["here"] = {}
  BY <1>0 DEF BringOver, Sync
<1>3. DirsHoldFiles'
  BY <1>0, <1>2 DEF DirsHoldFiles, FilesInv
<1>4. \A v \in VideoIds : VideoRow(v)' = VideoRow(v) /\ VideoRow(v) = db["here"].film[v]
  BY <1>0 DEF VideoRow
<1>5. DeletionsBegun'
  BY <1>0, <1>4 DEF FilesInv, DeletionsBegun
<1>6. MoveFits'
  BY <1>0, <1>1 DEF FilesInv, MoveFits
<1>7. \A v \in VideoIds : /\ Stock(v) = Has("here", v) /\ Has(home, v) = Has("here", v)
                          /\ Has("there", v)' = Has("here", v) /\ Has(home, v)' = Has("here", v)'
  BY <1>0, <1>2 DEF Stock, Has
<1>8. \A v \in VideoIds : VideoRow(v) = "deleted" /\ v \notin crossed' => v \notin crossed /\ Has("here", v) = {}
  BY <1>0 DEF Crossing, Has
<1>9. ASSUME ~torn PROVE Ready("there")' /\ \A v \in VideoIds : Works(v)'
  <2>1. \A v \in VideoIds : Works(v)
    BY <1>0, <1>9 DEF FilesInv, FilesKept
  <2>2. db'["there"].film = db["here"].film
    BY <1>0 DEF FilesInv, MoveFits
  <2>3. \A v \in VideoIds : /\ VideoRow(v) = "completed" => Whole(v) \subseteq Has("here", v)
                            /\ VideoRow(v) = "none" => Has("here", v) = {}
    BY <1>7, <2>1 DEF Works
  <2>4. Ready("there")'
    BY <1>4, <1>7, <1>8, <2>2, <2>3 DEF Ready, Complete, Tidy
  <2>5. ASSUME NEW v \in VideoIds PROVE Works(v)'
    <3>1. CASE move.how = "copy"
      <4>1. Has("here", v)' = Has("here", v) /\ ~Moved'
        BY <1>1, <1>2, <3>1 DEF Has, Moved
      <4>2. Stock(v)' = Stock(v) /\ Has(home, v)' = Has(home, v)
        BY <1>7, <4>1 DEF Stock
      <4> QED
        BY <1>0, <1>4, <2>1, <4>2, WorkIsAlike
    <3>2. CASE move.how = "rename"
      <4>1. Has("here", v)' = {} /\ Moved'
        BY <1>1, <1>2, <3>2 DEF Has, Moved
      <4>2. Stock(v)' = Stock(v) /\ Has(home, v)' = {}
        BY <1>7, <4>1 DEF Stock
      <4>3. film'[v] = film[v] /\ VideoRow(v)' = VideoRow(v) /\ (v \in deleting' <=> v \in deleting)
            /\ (RowIsThere(v)' <=> RowIsThere(v))
        BY <1>0, <1>4 DEF RowIsThere
      <4>4. VideoRow(v) = "deleted" /\ v \notin deleting /\ v \notin crossed' =>
                film[v] \notin {"keep", "look", "png"}
        BY <1>7, <1>8, <2>1 DEF Works
      <4> QED
        BY <2>1, <4>2, <4>3, <4>4 DEF Works
    <3> QED
      BY <1>1, <3>1, <3>2 DEF How
  <2> QED
    BY <2>4, <2>5
<1> QED
  BY <1>0, <1>3, <1>5, <1>6, <1>9 DEF FilesInv, FilesKept

\* Every step of a move keeps it.
LEMMA StorageKeepsFiles ==
    ASSUME Typed, MoveIsHere, FilmsHaveRows, FilesInv, StorageRequest \/ StorageStep
    PROVE  FilesInv'
<1> USE DEF Untouched, lifeVars, diskVars, filmVars, moveVars, MoveTo
<1>0. /\ up /\ Place = {"here", "there"} /\ move \in Move /\ db \in [Place -> Rows] /\ NoRows.left = "nothing"
      /\ files \in [Place -> SUBSET VideoFiles] /\ home \in Place /\ config \in Place /\ dirs \subseteq Place
  BY DEF Typed, DiskTyped, LifeTyped, MoveTyped, Place, NoRows, StorageRequest, StorageStep,
         StartMove, CancelMove, ForgetPrevious, CanUseRows, BeginCarry, StopCopying, Copied, TakeLock, BringOver, Remember,
         SwitchFails, SetDataDir, LeaveLock, RestartInto, CopyFile
<1>1. UNCHANGED db => \A p \in Place : SameFilms(p)
  BY DEF SameFilms
<1>2. MoveFits /\ DirsHoldFiles
  BY DEF FilesInv
<1>3. ASSUME NEW how \in How, StartMove(how) PROVE FilesInv'
  <2>1. move'.at = "clear"
    BY <1>3 DEF StartMove, AtRest
  <2>2. config = "here"
    BY <1>0, <1>2, <1>3 DEF StartMove, MoveFits
  <2>3. MoveFits'
    BY <1>2, <1>3, <2>1, <2>2 DEF StartMove, MoveFits
  <2> QED
    BY <1>1, <1>3, <2>1, <2>3, MoveGoesOn DEF StartMove
<1>4. CASE BeginCarry
  <2>1. move.at = "clear" /\ move'.at = "copy"
    BY <1>0, <1>4 DEF BeginCarry, Move
  <2>2. MoveFits'
    BY <1>2, <1>4, <2>1 DEF BeginCarry, MoveFits
  <2> QED
    BY <1>1, <1>4, <2>1, <2>2, MoveGoesOn DEF BeginCarry
<1>5. CASE CancelMove
  <2>1. MoveFits'
    BY <1>2, <1>5 DEF CancelMove, MoveFits
  <2> QED
    BY <1>1, <1>5, <2>1, MoveGoesOn DEF CancelMove
<1>6. CASE Copied
  <2>1. move.at = "copy" /\ move'.at = "checked"
    BY <1>0, <1>6 DEF Copied, Move
  <2>2. MoveFits'
    BY <1>2, <1>6, <2>1 DEF Copied, MoveFits
  <2> QED
    BY <1>1, <1>6, <2>1, <2>2, MoveGoesOn DEF Copied
<1>7. CASE ForgetPrevious
  <2>1. home = "there" /\ config = "there" /\ move.at = "rest"
    BY <1>0, <1>2, <1>7 DEF ForgetPrevious, MoveIsHere, MoveFits
  <2>2. /\ db'["there"].film = db["there"].film /\ files'["there"] = files["there"]
        /\ files'["here"] \in {files["here"], {}} /\ (files'["here"] = {} \/ dirs' = dirs)
        /\ ("there" \in dirs' <=> "there" \in dirs)
        /\ UNCHANGED <<config, up, home, film, deleting, crossed, move, stage, torn, lock>>
    BY <1>0, <1>7, <2>1 DEF ForgetPrevious, Rows
  <2>3. DirsHoldFiles'
    BY <1>0, <1>2, <2>2 DEF DirsHoldFiles
  <2>4. MoveFits'
    BY <2>1, <2>2, <1>2 DEF MoveFits
  <2>5. \A v \in VideoIds : VideoRow(v)' = VideoRow(v) /\ Has(home, v)' = Has(home, v) /\ Stock(v)' = Stock(v)
    BY <2>1, <2>2 DEF VideoRow, Has, Stock, Moved
  <2>6. \A v \in VideoIds : Works(v) => Works(v)'
    BY <2>2, <2>5, WorkIsAlike
  <2>7. DeletionsBegun'
    BY <2>2, <2>5 DEF FilesInv, DeletionsBegun, Typed, FilmTyped
  <2> QED
    BY <1>0, <2>1, <2>2, <2>3, <2>4, <2>6, <2>7 DEF FilesInv, FilesKept
<1>8. CASE StopCopying \/ SwitchFails
  <2>1. \E why \in {"failed", "cancelled"} : Undo(why)
    BY <1>8 DEF StopCopying, SwitchFails
  <2>2. move.at \in {"copy", "sync", "note", "config"} /\ UNCHANGED <<config, crossed>> /\ Untouched
    BY <1>8 DEF StopCopying, SwitchFails
  <2> QED
    BY <1>0, <2>1, <2>2, UndoingKeepsFiles
<1>9. ASSUME NEW f \in move.todo, CopyFile(f) PROVE FilesInv'
  <2>1. CASE f \notin files["here"]
    BY <1>0, <1>9, <2>1, UndoingKeepsFiles DEF CopyFile
  <2>2. CASE f \in files["here"]
    <3>1. /\ files' = [files EXCEPT !["there"] = @ \cup {f}] /\ dirs' = dirs \cup {"there"}
          /\ move' = [move EXCEPT !.todo = @ \ {f}] /\ move.at = "copy"
          /\ UNCHANGED <<db, lock, stage, torn, config, crossed, up, home, film, deleting>>
      BY <1>9, <2>2 DEF CopyFile
    <3>2. files'["here"] = files["here"] /\ move'.at = "copy"
      BY <1>0, <3>1 DEF Move
    <3>3. home = "here" /\ config = "here" /\ ~Moved /\ ~Moved'
      BY <1>0, <1>2, <3>1, <3>2 DEF MoveIsHere, MoveFits, Moved
    <3>4. DirsHoldFiles'
      BY <1>0, <1>2, <3>1, <3>2 DEF DirsHoldFiles
    <3>5. MoveFits'
      BY <1>2, <3>1, <3>2, <3>3 DEF MoveFits
    <3> QED
      BY <3>1, <3>2, <3>3, <3>4, <3>5, HereIsAsItWas
  <2> QED
    BY <2>1, <2>2
<1>10. CASE TakeLock
  <2>1. /\ UNCHANGED <<files, dirs, config, crossed, up, home, film, deleting, torn>> /\ lock' /\ stage' = "switching"
        /\ db' = [db EXCEPT !["there"] = db["here"]] /\ move' = [move EXCEPT !.at = "sync"] /\ move.at = "checked"
    BY <1>10 DEF TakeLock
  <2>2. db'["here"] = db["here"] /\ db'["there"] = db["here"] /\ move'.at = "sync"
    BY <1>0, <2>1 DEF Move
  <2>3. home = "here" /\ config = "here" /\ ~Moved /\ ~Moved'
    BY <1>0, <1>2, <2>1, <2>2 DEF MoveIsHere, MoveFits, Moved
  <2>4. DirsHoldFiles'
    BY <1>2, <2>1 DEF DirsHoldFiles
  <2>5. MoveFits'
    BY <1>2, <2>1, <2>2, <2>3 DEF MoveFits
  <2> QED
    BY <2>1, <2>2, <2>3, <2>4, <2>5, HereIsAsItWas
<1>11. CASE Remember
  <2>1. /\ UNCHANGED <<files, dirs, config, crossed, up, home, film, deleting, torn, lock, stage>>
        /\ move.at = "note" /\ move' = [move EXCEPT !.at = "config"]
        /\ \E left \in {"copies", "database"} : db' = [db EXCEPT !["there"].left = left]
    BY <1>11 DEF Remember
  <2>2. move'.at = "config" /\ move'.how = move.how
    BY <1>0, <2>1 DEF Move
  <2>3. /\ db'["here"] = db["here"] /\ db'["there"].film = db["there"].film
        /\ db'["there"].left # "nothing"
    BY <1>0, <2>1 DEF Rows
  <2>4. MoveFits'
    BY <1>2, <2>1, <2>2, <2>3 DEF MoveFits
  <2>5. \A p \in Place : SameFilms(p)
    BY <1>0, <2>3 DEF SameFilms
  <2> QED
    BY <2>1, <2>2, <2>4, <2>5, MoveGoesOn
<1>12. CASE SetDataDir
  <2>1. /\ UNCHANGED <<files, dirs, db, crossed, up, home, film, deleting, torn, lock, stage>> /\ config' = "there"
        /\ move.at = "config" /\ move' = [move EXCEPT !.at = "leave"]
    BY <1>12 DEF SetDataDir
  <2>2. move'.at = "leave" /\ home = "here" /\ config = "here"
    BY <1>0, <1>2, <2>1 DEF Move, MoveIsHere, MoveFits
  <2>3. MoveFits'
    BY <1>2, <2>1, <2>2 DEF MoveFits
  <2>4. ~torn => Ready("there")'
    <3>1. ~torn => Ready("there")
      BY <2>1 DEF FilesInv, FilesKept
    <3> QED
      BY <2>1, <3>1 DEF Ready, Complete, Tidy, Has
  <2>5. DirsHoldFiles' /\ DeletionsBegun'
    BY <2>1 DEF FilesInv, DirsHoldFiles, DeletionsBegun, VideoRow
  <2> QED
    BY <1>0, <2>1, <2>2, <2>3, <2>4, <2>5 DEF FilesInv, FilesKept
<1>13. CASE LeaveLock
  <2>1. move.at = "leave" /\ move'.at = "go"
    BY <1>0, <1>13 DEF LeaveLock, Move
  <2>2. MoveFits'
    BY <1>2, <1>13, <2>1 DEF LeaveLock, MoveFits
  <2> QED
    BY <1>1, <1>13, <2>1, <2>2, MoveGoesOn DEF LeaveLock
<1>14. CASE RestartInto
  <2>1. move.at = "go" /\ move'.at = "rest"
    BY <1>14 DEF RestartInto, AtRest
  <2>2. MoveFits'
    BY <1>2, <1>14, <2>1 DEF RestartInto, MoveFits
  <2> QED
    BY <1>1, <1>14, <2>1, <2>2, MoveGoesOn DEF RestartInto
<1>15. FilesInv'
  BY <1>3, <1>4, <1>5, <1>6, <1>7, <1>8, <1>9, <1>10, <1>11, <1>12, <1>13, <1>14, BringingOverKeepsFiles
     DEF StorageRequest, StorageStep
<1> QED
  BY <1>15

\* The process ends, and only what is on disk stays.
LEMMA EndingKeepsFiles ==
    ASSUME Typed, MoveIsHere, FilmsHaveRows, FilesInv, ProcessEnds
    PROVE  FilesInv'
<1>0. /\ up /\ ~up' /\ ~lock' /\ UNCHANGED <<db, files, dirs, config, home>> /\ move' = AtRest /\ AtRest.at = "rest"
      /\ stage' = "none" /\ deleting' = {}
      /\ crossed' = crossed \cup {v \in VideoIds : /\ VideoRow(v) = "deleted"
                                                   /\ v \in deleting \/ film[v] \notin {"none", "nobody", "cut", "over"}}
      /\ torn' = (torn \/ (move.at \in {"note", "config"} /\ move.how = "rename"))
      /\ home \in Place /\ config \in Place
  BY DEF ProcessEnds, Die, Exec, Gone, diskVars, StorageGone, VideosGone, AtRest, Typed, LifeTyped, DiskTyped
<1>1. \A v \in VideoIds : \A p \in Place : Has(p, v)' = Has(p, v)
  BY <1>0 DEF Has
<1>2. DirsHoldFiles' /\ MoveFits' /\ DeletionsBegun'
  BY <1>0 DEF FilesInv, DirsHoldFiles, MoveFits, DeletionsBegun
<1>3. \A p \in Place : Ready(p) => Ready(p)'
  BY <1>0, <1>1 DEF Ready, Complete, Tidy
<1>4. ASSUME ~torn' PROVE Ready(config)' /\ (home # config => Ready("there")')
  <2>1. ~torn /\ ~Moved
    BY <1>0, <1>4 DEF Moved
  <2>2. CASE home # config
    <3>1. config = "there" /\ Ready("there")
      BY <1>0, <2>1, <2>2 DEF FilesInv, FilesKept, MoveFits, Place
    <3> QED
      BY <1>0, <1>3, <3>1
  <2>3. CASE home = config
    <3>1. \A v \in VideoIds : Works(v) /\ Stock(v) = Has(config, v) /\ VideoRow(v) = db[config].film[v]
      BY <1>0, <2>1, <2>3 DEF FilesInv, FilesKept, Stock, VideoRow
    <3>2. \A v \in VideoIds : /\ db[config].film[v] = "completed" => Whole(v) \subseteq Has(config, v)
                              /\ db[config].film[v] = "none" => Has(config, v) = {}
      BY <2>3, <3>1 DEF Works
    <3>3. \A v \in VideoIds : db[config].film[v] = "deleted" /\ v \notin crossed' => Has(config, v) = {}
      BY <1>0, <2>3, <3>1 DEF Works
    <3> QED
      BY <1>0, <1>1, <2>3, <3>2, <3>3 DEF Ready, Complete, Tidy
  <2> QED
    BY <2>2, <2>3
<1> QED
  BY <1>0, <1>2, <1>4 DEF FilesInv, FilesKept

\* The next one starts where the configuration says, and finds it ready.
LEMMA BootingKeepsFiles ==
    ASSUME Typed, Idle, FilesInv, Boot, UNCHANGED <<jobVars, filmVars, moveVars>>
    PROVE  FilesInv'
<1>0. /\ ~up /\ up' /\ home' = config /\ UNCHANGED <<files, dirs, config, lock, film, deleting, crossed, move, stage, torn>>
      /\ db' = [db EXCEPT ![config].job = AbandonJobs(@), ![config].film = AbandonFilms(@)]
      /\ move = AtRest /\ AtRest.at = "rest" /\ film = [v \in VideoIds |-> "none"] /\ deleting = {}
      /\ config \in Place /\ home \in Place /\ Place = {"here", "there"} /\ db \in [Place -> Rows]
  BY DEF Boot, filmVars, moveVars, Idle, AtRest, FilesInv, DeletionsBegun, Typed, DiskTyped, LifeTyped, Place
<1>1. /\ db'[config].film = AbandonFilms(db[config].film) /\ db[config].film \in [VideoIds -> VideoStates]
      /\ db'[config].left = db[config].left /\ \A p \in Place \ {config} : db'[p] = db[p]
  BY <1>0 DEF Rows
<1>2. \A v \in VideoIds : VideoRow(v)' = IF db[config].film[v] \in {"queued", "in_progress"} THEN "failed"
                                         ELSE db[config].film[v]
  BY <1>0, <1>1 DEF VideoRow, AbandonFilms
<1>3. DirsHoldFiles' /\ DeletionsBegun'
  BY <1>0 DEF FilesInv, DirsHoldFiles, DeletionsBegun
<1>4. MoveFits'
  BY <1>0, <1>1 DEF FilesInv, MoveFits
<1>5. ASSUME ~torn, NEW v \in VideoIds PROVE Works(v)'
  <2>1. Ready(config)
    BY <1>0, <1>5 DEF FilesInv, FilesKept
  <2>2. film'[v] = "none" /\ Stock(v)' = Has(config, v) /\ Has(home, v)' = Has(config, v)
    BY <1>0 DEF Stock, Moved, Has
  <2>3. VideoRow(v)' \in {"completed", "none", "deleted"} => VideoRow(v)' = db[config].film[v]
    BY <1>2
  <2>4. /\ VideoRow(v)' = "completed" => Whole(v) \subseteq Has(config, v)
        /\ VideoRow(v)' = "none" \/ (VideoRow(v)' = "deleted" /\ v \notin crossed) => Has(config, v) = {}
    BY <2>1, <2>3 DEF Ready, Complete, Tidy
  <2> QED
    BY <1>0, <2>2, <2>4 DEF Works
<1> QED
  BY <1>0, <1>3, <1>4, <1>5 DEF FilesInv, FilesKept

\* At first there is what is kept, whole.
LEMMA FilesInvInit == Init => FilesInv
<1> SUFFICES ASSUME Init PROVE FilesInv
  OBVIOUS
<1>1. /\ home = "here" /\ config = "here" /\ up /\ dirs = {"here"} /\ ~torn /\ stage = "none" /\ deleting = {}
      /\ move = AtRest /\ AtRest.at = "rest" /\ film = [v \in VideoIds |-> "none"]
      /\ db["here"] = FirstRows /\ files["there"] = {} /\ files["here"] = UNION {Whole(v) : v \in Kept}
  BY DEF Init, StoreInit, VideosInit, StorageInit, AtRest, Place
<1>2. \A v \in VideoIds : VideoRow(v) = IF v \in Kept THEN "completed" ELSE "none"
  BY <1>1 DEF VideoRow, FirstRows, NoRows
<1>3. \A v \in VideoIds : /\ v \in Kept => Whole(v) \subseteq Has("here", v)
                          /\ v \notin Kept => Has("here", v) = {}
  <2>1. \A v \in Kept : Whole(v) \subseteq files["here"]
    BY <1>1
  <2>2. ASSUME NEW v \in VideoIds, v \notin Kept, NEW f \in Has("here", v) PROVE FALSE
    <3>1. PICK w \in Kept : f \in Whole(w)
      BY <1>1, <2>2 DEF Has
    <3>2. w \in VideoIds \ {v} /\ f \in FilesOf(w) /\ f \in FilesOf(v)
      BY <2>2, <3>1, StoreAssumption, FilesAreOwn DEF Has
    <3> QED
      BY <3>2, FilesAreOwn
  <2> QED
    BY <2>1, <2>2, FilesAreOwn DEF Has
<1>4. \A v \in VideoIds : Works(v)
  <2>1. \A v \in VideoIds : Stock(v) = Has("here", v) /\ Has(home, v) = Has("here", v)
    BY <1>1 DEF Stock, Moved
  <2> QED
    BY <1>1, <1>2, <1>3, <2>1 DEF Works
<1> QED
  BY <1>1, <1>4 DEF FilesInv, FilesKept, DirsHoldFiles, MoveFits, DeletionsBegun, Place

\* Every step keeps it.
LEMMA FilesInvNext == ServerInv /\ FilesInv /\ [Next]_vars => FilesInv'
<1> SUFFICES ASSUME ServerInv, FilesInv, [Next]_vars PROVE FilesInv'
  OBVIOUS
<1>1. Typed /\ MoveIsHere /\ FilmsHaveRows /\ Idle
  BY DEF ServerInv, JobsInv
<1>2. CASE (JobsRequest \/ JobsStep) /\ UNCHANGED <<filmVars, moveVars>>
  <2>1. UNCHANGED <<film, deleting, crossed, move, stage, torn>>
    BY <1>2 DEF filmVars, moveVars
  <2>2. /\ UNCHANGED <<config, files, dirs, up, home, lock>> /\ \A p \in Place \ {home} : db'[p] = db[p]
        /\ \A p \in Place : SameFilms(p) /\ SameLeft(p)
    BY <1>1, <1>2, JobsWriteJobs
  <2> QED
    BY <1>1, <2>1, <2>2, FilesLeftAlone
<1>3. CASE (VideosRequest \/ VideosStep) /\ UNCHANGED <<jobVars, moveVars>>
  BY <1>1, <1>3, VideosKeepFiles
<1>4. CASE (StorageRequest \/ StorageStep) /\ UNCHANGED jobVars
  BY <1>1, <1>4, StorageKeepsFiles
<1>5. ASSUME UNCHANGED <<diskVars, up, home, lock, filmVars, moveVars>> PROVE FilesInv'
  <2>1. UNCHANGED <<files, dirs, config, db, up, home, film, deleting, crossed, move, stage, torn, lock>>
    BY <1>5 DEF diskVars, filmVars, moveVars
  <2> QED
    BY <1>1, <2>1, FilesLeftAlone DEF SameFilms, SameLeft
<1>6. CASE (AskRestart(Busy) \/ BeginRestart) /\ UNCHANGED <<jobVars, filmVars, moveVars>>
  <2>1. UNCHANGED <<diskVars, up, home, lock>>
    <3>1. CASE AskRestart(Busy)
      BY <3>1, Zenon DEF AskRestart
    <3>2. CASE BeginRestart
      BY <3>2, Zenon DEF BeginRestart
    <3> QED
      BY <1>6, <3>1, <3>2
  <2> QED
    BY <1>5, <1>6, <2>1
<1>7. CASE Boot /\ UNCHANGED <<jobVars, filmVars, moveVars>>
  BY <1>1, <1>7, BootingKeepsFiles
<1>8. CASE ProcessEnds
  BY <1>1, <1>8, EndingKeepsFiles
<1>9. CASE UNCHANGED vars
  BY <1>5, <1>9 DEF vars, lifeVars
<1> QED
  BY <1>2, <1>3, <1>4, <1>6, <1>7, <1>8, <1>9 DEF Next

\* What the rows say of the files on the disk, where the server is and where
\* it will be, stays true through every write that fails, deletion, move,
\* death and restart (videos.rs, `finish`, `delete`; storage.rs, `carry`).
THEOREM FilesInvariant == Spec => []FilesInv
BY FilesInvInit, FilesInvNext, ServerInvariant, PTL DEF Spec

\* Where the server serves, what says it is completed has its film and its
\* poster: through writes that fail, moves by copy or by rename, deaths and
\* restarts (videos.rs, `finish`).
THEOREM CompletedVideosAreWhole == Spec => []CompletedHasFiles
<1>1. ServerInv /\ FilesInv => CompletedHasFiles
  <2> SUFFICES ASSUME ServerInv, FilesInv, Settled, NEW v \in VideoIds, VideoRow(v) = "completed"
               PROVE  Whole(v) \subseteq files[home]
    BY DEF CompletedHasFiles
  <2>1. ~Moved /\ Works(v)
    BY DEF Settled, FilesInv, FilesKept, MoveFits, Moved
  <2> QED
    BY <2>1 DEF Works, Stock, Has
<1> QED
  BY <1>1, ServerInvariant, FilesInvariant, PTL

\* Where the server serves, a video that was deleted, with nobody at it any
\* more, has left no file; but for the races that `crossed` names (videos.rs,
\* `delete`, and `finish` when the row has gone).
THEOREM DeletedVideosAreGone == Spec => []DeletedIsGone
<1>1. ServerInv /\ FilesInv => DeletedIsGone
  <2> SUFFICES ASSUME ServerInv, FilesInv, Settled, NEW v \in VideoIds, VideoRow(v) \in {"deleted", "none"},
                      film[v] \in {"none", "nobody", "cut", "over"}, v \notin deleting, v \notin crossed
               PROVE  files[home] \cap FilesOf(v) = {}
    BY DEF DeletedIsGone
  <2>1. Works(v)
    BY DEF Settled, FilesInv, FilesKept
  <2> QED
    BY <2>1 DEF Works, Has
<1> QED
  BY <1>1, ServerInvariant, FilesInvariant, PTL

\* A move that failed or was cancelled leaves nothing where it went to, and
\* every film that was whole where it was (storage.rs, `undo`).
THEOREM FailedMovesLeaveNothing == Spec => []FailedMoveLeavesNothing
<1>1. ServerInv /\ FilesInv => FailedMoveLeavesNothing
  <2> SUFFICES ASSUME ServerInv, FilesInv, Stayed PROVE FailedMoveLeavesNothing
    BY DEF FailedMoveLeavesNothing
  <2>1. files["there"] = {} /\ "there" \notin dirs /\ db["there"] = NoRows /\ move.at = "rest" /\ home = "here"
    BY DEF Stayed, FilesInv, MoveFits, ServerInv, Typed, LifeTyped, Place
  <2>2. ASSUME NEW v \in Kept, db["here"].film[v] = "completed", ~torn PROVE Whole(v) \subseteq files["here"]
    <3>1. v \in VideoIds /\ VideoRow(v) = "completed" /\ ~Moved
      BY <2>1, <2>2, StoreAssumption DEF VideoRow, Moved
    <3>2. Works(v)
      BY <2>1, <2>2, <3>1 DEF Stayed, FilesInv, FilesKept
    <3> QED
      BY <2>1, <3>1, <3>2 DEF Works, Stock, Has
  <2> QED
    BY <2>1, <2>2 DEF FailedMoveLeavesNothing
<1> QED
  BY <1>1, ServerInvariant, FilesInvariant, PTL
=============================================================================
