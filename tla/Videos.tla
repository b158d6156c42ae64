------------------------------- MODULE Videos -------------------------------
(***************************************************************************)
(* The videos of kvad-serve (crates/serve/src/videos.rs): a row and up to  *)
(* four files each, the task that makes one while the engine films it, and *)
(* those that delete one or follow it meanwhile. Rows are under the        *)
(* database's lock; files are under none.                                  *)
(*                                                                         *)
(* A file is written aside and renamed, which is one step here: what is    *)
(* half written has another name.                                          *)
(***************************************************************************)
EXTENDS Store

VARIABLES
    film,      \* where the task that makes a video is
    deleting,  \* deletions that have taken the row and not yet the files
    crossed    \* history: videos whose files somebody wrote, or moved, or
               \* left, between the end of their row and of their files

filmVars == <<film, deleting, crossed>>

\* Its request, to "made"; its task, from "film" on; those of nobody: "nobody"
\* never had a task, "cut" lost it to a refused write, "over" has ended.
FilmPlaces == {"none", "keep", "made", "nobody", "lost", "film", "look", "mp4", "png", "size", "row", "clean",
               "fail", "cut", "over"}
VideosInit ==
    /\ film = [v \in VideoIds |-> "none"]
    /\ deleting = {} /\ crossed = {}

VideosTypeOK ==
    /\ film \in [VideoIds -> FilmPlaces]
    /\ deleting \subseteq VideoIds /\ crossed \subseteq VideoIds

Goes(v, at) == film' = [film EXCEPT ![v] = at]
RowIsThere(v) == VideoRow(v) \notin {"none", "deleted"}
FilesOf(v) == {v} \X Extensions
HasDir == home \in dirs

Adds(f) == files' = [files EXCEPT ![home] = @ \cup {f}]
Removes(fs) == files' = [files EXCEPT ![home] = @ \ fs]

\* tell, Herald::drop: what a watcher of this video hears.
BeingMade(v) == film[v] \notin {"none", "keep", "made", "nobody", "cut", "over"}
Told(v, news) == watch' = IF watch.of = "video" /\ watch.id = v /\ watch.sub /\ BeingMade(v)
                          THEN [watch EXCEPT !.news = news] ELSE watch

\* create: the row; then, for one that starts from a picture, the picture
\* under its name, on a thread the request waits for. A row that cannot be
\* read back is nobody's.
CreateVideo(v, picture) ==
    /\ CanUseRows
    /\ ACall
    /\ v \in NextIn(db[home].film)
    /\ SetVideoRow(v, "queued")
    /\ \/ Goes(v, IF picture THEN "keep" ELSE "made") /\ UNCHANGED faults
       \/ AFault /\ Goes(v, "nobody")
    /\ UNCHANGED <<files, dirs, config, lifeVars, lock, watch, crashes, deleting, crossed>>

\* Nobody makes one whose picture could not be kept.
KeepPicture(v) ==
    /\ up /\ film[v] = "keep"
    /\ \/ HasDir /\ Adds(<<v, "input">>) /\ Goes(v, "made") /\ UNCHANGED faults
       \/ ~HasDir /\ Goes(v, "nobody") /\ UNCHANGED <<files, faults>>
       \/ AFault /\ Goes(v, "nobody") /\ UNCHANGED files
    /\ UNCHANGED <<db, dirs, config, lifeVars, lock, watch, calls, crashes, deleting, crossed>>

\* Then the herald and the task: unless the client has gone meanwhile, and the
\* request with it, which the thread does not hear of.
BeginFilm(v) ==
    /\ up /\ film[v] = "made"
    /\ Goes(v, "film") \/ Goes(v, "nobody")
    /\ UNCHANGED <<diskVars, lifeVars, lock, watch, boundVars, deleting, crossed>>

\* run, at a step: advance, which finds whether the row is still there. If it
\* cannot be written the task ends, and leaves it as it was.
Advance(v) ==
    /\ CanUseRows /\ film[v] = "film"
    /\ \/ /\ RowIsThere(v)
          /\ SetVideoRow(v, "in_progress") /\ Goes(v, "look") /\ UNCHANGED <<watch, faults>>
       \/ /\ ~RowIsThere(v)
          /\ Goes(v, "over") /\ Told(v, "closed") /\ UNCHANGED <<db, faults>>
       \/ /\ AFault
          /\ Goes(v, "cut") /\ Told(v, "closed") /\ UNCHANGED db
    /\ UNCHANGED <<files, dirs, config, lifeVars, lock, calls, crashes, deleting, crossed>>

\* Then its preview, if the step has one and it can be kept.
Look(v) ==
    /\ up /\ film[v] = "look"
    /\ \/ Adds(<<v, "preview.png">>) /\ dirs' = dirs \cup {home}
       \/ UNCHANGED <<files, dirs>>
    /\ Goes(v, "film")
    /\ Told(v, "told")
    /\ UNCHANGED <<db, config, lifeVars, lock, boundVars, deleting, crossed>>

\* run, at a tick: is the row still there?
Tick(v) ==
    /\ CanUseRows /\ film[v] = "film"
    /\ ~RowIsThere(v)
    /\ Goes(v, "over") /\ Told(v, "closed")
    /\ UNCHANGED <<diskVars, lifeVars, lock, boundVars, deleting, crossed>>

\* The engine is done, has failed, or is gone.
Filmed(v) ==
    /\ up /\ film[v] = "film"
    /\ Goes(v, "mp4") \/ Goes(v, "fail")
    /\ UNCHANGED <<diskVars, lifeVars, lock, watch, boundVars, deleting, crossed>>

\* finish: the directory and the video; its poster; what it weighs. A file
\* that cannot be written takes the others with it. (Mistaken: the error is
\* not heard.)
FailedToWrite(v) == Removes(FilesOf(v)) /\ Goes(v, "fail")
WriteUnheard(v, ext, next) ==
    \/ HasDir /\ Adds(<<v, ext>>) /\ Goes(v, next) /\ UNCHANGED faults
    \/ AFault /\ UNCHANGED files /\ Goes(v, next)
Write(v, ext, next) ==
    \/ HasDir /\ Adds(<<v, ext>>) /\ Goes(v, next) /\ UNCHANGED faults
    \/ ~HasDir /\ FailedToWrite(v) /\ UNCHANGED faults
    \/ AFault /\ FailedToWrite(v)
WriteVideo(v) ==
    /\ up /\ film[v] = "mp4"
    /\ dirs' = dirs \cup {home}
    /\ \/ Adds(<<v, "mp4">>) /\ Goes(v, "png") /\ UNCHANGED faults
       \/ AFault /\ FailedToWrite(v)
    /\ UNCHANGED <<db, config, lifeVars, lock, watch, calls, crashes, deleting, crossed>>
WritePoster(v) ==
    /\ up /\ film[v] = "png"
    /\ Write(v, "png", "size")
    /\ UNCHANGED <<db, dirs, config, lifeVars, lock, watch, calls, crashes, deleting, crossed>>
Weigh(v) ==
    /\ up /\ film[v] = "size"
    /\ Goes(v, IF <<v, "mp4">> \in files[home] THEN "row" ELSE "fail")
    /\ UNCHANGED <<diskVars, lifeVars, lock, watch, boundVars, deleting, crossed>>

\* Then the row that says they are there, if it still is. If it cannot be
\* written the video has failed, and its files stay: also those of a row that
\* has gone, which nobody is told.
FinishRow(v) ==
    /\ CanUseRows /\ film[v] = "row"
    /\ \/ RowIsThere(v) /\ SetVideoRow(v, "completed") /\ Goes(v, "clean") /\ UNCHANGED <<faults, crossed>>
       \/ ~RowIsThere(v) /\ Goes(v, "lost") /\ UNCHANGED <<db, faults, crossed>>
       \/ /\ AFault
          /\ Goes(v, "fail") /\ UNCHANGED db
          /\ crossed' = IF RowIsThere(v) \/ v \in deleting THEN crossed ELSE crossed \cup {v}
    /\ UNCHANGED <<files, dirs, config, lifeVars, lock, watch, calls, crashes, deleting>>

\* The preview is done with, and so is everything if the row had gone.
\* (Mistaken: only the preview.)
LeftoverPreview(v) == {<<v, "preview.png">>}
Leftover(v) == IF film[v] = "lost" THEN FilesOf(v) ELSE {<<v, "preview.png">>}
CleanUp(v) ==
    /\ up /\ film[v] \in {"clean", "lost"}
    /\ Removes(Leftover(v))
    /\ Goes(v, "over") /\ Told(v, "closed")
    /\ UNCHANGED <<db, dirs, config, lifeVars, lock, boundVars, deleting, crossed>>

\* failed: no preview, and a row that says so, if it can be written.
FailVideo(v) ==
    /\ CanUseRows /\ film[v] = "fail"
    /\ Removes({<<v, "preview.png">>})
    /\ \/ RowIsThere(v) /\ SetVideoRow(v, "failed") /\ Goes(v, "over") /\ UNCHANGED faults
       \/ ~RowIsThere(v) /\ Goes(v, "over") /\ UNCHANGED <<db, faults>>
       \/ AFault /\ Goes(v, "cut") /\ UNCHANGED db
    /\ Told(v, "closed")
    /\ UNCHANGED <<dirs, config, lifeVars, lock, calls, crashes, deleting, crossed>>

\* delete: the row, then the files there are.
DeleteRow(v) ==
    /\ CanUseRows
    /\ RowIsThere(v)
    /\ ACall
    /\ SetVideoRow(v, "deleted")
    /\ deleting' = deleting \cup {v}
    /\ UNCHANGED <<files, dirs, config, lifeVars, lock, watch, crashes, faults, film, crossed>>
DeleteFiles(v) ==
    /\ up /\ v \in deleting
    /\ Removes(FilesOf(v))
    /\ deleting' = deleting \ {v}
    /\ crossed' = IF film[v] \in {"keep", "look", "png"} THEN crossed \cup {v} ELSE crossed
    /\ Told(v, "told")
    /\ UNCHANGED <<db, dirs, config, lifeVars, lock, boundVars, film>>

\* events: the channel, then the row; again whenever there is news, and once
\* more when the channel closes. A row that has ended, or that nothing more
\* will be told of, is the last; and so is one that cannot be read.
FollowVideo(v) ==
    /\ up /\ watch = Nobody
    /\ RowIsThere(v)
    /\ ACall
    /\ watch' = [Nobody EXCEPT !.of = "video", !.id = v, !.at = "look", !.sub = BeingMade(v),
                               !.early = film[v] \in {"keep", "made", "nobody"}]
    /\ UNCHANGED <<diskVars, lifeVars, lock, crashes, faults, filmVars>>
HasEnded(v) == VideoRow(v) \in {"completed", "failed", "deleted"}
ReadVideo ==
    /\ CanUseRows /\ watch.of = "video" /\ watch.at = "look"
    /\ \/ /\ watch' = [watch EXCEPT !.at = IF HasEnded(watch.id) THEN "told"
                                           ELSE IF watch.sub THEN "wait" ELSE "left"]
          /\ UNCHANGED faults
       \/ /\ AFault
          /\ watch' = [watch EXCEPT !.at = "refused"]
    /\ UNCHANGED <<diskVars, lifeVars, lock, calls, crashes, filmVars>>
Again(closed) == [watch EXCEPT !.at = "look", !.news = "none", !.sub = ~closed]
HearVideo ==
    /\ up /\ watch.of = "video" /\ watch.at = "wait" /\ watch.news # "none"
    /\ watch' = Again(watch.news = "closed")
    /\ UNCHANGED <<diskVars, lifeVars, lock, boundVars, filmVars>>

\* The process is gone, and what its deletions had still to do is not done.
VideosGone ==
    /\ film' = [v \in VideoIds |-> "none"]
    /\ deleting' = {}
    /\ crossed' = crossed \cup {v \in VideoIds : /\ VideoRow(v) = "deleted"
                                                 /\ v \in deleting \/ film[v] \notin {"none", "nobody", "cut", "over"}}

VideosRequest == \E v \in VideoIds :
    (\E picture \in BOOLEAN : CreateVideo(v, picture)) \/ DeleteRow(v) \/ FollowVideo(v)

VideosStep ==
    \/ \E v \in VideoIds :
        \/ KeepPicture(v) \/ BeginFilm(v) \/ Advance(v) \/ Look(v) \/ Tick(v) \/ Filmed(v)
        \/ WriteVideo(v) \/ WritePoster(v) \/ Weigh(v) \/ FinishRow(v) \/ CleanUp(v)
        \/ FailVideo(v) \/ DeleteFiles(v)
    \/ ReadVideo \/ HearVideo
=============================================================================
