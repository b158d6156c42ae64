# A formal model of kvad

kvad is an LLM engine in Rust and a server around it. This directory specifies
the parts of it where concurrency and failure decide whether it is right:

- the scheduler of `kvad-serve`, the engines it drives, and the memory it hands
  out;
- the server as a process over a disk: its jobs, its videos and the move of its
  data, through deaths and restarts;
- live transcription, from the microphone of a phone to the words in the
  server, over links that drop;
- a model across machines: the workers that hold its layers, and the session and
  the conversation over them, through links that break and answers that come
  late;
- the cache a model too large for memory reads its experts through, over reads
  that fail.

The modules are in TLA+. TLC checks them on small instances; of the queue, the
scheduler and its engines, the memory and the experts' cache, the jobs and
videos, live transcription and a worker's place, TLAPS proves for every size
what TLC can only sample.

`S` below is `crates/serve/src/scheduler.rs`, `V` is
`crates/llm/src/service.rs`; other files are of `crates/serve/src` unless they
say otherwise. `PROJECT.json` maps every definition to its lines.

## The system

| Component | State it keeps | Operations | With whom it interacts |
|---|---|---|---|
| Queue (`S`: `Queue`, `Waiting`) | jobs in a deque, `closed`, turns served, the rate's log | `generate`, `submit`, `room`, `take_if`, the first part of `cancel`, `close` | handlers push and cancel, the thread takes; one lock |
| Scheduler thread (`S`: `run`) | the residents' engines, the batch under way, the job in hand | take, admit and pump replies, drain an image, a video, a transcription, load, unload, ask | queue, books, counters, engines' channels, callers' channels |
| Books and counters (`S`: `Shared`) | live generations, `waiting`, `busy`, residents, reservation, guests | `admit`, `begin`, `finish`, `cancel`, `depth`, `held` | handlers and the thread, a lock or an atomic each |
| Engine (`V`: `Engine`, `worker`) | the model, generations under way, the command held back | commands in, events out, one interrupt flag | the scheduler's thread; `cancel` raises the flag |
| Memory (`memory.rs`, `S`: `load`, `reserve`, `lodge`) | what is charged to whom | `admit`, charge, reserve, lodge, resize, drop | the thread loads; a training run and a coordinator ask from other threads |
| Jobs (`jobs.rs`, `tuning.rs`, `training.rs`) | rows, a live registry | create, register, finish, cancel, watch, abandon | database, a child process |
| Videos, images (`videos.rs`, `images.rs`) | rows and files | queue, advance, finish, delete, abandon | scheduler, disk |
| Realtime speech (`realtime.rs`, `speech/live.rs`) | sessions on sockets or held | take, park, forget, hear, listen | scheduler, clients that reconnect |
| A take on the phone (`apps/phone/core/src/speak.rs`) | the file, what is sent, what is settled | record, stop, cancel, connect, send, commit, begin anew, send whole | the microphone, realtime speech over a socket |
| Process (`main.rs`, `settings.rs`, `db.rs`) | the database's lock, the data directory it was started with | boot, restart, exec | everything that has rows or files |
| Storage move (`storage.rs`) | a directory and a configuration | carry, sync, switch, forget | disk |
| Remote access (`remote.rs`, `devices.rs`, `crates/tunnel`) | pairing slots, the list of nodes let in | open, answer, take, sweep, reload | tunnel, database |
| Cluster's workers (`crates/llm/src/cluster/worker.rs`, `stage.rs`) | who has the one place, the stage and its cache | load, forward, truncate, spend, a connection that ends | coordinators, over the network |
| A model across machines (`crates/llm/src/cluster/session.rs`, `remote.rs`) | positions every stage holds, `torn` | load, forward, piped, truncate, mend, ask | workers, the runtime |
| Model runtime (`crates/llm/src/runtime.rs`) | conversations' caches | open, prefill, step, finish, abandon; detach, hold | engine, a session |
| Experts' cache (in `crates/llm/src`: `experts.rs`, `model/ffn.rs`) | which expert is in which slot, the slabs | wanted, touch, with, fetch_into | what a load leaves of the memory; the forward pass; the cache file |
| The rest: accounts, HTTP, settings, monitoring, command line, terminal app, phone, relay, web, arithmetic, formats | | | see `PROJECT.json`, `components` |

What makes each of those that are modelled correct:

- **Queue.** Accounts alternate, whatever each of them queues. Nothing passes a
  load. Limits, shares and rates hold, and a refusal's `Retry-After` is true.
- **Thread, books, counters.** A caller hears how its job ended, once. A
  generation is stopped by its own account or its own caller only. The depth a
  client reads counts its job until it has its answer and no longer. Whatever
  dies, stops or is slow, every job ends.
- **Engine.** One resident works at a time; on it a batch of replies, or one
  thing alone. A flag raised for one generation never stops the next.
- **Memory.** What is charged stays within the budget.
- **Experts' cache.** Every expert a pass chose is run, once, on its own weights,
  whatever is resident and whatever fails to be read.
- **Jobs.** A row that says it is running has somebody at it who will end it;
  no two jobs that are in each other's way run at once; the memory of a LoRA run
  is set aside for as long as its process lives; a watcher hears the end.
- **Videos.** A row that says completed has its files, a deleted one has none,
  and an unfinished one has a task, or a request that will give it one. What has
  ended stays ended.
- **Storage move.** Before the switch the server is as it was; after it, wholly
  in the new place. A move that fails leaves nothing behind.
- **Realtime speech and the phone.** A session is in one place. Every sample is
  heard once, in its place. A settled word never changes, comes once, and in
  order. A take that is stopped ends, and with what had been said.
- **A model across machines.** A worker's place is one coordinator's at a time.
  Between generations every stage holds the same conversation. A token is
  sampled from the tokens before it and nothing else. Every generation ends.

The hard behaviours are listed in `PROJECT.json` under `hazards`, each at its
line, with the properties that watch it.

## The modules

| Module | Models | Correspondence |
|---|---|---|
| `Turns` | `pick`, the limits of `admits` | The deque is only pushed at its back, so it is a set of jobs stamped with their arrival. Operators only. |
| `FairQueue` | `Queue`, `Waiting`, `wait_for` | Every operation holds the one lock throughout, so each is one action. `Ask` is `room` and a request turned away by the rate: both ask the rate, which forgets what is old. |
| `FairQueueProofs`, `SchedulerProofs`, `ServerProofs`, `TakesProofs`, `PipelineProofs` | | Theorems about the module each is named for. |
| `MemoryProofs`, `TakesTextProofs` | | Theorems about `Admission` and then `Experts`; and about the text of `Takes`, on those of `TakesProofs`. |
| `Counting` | | Lemmas the proofs share: least elements, finite sets of numbers, smallest counterexamples. |
| `Orders` | | A set of numbers as a sequence: how a layer's experts are sorted, and which of an engine's events are one reply's. Operator only. |
| `Engine` | `Engine`, `worker`, `begin`, `advance`, `step`, `can_join` | A state per resident. `Receive`, `JoinIn`, `Advance`, `StepAlone`, `CheckAlone` are the turns of the worker's loop; `Sent`, `Disconnected` are what the handle sees. |
| `Scheduler` | `run` and everything it calls, `generate`, `cancel`, `Shared`, callers | The thread has a program counter. A step of it is what it does between two looks at what others may change. `cancel` is four steps: the queue's lock, the counter, the books and the callers, the books' lock. |
| `Serving` | the promise of `Batch`, `joining`, `run` | Abstract: a job waits, runs, is over; starts are by turns; only replies on one resident run together. |
| `Admission` | `admit`, `load`, `held`, `reserve`, `lodge`, `resize` and the drops | The lists are read one after another, as `held` locks them; the decision comes later and the charge later still. A reservation keeps two locks while it is made. |
| `Experts` | in `crates/llm/src`: the cache and `Resident` in `experts.rs`, `Moe::run` | Extends `Admission`: `LoadWith` is `load` with the cache that is made in it, of what was left. A pass holds the cache's lock throughout: `Choose` begins it, `RunGroup` is a turn of the loop in `with`, `ReadFails` its early end and the rest from the mapping. Which misses were read, wholly or in part, is a choice: the readers' threads share them out. |
| `Store` | `db.rs`, the parts of `main.rs` and `settings.rs` that start, restart and end the process | What outlives a process (rows, files, the configuration) and what does not; `Die` and `Exec` lose the latter, `Boot` goes where the configuration says and runs `abandon_orphans` and `videos::abandon`. |
| `Jobs` | `jobs.rs`, what starts a job in `training.rs`, `tuning.rs`, `compare.rs` | A start is its looks, the row, and `Launch`, each its own step, as the code takes a lock for each. `WriteEnd` and `Unregister` are the two halves of `finish`. A LoRA run is a process in `kids` and outlives the server's; `Orphaned` is its own watch of its parent. |
| `Videos` | `videos.rs` | A step per use of the database and per file. `CreateVideo`, `KeepPicture`, `BeginFilm` are `create`, whose client may go before there is a task; `Advance`, `Look`, `Tick` are the arms of `run`; `WriteVideo` to `CleanUp` are `finish`; `DeleteRow`, `DeleteFiles` are `delete`; `FollowVideo`, `ReadVideo`, `HearVideo` are `events`. |
| `Storage` | `storage.rs` | `start`, `carry` file by file, the switch step by step under the database's lock, `undo` from wherever it fails, the restart, `forget_previous`. |
| `Server` | | `Jobs` and `Storage`, which is over `Videos`, over one `Store`, and their properties. |
| `Realtime` | `realtime.rs`, when a word settles in `crates/llm/src/speech/live.rs` | A task per socket with a program counter (`connected`, `take`, `run`, `settle`, `park`), the registry `Held`, the sessions. A step is what a task does between two awaits. |
| `Speak` | `apps/phone/core/src/speak.rs` | The file and the take's thread. `LookAtFile`, `SendAudio`, `EndTurn` are one turn of `on`; `Read` is `heard`; `Connect`, `OutOfReach`, `Refused`, `Leave` are `live`. |
| `Takes` | | `Speak` on `Realtime` over sockets that fail for each end at a time of its own, and their properties. |
| `Worker` | in `crates/llm/src`: `cluster/worker.rs`, `cluster/stage.rs`, the cache in `model/mod.rs` | A thread for each connection (`task`); a turn of its loop is an action for each kind of frame. A frame that waits is in `up`, an answer in `down`. |
| `Pipeline` | in `crates/llm/src`: `cluster/session.rs`, `cluster/remote.rs`; of `runtime.rs`, one conversation | A call of the session is `op`, a step for each frame out and answer in. `piped` is its threads: `Feed`, `Take`, `HandBack`, `HandOn`, `NoMore`, `Drain`, over channels with room for one. `Open` to `Dropped` are `Llm`, as `service.rs` drives a generation that is alone. |
| `MC*` | | Constants of the instances. |

`Server` leaves out what the scheduler does with a video, which is in
`Scheduler`: here it films until it is done, fails or is gone (`Filmed`). In the
same way `Takes` leaves out the transcription an update is: it ends, or fails.
`Pipeline` is the session of one engine, which `Engine` has as tokens to come:
what a reply is made of, here, is the tokens its logits were computed from.

`Scheduler` extends `Turns` and `Engine`: its queue is `FairQueue`'s without
the rate, its loads are `Admission`'s without the amounts (a load is refused or
goes ahead as it may). `Scheduler` implements `Serving` by the refinement
mapping in `Promised`: what runs is the job in the thread's hand, the batch,
and the streams not yet dropped; what is over is what neither waits nor runs.

Data is abstracted to what the properties tell apart. A reply is a count of
tokens it may still take, a piece is a token or step, or an ending of one of
three kinds; models, prompts, progress reports and messages are left out. The
time the thread waits in `pump` (20 ms) and in the drains (250 ms) is the
choice of a step that may be taken when nothing has come. Film and transcribe
are one kind: their drains differ in nothing the model keeps. A row is its
state, a file its name; a file is written aside and renamed, which is one step,
since nothing looks for what is half written. A sample and the word in it are
one thing, named by its place in the take; what Whisper makes of sound is a
choice, within when `live.rs` lets a word settle. A row of the residual stream
is the tokens it was computed from, and 0 in every place once it was computed
from anything else, so a wrong row stays wrong through the stages after it; a
cache is the tokens of its rows and the length it says it has. A chunk of a
prompt is one token.

History variables carry the properties and never a guard: `started`, `passed`,
`letIn` in `FairQueue`; `told`, `heard` in `Scheduler`, `interrupted` in
`Engine`; `raced`, `grew` and the `late` marks in `Admission`; `unread` in `Experts`, what
was given a slot by a read that failed.
`cancels`, `leavers` and `panics` count against the bounds. `seen` in `Jobs` is
what a start saw when it looked; `crossed` in `Videos`, the videos whose files
somebody wrote, moved or left between the end of their row and of their files;
`torn` in `Storage`, that a switch was cut off or could not be undone; `early`
in `watch`, that a watcher looked before there was a task; `covers` in `Speak`,
what the first commit was said after; `base` in `Realtime`, where in the take a
session began. `spoilt` in `Worker` is that a kernel panicked in an empty cache
after it had pushed; `late` in `Pipeline` counts the answers of each stage that
were given up.

## The runs

| Run | Checks | Bounds, and why they are enough |
|---|---|---|
| `queue` | `TypeOK`, `NobodyGoesTwiceBefore`, `OrderIsKept`, `RequestsWithinBounds`, `AtMostRateInAMinute`, `RetryIsHonest` | Two accounts and nobody, four arrivals, a limit of three, a share and a rate of two, a minute of three ticks with seconds of two, four ticks: the fourth of a kind is refused, two owners alternate against a third, a load stands between, the window slides past its first entries, and waits are whole and broken seconds. The theorems hold without the bounds. |
| `scheduler` | `TypeOK`, `BooksMatchStreams`, `OnlyTheStoppedStop`, `AnswersAreTheirs`, `DepthIsHonest`, `OneEnding`, `OneAtATime` | Two jobs and one call of `cancel`, over a channel of one piece, on either of two sides (`EitherSide`): generations on one model, each a reply, an image or a video, of whose callers one may hang up; or replies, questions, a load of another model and an unload, with one thing out of the ordinary: the cancellation, an engine that panics, or the scheduler dropped. What two accounts both ask for are replies, whose callers stay; all else is of one account and of none. |
| `ends` | `EveryJobEnds`, `KeepsItsPromises` | A queue limit of two, batches of two, a channel of one piece, on one of two sides (`EitherEnds`). Replies on two residents: three of two accounts, of which at most one is on the other resident and at most one without a cache to share, or two and the end of the scheduler: who may join, whom it passes, and when the next resident starts. Or jobs of one account out of a reply, a video, a load and an unload: two, with one of them stopped or an engine that panics, or one with both. Callers of replies need not read. |
| `budget` | `MemoryTypeOK`, `OnlyWaysOver`, `ExpertsAreTheirs` | Three models, five units of memory, amounts of one, three and six: a model that fits, one that fits alone and one that never does, streaming and spread over machines. The last has a cache of one or two slots, for layers of three experts and of one, so that a pass goes in two groups, or three, evicts what others left and finds some resident. |
| `server` | `TypeOK`, `RunningRowsHaveMakers`, `OverlapsOnlyWhenBothLooked`, `MemoryOutlivesTheRun`, `WatchersHear`, `CompletedHasFiles`, `UnfinishedVideosHaveMakers`, `DeletedIsGone`, `FailedMoveLeavesNothing`, `EndedStaysEnded` | Rows for two jobs (a training run, a LoRA run, a comparison) and two videos, one finished before; three requests, a death and two faults (a write or a reading refused, a thread not had) at any moment. New jobs or new videos and deletions, and a move beside either (`EitherKind`): they share the process, the rows' lock and what goes wrong, and neither looks at the other's rows. Three requests are two starts and a stop, a video made, deleted and followed, or a move beside any of them; a restart between any two steps of each. |
| `live` | `TypeOK`, `HeardInPlace`, `OneHolder`, `NobodyWaitsForTheHeld`, `WordsOnceInOrder`, `CommitCoversWhatThereWas`, `TakesEnd` | A take of two words, updates that hear one at a time, three sockets that drop at any moment, one mishap (a restart, a hold or a handover that runs out, an update that fails, a refusal, a socket left unanswered). Three sockets are one that begins, one that takes over and one that is asked for it meanwhile, or finds it gone. |
| `pipeline` | `TypeOK`, `OnePlace`, `RepliesAreTheirs`, `InStep`, `CallsEnd` | Two workers; prompts of four tokens and of one, replies of one, so that a cache is read on from, cut back to where prompts part, and emptied, and a prompt of three chunks fills every channel; two generations and a mishap (a link cut, an answer given up, a panic, a load that fails), and with them (`OneMore`) a second load, or a rival coordinator at the first worker, or a third generation and a second mishap. |
| `reserved` | `ReservedIsKept` is violated | A finding, below. |
| `misread` | `FailedReadsCostNoAnswer` is violated | A finding, below. |
| `putback` | `EverythingBackInPlace` is violated | A finding, below. |
| `alone` | `BenchmarksAreAlone` is violated | A finding, below. |
| `lost` | `NoWordIsLost` is violated | A finding, below. |

The bounds are constants: `MaxArrivals`, `MaxTime`, `MaxCancels`,
`MaxLeavers`, `MaxSteps`, `MaxPanics`, `MayClose`; in `Store`, `MaxCalls`
(requests that change or watch something), `MaxCrashes` and `MaxFaults` (writes
and readings that are refused, of files and of rows, threads that cannot be had or panic); in `Realtime`,
`MaxSockets`, `MaxWords` and `MaxMishaps`; in `Worker` and `Pipeline`,
`MaxLoads`, `MaxMishaps`, `MaxReply` and `MaxCalls` (generations). The
constraints `EitherSide`, `EitherEnds`, `EitherKind` and `OneMore` of the instances leave out what has more
go wrong at once (`EitherSide` also a cancellation by an account that has asked
for nothing, which changes nothing), and `Apart` leaves out what else happens to
the memory while a model with a cache is loaded, which its cache never sees: its
room was settled when the load was decided. `MostAtOnce` is the code's
`MOST_AT_ONCE` in words. Every run says
`CHECK_DEADLOCK FALSE`: an instance in which every arrival has been spent and
served, or whose queue is closed, has come to rest, as the real server does
when nobody asks it for anything. That no one is left waiting there is
`EveryJobEnds`, not the absence of deadlock.

Symmetry is used where accounts (or models) are interchangeable and only safety
is checked, or a refinement whose abstract specification has no fairness.

### Fairness

Of `Scheduler`, `FairSpec` is used by `ends` alone. The scheduler's thread and the engines'
threads run whenever they can: weak fairness each, since the operating system
runs them and no step of theirs, once possible, is taken away by somebody else
for ever. A call of `cancel` is synchronous and runs to its end; the thread left
with the rest of a reply runs while there is room. Of the callers one thing is
assumed: that one whose job has the engine to itself reads what it is sent. The
code sends to it with `blocking_send`, so the thread does wait for that, and the
handlers read until the end. Nothing is assumed of the caller of a reply, which
`try_send` and the backlog are there for; nothing of arrivals, of cancellations
beginning, of panics, or of an engine ending a reply before its tokens run out.

`Takes`' `FairSpec` is used by `live`: weak fairness of `GoesOn`, which is any
step of the server's tasks, of the take's thread, or of a phone that leaves a
socket the server is done with while it is owed something. Whatever else happens, while one of these is
possible one of them is taken in time, in no particular order: the tasks and the
thread run, reads on the phone have a timeout, and a socket on which nothing
comes for `STALLED` is left, if something is owed (`speak.rs`:805): it is from
the moment it opens or audio or the commit is sent, until anything at all is
read. That a phone hears of a link that has gone is not assumed. Links need not drop, nothing need go wrong, and nobody need speak
or stop. One condition on the whole, rather than one for each task, is enough
since every step of these uses up something there is a bounded amount of.

`Pipeline`'s `FairSpec`, used by `pipeline`, is of the same kind: weak fairness
of `GoesOn`, any step of the workers' threads, of the threads of `piped`, or of
the engine's thread on its way through a generation. The threads run, and no
answer is waited for longer than `PATIENCE`. It does not include a stop, a new
generation, a load or anything that goes wrong.

### Findings

- **`reserved`.** A load is decided on what was held when it began (`S`:1625)
  and charged when it is over (`S`:1478). A reservation made in between sees
  neither the model nor its claim, succeeds, and both are charged. The doc of
  `Reserved` (`S`:763) says a model is not loaded into that memory.
- **`misread`.** `touch` enters the misses of a group in the cache, and they are
  read after that (`crates/llm/src/experts.rs`:603, 628). A read that fails ends
  `with` there, and nobody takes them out again. That pass runs them from the
  mapping, as the comment says (`crates/llm/src/model/ffn.rs`:625, "A failed read
  costs speed and not the answer"); the next one finds them resident and runs
  them on what their slabs hold, which is another expert or part of a read.
  `ExpertsAreTheirs` says that nothing else is ever run as what it is not.
- **`putback`.** The switch of a move holds the database's lock, and the files
  are under none: a video that is being written makes the old `videos` anew
  after it was renamed away (`videos.rs`, `create_dir_all`). If the switch then
  fails, the rename back finds a directory there and is refused, which nobody
  hears, and the target is emptied with every video in it (`storage.rs`:511).
  The comment (`storage.rs`:578) has the server stay with everything back in
  place.
- **`alone`.** `machine_is_busy` asks for `train`, `bench` and `eval`
  (`compare.rs`:598) and not for `tune`: a benchmark, or an eval, is let in
  beside a LoRA run, which has the GPU. The doc of the page (`bench.rs`:9) has it
  refuse while "a training run, an eval or another benchmark" is going, and a
  LoRA run is a training run (`jobs.rs`:303); the doc of `live_kind`
  (`jobs.rs`:311) has a benchmark refused "while anything else is on the
  machine", and that of `machine_is_busy` (`compare.rs`:590) and
  `docs/serve.md`:445 say the same. In the other direction nothing is promised:
  training does not ask for benchmarks, and starts beside one.
- **`lost`.** A settled event's offset is how far the update had heard
  (`realtime.rs`:746), not where its words end, and the phone begins its next
  session there (`speak.rs`:650). Words heard and not yet settled when the
  server lets a session go are never sent again. The doc (`speak.rs`:15) has a
  new session begin at the last settled word, with what was said since sent
  from the file.

`OnlyWaysOver` says what does hold of the budget: it is passed only when a sum
was out of date by the time it was charged, or a model took more than its files
had said; `DeletedIsGone`, `FailedMoveLeavesNothing` and `WordsOnceInOrder` say
what holds beside `putback` and `lost`, and `OverlapsOnlyWhenBothLooked` beside
`alone`.

Where a property has an exception, it is one the code makes, and the runs reach
it:

- *Scheduler.* `cancel` drops the queue's lock (`S`:1119) before it marks the
  books (`S`:1132). A generation its account submits in between is in the books,
  so it is told to stop and counted, and it is in the queue, where it stays until
  its turn and holds its place, though the doc (`S`:1106) has a waiting one leave
  at once. `OneEnding` says that it ends, and that once.
- *Jobs.* Two starts that both look before either has a row both go ahead
  (`OverlapsOnlyWhenBothLooked`, which is of the pairs the code looks out for:
  that LoRA runs are not among a benchmark's is `alone`). An end the disk
  refuses, or a thread that panics or cannot be had, leaves a row running until
  the next start (`RunningRowsHaveMakers`, `faults`). A watcher that looks
  between the row and the registry is told the job ended `running` (`early`). A
  LoRA run outlives an exec, which keeps its parent's pid, and nobody waits for
  it then (`MemoryOutlivesTheRun`, `IsWaitedFor`).
- *Videos.* A deletion between the renames of `finish`, or beside a preview or a
  picture being kept, leaves the later file (`crossed`). `create` awaits the row
  and its picture (`videos.rs`:1006) before it makes the herald and the task
  (1021): a client that goes meanwhile, a picture that cannot be kept or a row
  that cannot be read back leaves a row queued with nobody to make it
  (`film[v] = "nobody"`). A refused `advance` ends the task (1075), and a refused
  `fail` is not heard (1036): the row stays as it was (`film[v] = "cut"`). Both
  are put right by the next start alone, where the doc of `Herald` (490) has a
  watcher read the row one last time and the doc of `events` (1132) tells it of
  changes "until it ends": in these cases, and when the reading itself is refused
  (1175), its stream ends without an end (`WatchersHear`). When the row of a
  finished video cannot be written, and it had been deleted meanwhile, the files
  stay: `finish` returns before it removes them (400), and `fail` does not
  (`crossed`).
- *Storage move.* A death between the renames and the configuration leaves the
  two apart (`torn`). What is written to the old database after the switch lets
  go of the lock and before the process ends is lost; `CompletedHasFiles` looks
  at the rows the configuration names, once it is read again.
- *Live.* A take hangs when its link dies unheard while nothing is owed
  (`Unnoticed`). Any message clears `owed` (`speak.rs`:747, 766), and once all is
  sent and committed nothing sets it again (797): if one event comes after the
  commit, such as the update before it, and the link then dies without a word,
  the phone waits for ever, until its user throws the take away. The comment
  (`speak.rs`:73) counts a commit as owing an answer until it comes.
  `TakesEnd` says that a take ends in every other case.
  The phone looks at the file before it looks whether it is stopped
  (`speak.rs`:779, 797), so a commit may be said before the last samples were
  sent, and the first item's end then ends the take without them;
  `CommitCoversWhatThereWas` says what the text does cover. A reconnect may be
  told its session is not found while it lives: it asked a socket that had just
  given it to another, or was second in a channel of one.
- *Cluster.* An answer that is given up after `PATIENCE` stays on the socket and
  is read as the answer to the next frame. One late answer is always found out,
  and the stage answers wrongly until the model is loaded again (`InStep` says
  nothing of it). After a second it need not be (`LateAgain`): rows are checked
  for their position and number and not for their tokens (`cluster/remote.rs`:217), so
  those of the prompt before may be taken, where the comment
  (`cluster/remote.rs`:214) has that found out "and not in the reply"; and a rewind may
  be answered with the length of an earlier one. If that is a prompt's length,
  a token is sampled from no logits; if it is more, the prompt is never ready
  (`crates/llm/src/runtime.rs`:91) and the generation goes round until it is stopped
  (`CallsEnd`). TLC finds the first of these with prompts `<<1>>` and `<<2>>`,
  four generations and two mishaps, when the exception is taken out. A kernel
  that panics in an empty cache leaves what it had pushed: `truncate` returns
  early, since the length is 0 already (`crates/llm/src/model/mod.rs`:710), and what comes next
  is appended to it (`spoilt`). The comment (`cluster/worker.rs`:267) has the panic be
  "this stage's fault and one reply's".

## The proofs

Each theorem is of a specification without its bounds being fixed: for every set
of accounts, models, jobs, sockets or workers, every limit and every number of
calls, deaths and faults. An invariant a run checks is seldom inductive; what is
added to it is the argument, and is what the theorem's neighbours rest on.

**The queue** (`FairQueueProofs`):

- `TypeCorrect`: `Spec => []TypeOK`. Its stamps clause, that no job is stamped
  above the arrivals so far, is what the others rest on.
- `TurnsAlternate`: `Spec => []NobodyGoesTwiceBefore`. That nobody has been
  passed twice says nothing of why not. The invariant adds that whoever has
  passed an account since its last turn was served later than that account was,
  and that `served` is never ahead of `turn`. A second turn would then go to one
  served later than a candidate, which `TurnIsLeastServed` denies.
- `NothingPasses`: `Spec => []OrderIsKept`, from `TurnIsInOrder`: what is taken
  has in front of it only generations, all of other accounts.
- `QueueIsBounded`: `Spec => []RequestsWithinBounds`. The invariant adds that
  the queue is finite and that requests are generations; a request is let in
  by the count of all generations, of which the requests are some.
- `RateIsKept`: `Spec => []AtMostRateInAMinute`. The property is about all that
  was ever let in, the code looks at a log that forgets. The invariant: the log
  is in order, it is the end of what was let in, and what is before it is a
  minute old.
- `WaitIsTrue`: `Spec => []RetryIsHonest`. The wait is worked out from the log's
  oldest entry in whole seconds, rounded up; the proof is that rounding up lands
  where that entry is a minute old, and a second less does not.

**The scheduler and its engines** (`SchedulerProofs`) have four invariants, each
resting on the ones before it:

- `ThreadInv`: where every job is. It waits, or is in the thread's hand, or runs,
  or a cancellation has it, and nowhere twice; who is still counted as waiting,
  who is in the books and whose channel is still held follow from where it is,
  at every place the thread and a cancellation can be between their locks. From
  it `BooksTheorem` and `DepthTheorem`, and `SchedulerKeepsItsPromises`,
  `Spec => KeepsItsPromises`: each step of the scheduler is one of `Serving`'s
  under the mapping, or a stutter.
- `EngineInvariant`: what was asked of whom. Every engine but the one the thread
  has asked is quiet (`OthersInv`); what that one has is in exactly one of its
  places, and after the event that ends a job it says nothing more of it
  (`AloneAt`, `AnswerAt`, `BatchAt`). So what is received is about the job in hand
  (`AnswersTheorem`) and one resident is at work (`OneAtATimeTheorem`), through
  panics at any moment.
- `StopInv`: whom a flag may stop. A flag that is up while its engine makes
  something is about what is made; the books name an engine only for what it is
  making. With the next, `OnlyTheStoppedStopTheorem`.
- `HearInv`: what every caller has been told. Of each it says which of four
  applies: told nothing yet; running as a reply; having an engine to itself;
  over. In the middle two everything sent and kept back is steps; after them
  exactly one end is in what is still to be read, as its last piece, or was
  read. From it `OneEndingTheorem`, and `TypeTheorem`, whose bound on what a
  channel holds is that nothing is sent without waiting unless there is room.

**The memory** (`MemoryProofs`):

- `MemoryIsTyped`, `BudgetIsKept`: `Spec => []OnlyWaysOver`. Three lists are read
  one after another and charged later, so the sum somebody has seen is nobody's
  state. The invariant says of everybody who is asking and not `late` that what
  is charged to the lists it has read is what it has seen, or less, and of a
  load that what it was given fits in what it saw. Then a charge that is not
  late keeps to the total. What a list is charged is a fold over a finite set,
  whose laws (empty, one more, one less, a part of it) are lemmas, by smallest
  counterexamples.
- `MemoryIsAdmission`: the memory with the experts' caches is `Admission`, each
  step a step of it or a stutter; `BudgetIsKeptBesidesPasses` follows.
- `ChosenExpertsAreRun`, `CachesAreTyped`: `MemorySpec => []ExpertsAreTheirs` and
  `MemorySpec => []MemoryTypeOK`. The invariant, `ExpertsInv`: a slot has one
  expert, an expert one slot, and the order has the slots with one, each once; a
  slab holds what its slot is marked with, or that is in `unread`; what a pass
  has run and what it has to run are the chosen, in order, and it has a cache
  while it has chosen anything, so its model is in memory. A group is touched
  one after another, and of that there is an invariant of its own (`SoFar`): as
  many slots as have been touched are the last of the cache's order, and each
  still has what it was found with. The victim is the first of an order as long
  as the cache has slots, so it is none of them while the group is no larger
  than the cache. The recursive function and the order of a layer are shown to
  exist by smallest counterexamples.

**The server** (`ServerProofs`): `ServerInvariant` is one inductive invariant of the
jobs, the videos, who watches them, the process, and the move over the disk
they share. Its parts: a process that is down knows nothing (`Idle`); what
moves is the first directory, and the second has no rows until the switch
(`MoveIsHere`); rows are made in order (`NoGaps`); a row says `running` while
its run is somewhere between made and ended, or something has failed
(`RowsHaveRuns`); whatever is at work saw the rows it looked at ended
(`LookedBefore`); a LoRA run's memory goes from its start to its row to its
process (`MemoryIsHeld`); who follows has the channel or its end (`JobFollowed`
and its like for videos); a video's row and its task agree. From it:
`ServerIsTyped`, `RunningRowsAreMade`, `OverlapsAreRaces`,
`MemoryIsHeldForTheRun`, `UnfinishedVideosAreMade`, `EndsAreHeard`, and the
action property `EndsAreFinal`.

`FilesInvariant` is a second one, of the disk. It has three places to speak of:
where the server is, where a rename can be undone from, and where the
configuration points. Of the first it follows each task (`Works`): a film with
its poster still to come has its film there, one about to be noted as completed
has both, and one whose row has gone has nothing but what its task will itself
remove. `Stock` is what makes that survive a rename: between the rename and the
new configuration the files of a task are on both sides, and a rename is undone
only if nothing was written on this side, which puts all of them back. Of the
others it says they are `Ready`: what is completed is whole and what is gone has
no files, so a process that starts there finds the first again. The lock is why
the copied rows and the files brought over later agree. From it
`CompletedVideosAreWhole`, `DeletedVideosAreGone`, `FailedMovesLeaveNothing`.

**Live transcription** (`TakesProofs`, `TakesTextProofs`) has three invariants over its
types, each resting on the ones before it:

- `PlacesAreKept`: where sessions are. Two sockets never have one session
  (`OneEach`); one that is kept is held or a socket has it, never both
  (`HeldOrHad`); one the registry says is on a socket is run there or has just
  been handed on (`OnIsThere`), and a socket that runs one is where the registry
  says (`HereIsOn`); whoever waits for one has its question with the socket that
  runs it (`Waits`, `Questions`). From it `SessionsAreInOnePlace` and
  `WaitingIsForTheRunning`.
- `WordsAreKept`: where samples are. For each socket that runs a session there is
  a cursor at every place of its wire: it begins at what the session is to have
  next, each sample is the one at its cursor and moves it on, an offset says
  where it is, and it ends at what the phone has sent (`WiresFollow`). The rest is
  what a wire is before a socket is answered (`Quiet`), what the phone knows of
  the session and is told of it (`PhoneNamed`, `OnTheSocket`, `Turning`), and that
  no cursor is beyond the recording. From it `TakesAreHeardInPlace`, which is
  `Spec => []HeardInPlace`, and `TakesAreTyped`, whose bounds are those cursors'.
- `TextIsKept`: what the phone has of what was said. The server's log forgets, its
  wires drop, and an event may come twice, so none of the state says what the
  phone should have. The invariant says there is, for every session, the history
  of all that was ever said of it (`Pieces`): each event with an id of its own,
  none having heard less than one before it, and each with the words after the
  mark the one before it came up to. The phone has the first `e` of its
  session's (`PhoneHas`), and its text ends at that one's mark (`TextEnds`). What
  is on its way to the phone is the history from `e` or before, none left out, to
  the last that was said (`Telling`); and what a session has still in its log, or
  will have when a reconnect asks for it, reaches back to the last the phone has
  (`Behind`), so nothing is left out by a resumption: an event the phone has had
  is known by its id, and any other is the next. Of a commit it says that
  whatever is said of it had heard what the phone has it cover (`Owes`): on the
  wire it comes after those samples (`Exactly`), in the session it waits for them
  to be heard. From it `TakesWordsInOrder` and `TakesCoverTheirCommit`.

**A worker's place** (`PipelineProofs`): `PlaceIsOnes`, `Spec => []OnePlace`. A
place is busy exactly when one connection has it, a thread that loads has it,
and who has layers has it.

**What is on the wires** (`PipelineProofs`): `FramesAreCounted`,
`Spec => []TypeOK`, of which the bound on the queues is not about types. It
needs two invariants more. `Typed` says how far each thing the session may be
doing has come (`Course`): which stages a rewind has still to ask or to hear,
which lanes a prompt's threads are in. `Lined` counts: a stage that is up has,
between what it was asked and what it has answered, one frame for each answer
that is due (`Due`: one if the session waits for it, and those it has given up
waiting for), and of one that is cut no more than that is left to read. A
mishap is spent for every answer given up, hence the bound. Every step of the
session keeps it for one reason: for each stage it does nothing, asks once, or
hears once (`Moves`).

The proofs assume what the modules' `ASSUME`s say of the constants and nothing
else; TLC evaluates each in a run. They are as weak as the code justifies: bounds
are naturals, ids are counted from one and finitely many (a table's rows), and an
unknown size is no number. What a selection from a sequence is has no laws this
prover can cite, so places are picked by `InOrder`, of which `Counting` proves
what is needed.

Only model-checked:

- of `Pipeline`, `RepliesAreTheirs` and `InStep`: they need what each answer on
  its way will say, of each of the things a session does.
- liveness (`EveryJobEnds`, `TakesEnd`, `CallsEnd`): this prover does no
  fairness and no `ENABLED`.

## What is left out

Of the modelled components: the counters of the dashboard, progress reports,
the view of the queue (`Waiting::order`), the clock of last use, what the
terminal app alone asks of an engine, the estimate of a model's size. Real time
is absent from `Scheduler`: that a video whose steps kept coming within 250 ms
would not be interrupted if its flag was cleared too late is outside it.

Of `Experts`: the index of the cache file, alignment and rebasing, the
environment's override of the size, the counters, a slab replaced because a
weight still looks into it (a pass lets go of its views before the next group),
the router, and the replay of traces against policies (`residency.rs`).

Of `Server`: what a job does while it runs and what it logs, encoding, lists and
downloads, the smaller settings. A second move that begins between the two looks
of `start` is not modelled: one move at a time. (A cancellation between the
stage being set and the flag being cleared is, and `BeginCarry` loses it as the
code does.) The asides (`.part`) a death leaves are not, nor is an interrupt
sent to a pid that has been reaped.

Of `Takes`: settings of a session, other kinds of message, limits in real time
(a handover or a hold that runs out is a mishap, at any moment); the tie in
which a handover's answer and its timeout come together; a file on the phone
that cannot be written.

Of `Pipeline`: how layers are placed (`plan.rs`), the survey, greetings and the
key, benching, progress, a stage on this machine, more than one conversation (a
session across machines keeps one), chunks of several tokens, recurrent states,
`Unload`, which no coordinator sends, and a factory that panics, after which a
worker loads nothing more. A rewind that fails at one stage is not remembered as `torn`: it fails
because that stage has gone or its answer is late, of which `InStep` says
nothing.

Not modelled, with their reasons, are the components `PROJECT.json` marks
`not_modelled`: most of the repository is arithmetic, formats, user interface and
the command line, which have no state that outlives a call, or access control,
which is outside this development.

## The plan

1. *(done)* `Turns`, `FairQueue` and its proofs; `Engine`, `Serving`,
   `Scheduler`; `Admission`.
2. *(done)* `Store`, `Jobs`, `Videos`, `Storage` and `Server`.
3. *(done)* `Realtime`, `Speak` and `Takes`.
4. *(done)* `Worker` and `Pipeline`.
5. *(done)* `Experts`.
6. The conversations a model sets aside (`runtime.rs`), against a reference
   definition.
7. *(done)* Proofs: the queue's rate, the scheduler's invariants and its refinement of
   `Serving`, the budget, the experts' cache, `OnePlace`, the server's rows,
   watchers and files, the places, words and text of live transcription, what is
   on the wires of a cluster.
8. Proofs to come: `RepliesAreTheirs` and `InStep`.
