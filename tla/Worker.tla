------------------------------- MODULE Worker -------------------------------
(***************************************************************************)
(* The workers of a cluster (crates/llm/src/cluster/worker.rs, stage.rs):  *)
(* each answers any number of coordinators, a thread for each connection,  *)
(* and holds layers for one of them: the stage, with its cache of keys and *)
(* values (model/mod.rs, KvCache).                                         *)
(*                                                                         *)
(* A row of the residual stream is the tokens it is of: the row at a       *)
(* position is computed from all before it, through the caches. One that   *)
(* was computed from anything else is wrong in every place. A stage's      *)
(* cache is the tokens of its rows, and how long it says it is.            *)
(***************************************************************************)
EXTENDS Integers, Sequences, FiniteSets

CONSTANTS
    Workers,     \* the machines with a stage each, 1..n in the order of the layers
    Contested,   \* those another coordinator asks for layers as well
    MaxLoads,    \* bound: loads of the model across them
    MaxMishaps   \* bound: links cut, answers late, kernels that panic, loads that fail

ASSUME WorkerAssumption ==
    /\ IsFiniteSet(Workers) /\ Workers = 1..Cardinality(Workers) /\ Cardinality(Workers) > 1
    /\ Contested \subseteq Workers
    /\ MaxLoads \in Nat /\ MaxMishaps \in Nat

VARIABLES
    up,       \* frames on their way to a worker, on each connection
    down,     \* and its answers
    link,     \* what a coordinator has of a connection
    task,     \* the worker's thread for it
    ours,     \* Held::ours
    stage,    \* Held::stage, and its cache
    busy,     \* Shared::busy, of each worker
    spoilt,   \* history: kernels that panicked in a cache that had nothing
    mishaps

wire == <<up, down>>
workerVars == <<task, ours, stage, busy, spoilt>>

\* Connections: one a load to each worker, and one from another coordinator.
Rival == 0
Connections == (Workers \X (1..MaxLoads)) \cup (Contested \X {Rival})
To(c) == c[1]

NoStage == [len |-> -1, rows |-> <<>>]
Empty == [len |-> 0, rows |-> <<>>]

\* A frame: what it is, and the position or length, and the row, if it has.
Frame(kind, pos, row) == [kind |-> kind, pos |-> pos, row |-> row]
Plain(kind) == Frame(kind, 0, <<>>)
Wrong(n) == [i \in 1..n |-> 0]

WorkerInit ==
    /\ up = [c \in Connections |-> <<>>] /\ down = up
    /\ link = [c \in Connections |-> "none"]
    /\ task = [c \in Connections |-> "none"]
    /\ ours = [c \in Connections |-> FALSE]
    /\ stage = [c \in Connections |-> NoStage]
    /\ busy = [w \in Workers |-> FALSE]
    /\ spoilt = FALSE
    /\ mishaps = 0

WorkerTypeOK ==
    /\ \A c \in Connections : Len(up[c]) <= 1 + mishaps /\ Len(down[c]) <= 1 + mishaps
    /\ link \in [Connections -> {"none", "up", "cut", "left"}]
    /\ task \in [Connections -> {"none", "listens", "loads", "gone"}]
    /\ ours \in [Connections -> BOOLEAN] /\ busy \in [Workers -> BOOLEAN]
    /\ \A c \in Connections : stage[c].len <= Len(stage[c].rows)
    /\ spoilt \in BOOLEAN
    /\ mishaps \in 0..MaxMishaps

AMishap == mishaps < MaxMishaps /\ mishaps' = mishaps + 1
Smoothly == UNCHANGED mishaps

\* What a thread has read, and what it answers; nobody hears it on a link
\* that has gone.
Asks(c, kind) == task[c] = "listens" /\ up[c] # <<>> /\ Head(up[c]).kind = kind
Taken(c) == up' = [up EXCEPT ![c] = Tail(@)]
Says(c, frame) == down' = IF link[c] = "up" THEN [down EXCEPT ![c] = Append(@, frame)] ELSE down

\* Held::release and its drop. (Mistaken: the place is given back by one who
\* has not got it.)
ReleaseWhoever(c) ==
    /\ stage' = [stage EXCEPT ![c] = NoStage]
    /\ ours' = [ours EXCEPT ![c] = FALSE]
    /\ busy' = [busy EXCEPT ![To(c)] = FALSE]
Release(c) ==
    /\ stage' = [stage EXCEPT ![c] = NoStage]
    /\ ours' = [ours EXCEPT ![c] = FALSE]
    /\ busy' = IF ours[c] THEN [busy EXCEPT ![To(c)] = FALSE] ELSE busy

\* Load: the stage held goes first; then the place is claimed, or the
\* coordinator is told that another has it.
TakeLoad(c) ==
    /\ Asks(c, "load") /\ Taken(c)
    /\ IF ours[c] \/ ~busy[To(c)]
       THEN /\ ours' = [ours EXCEPT ![c] = TRUE]
            /\ busy' = [busy EXCEPT ![To(c)] = TRUE]
            /\ stage' = [stage EXCEPT ![c] = NoStage]
            /\ task' = [task EXCEPT ![c] = "loads"]
            /\ UNCHANGED down
       ELSE Release(c) /\ Says(c, Plain("error")) /\ UNCHANGED task
    /\ UNCHANGED <<link, spoilt>> /\ Smoothly

\* The factory has made it, or has not: nothing loaded is nothing held.
Loaded(c) ==
    /\ task[c] = "loads"
    /\ task' = [task EXCEPT ![c] = "listens"]
    /\ \/ /\ stage' = [stage EXCEPT ![c] = Empty]
          /\ Says(c, Plain("ready"))
          /\ UNCHANGED <<ours, busy>> /\ Smoothly
       \/ AMishap /\ Release(c) /\ Says(c, Plain("error"))
    /\ UNCHANGED <<up, link, spoilt>>

\* LocalStage::run on a row. What attention reads is the first of the cache.
\* (Mistaken: its keys and values are not kept.)
Pushed(held, row) ==
    Append(held.rows, IF SubSeq(row, 1, held.len) = SubSeq(held.rows, 1, held.len) THEN row[Len(row)] ELSE 0)
RanAhead(held, row) == [held EXCEPT !.len = @ + 1]
Ran(held, row) == [len |-> held.len + 1, rows |-> Pushed(held, row)]
Given(held, row) == IF SubSeq(Pushed(held, row), 1, Len(row)) = row THEN row ELSE Wrong(Len(row))

\* Forward: rows for the position the cache is at, and rows back. A kernel
\* that panics is an error said; keys and values it had pushed stay, past the
\* length, which is moved last.
Fits(held, frame) == held # NoStage /\ held.len = frame.pos
Forward(c) ==
    /\ Asks(c, "forward") /\ Taken(c)
    /\ LET frame == Head(up[c])
           held == stage[c]
       IN  \/ /\ Fits(held, frame)
              /\ stage' = [stage EXCEPT ![c] = Ran(held, frame.row)]
              /\ Says(c, Frame("hidden", frame.pos, Given(held, frame.row)))
              /\ UNCHANGED spoilt /\ Smoothly
           \/ /\ ~Fits(held, frame)
              /\ Says(c, Plain("error"))
              /\ UNCHANGED <<stage, spoilt>> /\ Smoothly
           \/ /\ Fits(held, frame) /\ AMishap
              /\ \E pushed \in BOOLEAN :
                    /\ stage' = IF pushed THEN [stage EXCEPT ![c].rows = Append(@, 0)] ELSE stage
                    /\ spoilt' = (spoilt \/ (pushed /\ held.len = 0))
              /\ Says(c, Plain("error"))
    /\ UNCHANGED <<link, task, ours, busy>>

\* Truncate: what is past the length asked for goes, if it is past it.
\* (Mistaken: only the length is moved.)
CutTheLength(held, len) == IF len >= held.len THEN held ELSE [held EXCEPT !.len = len]
Cut(held, len) == IF len >= held.len THEN held ELSE [len |-> len, rows |-> SubSeq(held.rows, 1, len)]
Truncate(c) ==
    /\ Asks(c, "truncate") /\ Taken(c)
    /\ IF stage[c] = NoStage
       THEN Says(c, Frame("truncated", 0, <<>>)) /\ UNCHANGED stage
       ELSE LET cut == Cut(stage[c], Head(up[c]).pos)
            IN  stage' = [stage EXCEPT ![c] = cut] /\ Says(c, Frame("truncated", cut.len, <<>>))
    /\ UNCHANGED <<link, task, ours, busy, spoilt>> /\ Smoothly

\* Spend: what it has spent in its layers.
Spend(c) ==
    /\ Asks(c, "spend") /\ Taken(c)
    /\ Says(c, Plain("spent"))
    /\ UNCHANGED <<link, task, ours, stage, busy, spoilt>> /\ Smoothly

\* The coordinator has gone: its frames that came are read or are not.
Ends(c) ==
    /\ task[c] = "listens" /\ link[c] # "up"
    /\ task' = [task EXCEPT ![c] = "gone"]
    /\ Release(c)
    /\ up' = [up EXCEPT ![c] = <<>>]
    /\ UNCHANGED <<down, link, spoilt>> /\ Smoothly

\* A coordinator that greets a worker and asks it for layers; and leaves.
Opens(cs) ==
    /\ link' = [c \in Connections |-> IF c \in cs THEN "up" ELSE link[c]]
    /\ task' = [c \in Connections |-> IF c \in cs THEN "listens" ELSE task[c]]
    /\ up' = [c \in Connections |-> IF c \in cs THEN <<Plain("load")>> ELSE up[c]]
    /\ UNCHANGED <<down, ours, stage, busy, spoilt>>
Leaves(cs) ==
    /\ link' = [c \in Connections |-> IF c \in cs THEN "left" ELSE link[c]]
    /\ down' = [c \in Connections |-> IF c \in cs THEN <<>> ELSE down[c]]
    /\ UNCHANGED <<up, workerVars>>

\* The other coordinator.
RivalComes(w) == link[<<w, Rival>>] = "none" /\ Opens({<<w, Rival>>}) /\ Smoothly
RivalGoes(w) == link[<<w, Rival>>] = "up" /\ Leaves({<<w, Rival>>}) /\ Smoothly

\* A link goes.
LinkCut(c) ==
    /\ link[c] = "up" /\ AMishap
    /\ link' = [link EXCEPT ![c] = "cut"]
    /\ UNCHANGED <<wire, workerVars>>

WorkerStep(c) == TakeLoad(c) \/ Loaded(c) \/ Forward(c) \/ Truncate(c) \/ Spend(c) \/ Ends(c)
RivalStep == \E w \in Contested : RivalComes(w) \/ RivalGoes(w)
=============================================================================
