----------------------------- MODULE Admission -----------------------------
(***************************************************************************)
(* The memory budget: what the residents, a training run's reservation and *)
(* the layers held for another machine are charged, and how each of them   *)
(* is let in (`admit` of crates/serve/src/memory.rs; `load`, `reserve`,    *)
(* `lodge` and the guards of crates/serve/src/scheduler.rs).               *)
(*                                                                         *)
(* The three lists have a lock each. Who asks reads one after another,     *)
(* decides on the sum, and is charged later: a load when it is over,       *)
(* minutes after. A reservation keeps two of the locks while it is made.   *)
(***************************************************************************)
EXTENDS Integers, FiniteSets, FiniteSetsExt

CONSTANTS
    Models,   \* the models this server may load
    Total,    \* Budget::total
    Floor,    \* STREAMING_FLOOR
    Bytes,    \* what a model is estimated to take, and may turn out to
    Unknown,  \* the estimate of a model whose size nobody can say
    RunSizes, \* what a training run asks for
    GuestSizes \* what another machine's layers are asked for with, and are

ASSUME AdmissionAssumption ==
    /\ Total \in Nat /\ Floor \in Nat
    /\ Bytes \subseteq Nat /\ RunSizes \subseteq Nat /\ GuestSizes \subseteq Nat
    /\ Unknown \notin Nat

VARIABLES
    residents, \* Shared::residents
    reserved,  \* Shared::reserved: no amount, or one
    guests,    \* Shared::guests: a worker holds one stage at a time
    asking,    \* where each of those who ask is, and what it has seen
    raced,     \* history: somebody was charged for a decision out of date
    grew       \* history: something took more than it was admitted with

vars == <<residents, reserved, guests, asking, raced, grew>>

Askers == {"load", "reserve", "lodge"}

\* A list each is read at its place, then a decision, then, for a load, the
\* load itself. `seen` is the sum so far, `alone` that there was nothing yet;
\* `late` that something was charged to a list after it was read.
Rest == [at |-> "rest", what |-> 0, seen |-> 0, alone |-> TRUE, late |-> FALSE,
         commit |-> 0, streams |-> FALSE]

Init ==
    /\ residents = {} /\ reserved = {} /\ guests = {}
    /\ asking = [a \in Askers |-> Rest]
    /\ raced = FALSE /\ grew = FALSE

Charged(list) == MapThenSumSet(LAMBDA r : r.commit, list)

\* Everything admission counts.
Spent == Charged(residents) + Charged(reserved) + Charged(guests)

Left(seen) == IF seen > Total THEN 0 ELSE Total - seen

(***************************************************************************)
(* admit                                                                   *)
(***************************************************************************)
Fits(commit) == [as |-> "fits", commit |-> commit]
Streams(room) == [as |-> "streams", commit |-> room]
Refused == [as |-> "refused", commit |-> 0]

\* Alone, anything goes: a model over the budget is charged all of it.
Admit(alone, left, need) ==
    LET known == need.bytes # Unknown
    IN  IF known /\ need.bytes <= (IF alone THEN Total ELSE left) THEN Fits(need.bytes)
        ELSE IF alone THEN IF need.streams THEN Streams(Total) ELSE Fits(Total)
        ELSE IF known /\ need.streams /\ left >= Floor THEN Streams(left)
        ELSE Refused

\* A model too large for what is left may be spread over other machines.
Spread(left, need) == Fits(left)

(***************************************************************************)
(* held                                                                    *)
(***************************************************************************)

\* A reservation is being made, under the locks of two lists.
Locked == asking["reserve"].at # "rest"

Place == [rest |-> 0, residents |-> 1, reserved |-> 2, guests |-> 3, decide |-> 4, loading |-> 5]

\* Whose decision is to come, having read this list before.
HasRead(a, list) == Place[asking[a].at] > Place[list]

\* But for one, those who have read a list already do not see what is charged to it now.
Unseen(list, but, was) ==
    [a \in Askers |-> IF a # but /\ HasRead(a, list)
                      THEN [was[a] EXCEPT !.late = TRUE] ELSE was[a]]

Reading(a, list, next) ==
    [asking EXCEPT ![a].at = next, ![a].seen = @ + Charged(list),
                   ![a].alone = @ /\ list = {}]

\* Shared::held begins: the residents.
Begin(a, what, next) ==
    /\ asking[a].at = "rest"
    /\ ~Locked
    /\ asking' = [asking EXCEPT ![a] =
            [Rest EXCEPT !.at = next, !.what = what, !.seen = Charged(residents),
                         !.alone = residents = {}]]
    /\ UNCHANGED <<residents, reserved, guests, raced, grew>>

\* (Mistaken: what is reserved is not counted.)
ReadPastReserved(a) ==
    /\ asking[a].at = "reserved" /\ ~Locked
    /\ asking' = [asking EXCEPT ![a].at = "guests"]
    /\ UNCHANGED <<residents, reserved, guests, raced, grew>>
ReadReserved(a) ==
    /\ asking[a].at = "reserved" /\ ~Locked
    /\ asking' = Reading(a, reserved, "guests")
    /\ UNCHANGED <<residents, reserved, guests, raced, grew>>

ReadGuests(a) ==
    /\ asking[a].at = "guests"
    /\ asking' = Reading(a, guests, "decide")
    /\ UNCHANGED <<residents, reserved, guests, raced, grew>>

(***************************************************************************)
(* load and unload, by the scheduler's thread                              *)
(***************************************************************************)
StartLoad(m) ==
    /\ \A r \in residents : r.id # m
    /\ Begin("load", m, "reserved")

DecideLoad(need) ==
    LET left == Left(asking["load"].seen)
        said == Admit(asking["load"].alone, left, need)
        given(v) == [asking EXCEPT !["load"].at = "loading", !["load"].commit = v.commit,
                                   !["load"].streams = v.as = "streams"]
    IN  /\ asking["load"].at = "decide"
        /\ \/ said # Refused /\ asking' = given(said)
           \/ said = Refused /\ asking' = [asking EXCEPT !["load"] = Rest]
           \/ /\ said = Refused /\ left > 0 /\ need.bytes # Unknown
              /\ asking' = given(Spread(left, need))
        /\ UNCHANGED <<residents, reserved, guests, raced, grew>>

\* Charged what it turned out to be, or the room it streams through.
EndLoad(took) ==
    LET load == asking["load"]
        commit == IF load.streams THEN load.commit ELSE Min({took, Total})
    IN  /\ load.at = "loading" /\ ~Locked
        /\ residents' = residents \cup {[id |-> load.what, commit |-> commit]}
        /\ asking' = Unseen("residents", "load", [asking EXCEPT !["load"] = Rest])
        /\ raced' = (raced \/ load.late)
        /\ grew' = (grew \/ commit > load.commit)
        /\ UNCHANGED <<reserved, guests>>

FailLoad ==
    /\ asking["load"].at = "loading"
    /\ asking' = [asking EXCEPT !["load"] = Rest]
    /\ UNCHANGED <<residents, reserved, guests, raced, grew>>

Unload(r) ==
    /\ asking["load"].at = "rest" /\ ~Locked
    /\ residents' = residents \ {r}
    /\ UNCHANGED <<reserved, guests, asking, raced, grew>>

(***************************************************************************)
(* reserve, and Reserved::drop                                             *)
(***************************************************************************)
StartReserve(bytes) == reserved = {} /\ Begin("reserve", bytes, "guests")

\* Never alone, whatever it takes.
DecideReserve ==
    LET run == asking["reserve"]
        fits == run.what <= Left(run.seen)
        rest == [asking EXCEPT !["reserve"] = Rest]
    IN  /\ run.at = "decide"
        /\ reserved' = IF fits THEN {[id |-> "run", commit |-> run.what]} ELSE {}
        /\ asking' = IF fits THEN Unseen("reserved", "reserve", rest) ELSE rest
        /\ raced' = (raced \/ (fits /\ run.late))
        /\ UNCHANGED <<residents, guests, grew>>

Release ==
    /\ reserved # {} /\ ~Locked
    /\ reserved' = {}
    /\ UNCHANGED <<residents, guests, asking, raced, grew>>

(***************************************************************************)
(* lodge, resize and Lodged::drop                                          *)
(***************************************************************************)
StartLodge(bytes) == guests = {} /\ Begin("lodge", bytes, "reserved")

DecideLodge ==
    LET guest == asking["lodge"]
        fits == guest.what <= Left(guest.seen)
        rest == [asking EXCEPT !["lodge"] = Rest]
    IN  /\ guest.at = "decide"
        /\ guests' = IF fits THEN {[id |-> "loading", commit |-> guest.what]} ELSE {}
        /\ asking' = IF fits THEN Unseen("guests", "lodge", rest) ELSE rest
        /\ raced' = (raced \/ (fits /\ guest.late))
        /\ UNCHANGED <<residents, reserved, grew>>

\* The layers are in memory, and are charged what they came to: once.
Resize(bytes) ==
    /\ \E g \in guests : g.id = "loading"
    /\ guests' = {[id |-> "layers", commit |-> bytes]}
    /\ grew' = (grew \/ bytes > Charged(guests))
    /\ UNCHANGED <<residents, reserved, asking, raced>>

LetGo ==
    /\ guests # {}
    /\ guests' = {}
    /\ UNCHANGED <<residents, reserved, asking, raced, grew>>

Needs == [bytes : Bytes \cup {Unknown}, streams : BOOLEAN]

Next ==
    \/ \E a \in Askers : ReadReserved(a) \/ ReadGuests(a)
    \/ \E m \in Models : StartLoad(m)
    \/ \E need \in Needs : DecideLoad(need)
    \/ \E took \in Bytes : EndLoad(took)
    \/ FailLoad
    \/ \E r \in residents : Unload(r)
    \/ \E bytes \in RunSizes : StartReserve(bytes)
    \/ DecideReserve \/ Release
    \/ \E bytes \in GuestSizes : StartLodge(bytes) \/ Resize(bytes)
    \/ DecideLodge \/ LetGo

Spec == Init /\ [][Next]_vars

(***************************************************************************)
(* Properties                                                              *)
(***************************************************************************)

\* Every variable has its type; no resident is charged more than there is.
TypeOK ==
    /\ residents \subseteq [id : Models, commit : 0..Total]
    /\ \A r, s \in residents : r.id = s.id => r = s
    /\ \A list \in {reserved, guests} : Cardinality(list) <= 1
    /\ \A r \in reserved \cup guests : r.commit \in RunSizes \cup GuestSizes
    /\ \A a \in Askers :
        /\ asking[a].at \in {"rest", "reserved", "guests", "decide", "loading"}
        /\ asking[a].seen \in Nat /\ asking[a].commit \in 0..Total

\* The budget is kept to, but for two ways past it: something took more than
\* its files had said, or was charged on a sum that was out of date by then.
\* (`admit` on whatever mix of the three is held.)
OnlyWaysOver == Spent > Total => raced \/ grew

\* The doc of `Reserved`: what is set aside for a training run is counted as
\* a resident is, so no model is loaded into it.
ReservedIsKept == reserved # {} /\ ~grew => Spent <= Total
=============================================================================
