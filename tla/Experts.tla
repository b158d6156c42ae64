------------------------------ MODULE Experts ------------------------------
(***************************************************************************)
(* What a mixture that does not fit is read through: a cache of its        *)
(* experts, in half the room its load was given (crates/llm/src/experts.rs)*)
(* and the pass over a layer that runs the experts its tokens chose        *)
(* (`Moe::run` of crates/llm/src/model/ffn.rs).                            *)
(*                                                                         *)
(* An expert is told from the others and nothing else of it is kept: a     *)
(* slab holds the bytes of one, or of none. The mapping always has the     *)
(* right ones. A pass holds the cache's lock from end to end, and is the   *)
(* only thing that runs on its model, so it is a step for each group.      *)
(***************************************************************************)
EXTENDS Admission, Orders, SequencesExt

CONSTANTS
    Layers,      \* each the experts of a layer
    ExpertBytes  \* ExpertStore::slot_bytes

Expert == UNION Layers

ASSUME ExpertsAssumption ==
    /\ Expert \subseteq Nat \ {0} /\ IsFiniteSet(Expert)
    /\ ExpertBytes \in Nat \ {0}

VARIABLES
    caches,  \* each model's Resident, with no slots if it has none
    pass     \* Moe::run: whose, what is still to be run, what has been, and as what

cacheVars == <<caches, pass>>
memoryVars == <<vars, cacheVars>>

\* Cache and Slots: which expert is in a slot, the slots by when they were last
\* wanted, and whose bytes are in the slab of each.
\* `unread`, a history: what was given a slot by a read that failed.
Empty(slots) == [key |-> [s \in 1..slots |-> 0], recent |-> <<>>,
                 slab |-> [s \in 1..slots |-> 0], unread |-> {}]
NoCache == Empty(0)
AtRest == [of |-> Unknown, chosen |-> {}, todo |-> <<>>, ran |-> <<>>]

MemoryInit == Init /\ caches = [m \in Models |-> NoCache] /\ pass = AtRest

(***************************************************************************)
(* The cache                                                               *)
(***************************************************************************)
Capacity(cache) == Len(cache.slab)
SlotOf(cache, x) == CHOOSE s \in DOMAIN cache.key : cache.key[s] = x
Resides(cache, x) == \E s \in DOMAIN cache.key : cache.key[s] = x

\* The slot wanted longest ago. (Mistaken: the one wanted last.)
WantedLast(cache) == Last(cache.recent)
Victim(cache) == Head(cache.recent)

\* touch: a miss is given a slot, and is not read yet.
SlotFor(cache, x) ==
    LET free == {s \in DOMAIN cache.key : cache.key[s] = 0}
    IN  IF Resides(cache, x) THEN SlotOf(cache, x)
        ELSE IF free # {} THEN Min(free) ELSE Victim(cache)
Touch(cache, x) ==
    LET slot == SlotFor(cache, x)
    IN  [cache EXCEPT !.key[slot] = x, !.recent = Append(RemoveFirst(@, slot), slot)]

\* A group is touched one after another: each is found in a slot, and was
\* missed if it was not there when its turn came.
TouchNext(sofar, x) ==
    [cache |-> Touch(sofar.cache, x),
     found |-> Append(sofar.found, <<x, SlotFor(sofar.cache, x)>>),
     misses |-> IF Resides(sofar.cache, x) THEN sofar.misses ELSE sofar.misses \cup {x}]
Touched(cache, group) ==
    LET sofar[n \in 0..Len(group)] ==
            IF n = 0 THEN [cache |-> cache, found |-> <<>>, misses |-> {}]
            ELSE TouchNext(sofar[n - 1], group[n])
    IN  sofar[Len(group)]

\* fetch_into: the slabs of what was read. One that was not has part of it, which
\* is nobody's, or what it had.
Filled(cache, read, part) ==
    [cache EXCEPT
        !.slab = [s \in DOMAIN @ |-> IF cache.key[s] \in read THEN cache.key[s]
                                     ELSE IF cache.key[s] \in part THEN 0 ELSE @[s]],
        !.unread = @ \ read]

(***************************************************************************)
(* A pass                                                                  *)
(***************************************************************************)
Ran(cache, found) == [i \in DOMAIN found |-> <<found[i][1], cache.slab[found[i][2]]>>]
Mapped(group) == [i \in DOMAIN group |-> <<group[i], group[i]>>]

\* One resident works at a time, and not beside a load. The experts the tokens
\* chose are run in the order of the layer.
Choose(m, chosen) ==
    /\ Capacity(caches[m]) > 0 /\ pass.todo = <<>> /\ asking["load"].at = "rest"
    /\ pass' = [of |-> m, chosen |-> chosen, todo |-> InOrder(chosen), ran |-> <<>>]
    /\ UNCHANGED <<vars, caches>>

\* No more at a time than there are slots.
Group == SubSeq(pass.todo, 1, Min({Capacity(caches[pass.of]), Len(pass.todo)}))
After(group) == SubSeq(pass.todo, Len(group) + 1, Len(pass.todo))

\* with: every miss of a group is read, and the group is run.
RunGroup ==
    LET touched == Touched(caches[pass.of], Group)
        cache == Filled(touched.cache, touched.misses, {})
    IN  /\ pass.todo # <<>>
        /\ caches' = [caches EXCEPT ![pass.of] = cache]
        /\ pass' = [pass EXCEPT !.todo = After(Group), !.ran = @ \o Ran(cache, touched.found)]
        /\ UNCHANGED vars

\* A read fails: with ends there, every miss in its slot, read or not; what has
\* not been run is run from the mapping.
ReadFails ==
    LET touched == Touched(caches[pass.of], Group)
    IN  /\ pass.todo # <<>>
        /\ \E read \in SUBSET touched.misses : \E part \in SUBSET (touched.misses \ read) :
            LET cache == Filled(touched.cache, read, part)
                missed == touched.misses \ read
            IN  /\ missed # {}
                /\ caches' = [caches EXCEPT ![pass.of] = [cache EXCEPT !.unread = @ \cup missed]]
        /\ pass' = [pass EXCEPT !.todo = <<>>, !.ran = @ \o Mapped(pass.todo)]
        /\ UNCHANGED vars

(***************************************************************************)
(* With the memory                                                         *)
(***************************************************************************)

\* Resident::wanted: half the room, for a model over it that is a mixture.
\* (Mistaken: all of it.)
AllTheRoom(room) == room \div ExpertBytes
SlotsIn(room) == (room \div 2) \div ExpertBytes
Wanted(took, room) ==
    {NoCache} \cup
    (IF took > room THEN {Empty(Min({SlotsIn(room), Cardinality(Expert)}))} ELSE {})

\* The room is what was left when the load was decided.
LoadWith(took) ==
    LET m == asking["load"].what
        room == Left(asking["load"].seen)
    IN  /\ EndLoad(took)
        /\ \E cache \in Wanted(took, room) : caches' = [caches EXCEPT ![m] = cache]
        /\ UNCHANGED pass

UnloadWith(r) ==
    /\ pass.todo = <<>>
    /\ Unload(r)
    /\ caches' = [caches EXCEPT ![r.id] = NoCache]
    /\ pass' = AtRest

MemoryNext ==
    \/ \E a \in Askers : (ReadReserved(a) \/ ReadGuests(a)) /\ UNCHANGED cacheVars
    \/ \E m \in Models : pass.todo = <<>> /\ StartLoad(m) /\ UNCHANGED cacheVars
    \/ \E need \in Needs : DecideLoad(need) /\ UNCHANGED cacheVars
    \/ \E took \in Bytes : LoadWith(took)
    \/ FailLoad /\ UNCHANGED cacheVars
    \/ \E r \in residents : UnloadWith(r)
    \/ \E bytes \in RunSizes : StartReserve(bytes) /\ UNCHANGED cacheVars
    \/ (DecideReserve \/ Release) /\ UNCHANGED cacheVars
    \/ \E bytes \in GuestSizes : (StartLodge(bytes) \/ Resize(bytes)) /\ UNCHANGED cacheVars
    \/ (DecideLodge \/ LetGo) /\ UNCHANGED cacheVars
    \/ \E m \in Models, layer \in Layers : \E chosen \in SUBSET layer \ {{}} : Choose(m, chosen)
    \/ RunGroup
    \/ ReadFails

MemorySpec == MemoryInit /\ [][MemoryNext]_memoryVars

(***************************************************************************)
(* Properties                                                              *)
(***************************************************************************)

\* Every variable has its type; a cache and its order name the same slots, and
\* it takes no more than half the budget.
MemoryTypeOK ==
    /\ TypeOK
    /\ \A m \in Models : LET cache == caches[m] IN
        /\ cache.key \in [1..Capacity(cache) -> Expert \cup {0}]
        /\ ToSet(cache.recent) = {s \in DOMAIN cache.key : cache.key[s] # 0}
        /\ IsInjective(cache.recent)
        /\ cache.unread \subseteq Expert
        /\ 2 * Capacity(cache) * ExpertBytes <= Total
    /\ pass.of \in Models \cup {Unknown}

\* A pass runs what was chosen, each once and in order, for the sum is of
\* floats, whatever fails to be read; and each as itself, but for one that a
\* read which failed has left in a slot. (`mix`; `Resident::with`: no group
\* evicts its own beginning.)
ExpertsAreTheirs ==
    pass.todo = <<>> =>
        /\ {run[1] : run \in ToSet(pass.ran)} = pass.chosen
        /\ \A i, j \in DOMAIN pass.ran : i < j => pass.ran[i][1] < pass.ran[j][1]
        /\ \A run \in ToSet(pass.ran) : run[1] # run[2] => run[1] \in caches[pass.of].unread

\* The comment in `Moe::run`: a failed read costs speed and not the answer.
FailedReadsCostNoAnswer == \A run \in ToSet(pass.ran) : run[1] = run[2]
=============================================================================
