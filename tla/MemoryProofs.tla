---------------------------- MODULE MemoryProofs ----------------------------
(***************************************************************************)
(* Theorems about the memory: its budget (Admission), for any amounts,     *)
(* models and lists; and what is read through it (Experts), for any        *)
(* models, layers and amounts: the budget is not touched by a pass, and a  *)
(* pass runs what was chosen. The inductive invariant of the passes        *)
(* (ExpertsInv) says that a slab holds what its slot is marked with, or    *)
(* that was not read; and that what has been run and what is to be run     *)
(* are, one after the other, the chosen in order. The heart of it is       *)
(* SoFar: the slots a group has been given are the last of the cache's     *)
(* order, so none of them is the victim while the group is no larger than  *)
(* the cache.                                                              *)
(***************************************************************************)
EXTENDS Experts, Counting, SequenceTheorems

(***************************************************************************)
(* What a list is charged                                                  *)
(*                                                                         *)
(* The community modules add up a set by a recursive function over its     *)
(* parts, which takes an element it chooses. That there is such a function *)
(* for a finite set, and that it does not matter which element is taken,   *)
(* is shown by smallest counterexamples.                                   *)
(***************************************************************************)
One(s) == CHOOSE x \in s : TRUE
IsSum(f, S) ==
    f = [s \in SUBSET S |-> IF s = {} THEN 0 ELSE One(s).commit + f[s \ {One(s)}]]
Amounts(S) == IsFiniteSet(S) /\ \A r \in S : r.commit \in Nat

\* What the operator is.
LEMMA ChargedIsChosen == ASSUME NEW S PROVE Charged(S) = (CHOOSE f : IsSum(f, S))[S]
BY DEF Charged, MapThenSumSet, MapThenFoldSet, IsSum, One

\* One of a set is in it.
LEMMA OneIsIn == ASSUME NEW s, s # {} PROVE One(s) \in s
BY DEF One

\* Two such functions agree wherever both are defined.
LEMMA SumsAgree ==
    ASSUME NEW S, NEW T, IsFiniteSet(S), NEW f, NEW g, IsSum(f, S), IsSum(g, T),
           NEW s \in SUBSET S, s \in SUBSET T
    PROVE  f[s] = g[s]
<1> DEFINE bad == {u \in SUBSET s : f[u] # g[u]}
<1> SUFFICES ASSUME bad # {} PROVE FALSE
  OBVIOUS
<1>1. IsFiniteSet(s) /\ bad \in SUBSET (SUBSET s)
  BY NoLarger
<1>2. PICK u \in bad : \A t \in SUBSET u : t # u => t \notin bad
  <2> HIDE DEF bad
  <2> QED
    BY <1>1, HasSmallest
<1>3. u \in SUBSET S /\ u \in SUBSET T /\ f[u] # g[u]
  BY <1>1
<1>4. /\ f[u] = IF u = {} THEN 0 ELSE One(u).commit + f[u \ {One(u)}]
      /\ g[u] = IF u = {} THEN 0 ELSE One(u).commit + g[u \ {One(u)}]
  BY <1>3 DEF IsSum
<1>5. u # {}
  BY <1>3, <1>4
<1>6. u \ {One(u)} \in SUBSET u /\ u \ {One(u)} # u
  BY <1>5, OneIsIn
<1>7. f[u \ {One(u)}] = g[u \ {One(u)}]
  BY <1>1, <1>2, <1>6
<1> QED
  BY <1>3, <1>4, <1>5, <1>7

\* There is one for a finite set.
LEMMA HasSum == ASSUME NEW S, IsFiniteSet(S) PROVE \E f : IsSum(f, S)
<1> DEFINE bad == {u \in SUBSET S : \A f : ~IsSum(f, u)}
<1> SUFFICES ASSUME bad # {} PROVE FALSE
  <2>1. S \in SUBSET S
    OBVIOUS
  <2> QED
    BY <2>1
<1>1. PICK u \in bad : \A t \in SUBSET u : t # u => t \notin bad
  <2>1. bad \in SUBSET (SUBSET S)
    OBVIOUS
  <2> HIDE DEF bad
  <2> QED
    BY <2>1, HasSmallest
<1> DEFINE of(t) == CHOOSE f : IsSum(f, t)
           rest == u \ {One(u)}
           h == [s \in SUBSET u |-> IF s # u THEN of(s)[s]
                                    ELSE IF u = {} THEN 0 ELSE One(u).commit + of(rest)[rest]]
<1>2. ASSUME NEW t \in SUBSET u, t # u PROVE IsSum(of(t), t) /\ IsFiniteSet(t)
  <2>1. t \in SUBSET S /\ t \notin bad
    BY <1>1, <1>2
  <2>2. \E f : IsSum(f, t)
    BY <2>1
  <2> QED
    BY <2>1, <2>2, NoLarger
<1> HIDE DEF of
<1>3. ASSUME NEW s \in SUBSET u
      PROVE  h[s] = IF s = {} THEN 0 ELSE One(s).commit + h[s \ {One(s)}]
  <2>1. CASE s = u
    <3>1. CASE u = {}
      BY <2>1, <3>1
    <3>2. CASE u # {}
      <4>1. rest \in SUBSET u /\ rest # u
        BY <3>2, OneIsIn
      <4>2. h[rest] = of(rest)[rest]
        BY <4>1
      <4> QED
        BY <2>1, <3>2, <4>2
    <3> QED
      BY <3>1, <3>2
  <2>2. CASE s # u
    <3> DEFINE less == s \ {One(s)}
    <3>1. h[s] = of(s)[s]
      BY <2>2
    <3>2. of(s)[s] = IF s = {} THEN 0 ELSE One(s).commit + of(s)[less]
      <4>1. IsSum(of(s), s) /\ s \in SUBSET s
        BY <1>2, <2>2
      <4> QED
        BY <4>1 DEF IsSum
    <3>3. CASE s # {}
      <4>1. less \in SUBSET s /\ less \in SUBSET less /\ less \in SUBSET u /\ less # u
        BY <2>2, <3>3, OneIsIn
      <4>2. h[less] = of(less)[less]
        BY <4>1
      <4>3. IsSum(of(s), s) /\ IsFiniteSet(s) /\ IsSum(of(less), less)
        BY <1>2, <2>2, <4>1
      <4>4. of(s)[less] = of(less)[less]
        BY <4>1, <4>3, SumsAgree
      <4> QED
        BY <3>1, <3>2, <3>3, <4>2, <4>4
    <3>4. CASE s = {}
      BY <3>1, <3>2, <3>4
    <3> QED
      BY <3>3, <3>4
  <2> QED
    BY <2>1, <2>2
<1>4. h = [s \in SUBSET u |-> h[s]]
  OBVIOUS
<1> HIDE DEF h
<1>5. h = [s \in SUBSET u |-> IF s = {} THEN 0 ELSE One(s).commit + h[s \ {One(s)}]]
  BY <1>3, <1>4
<1>6. IsSum(h, u)
  BY <1>5 DEF IsSum
<1> QED
  BY <1>1, <1>6

\* A list is charged for one of it and for what there is besides.
LEMMA ChargedForOne ==
    ASSUME NEW S, IsFiniteSet(S)
    PROVE  Charged(S) = IF S = {} THEN 0 ELSE One(S).commit + Charged(S \ {One(S)})
<1> DEFINE f == CHOOSE f : IsSum(f, S)
           less == S \ {One(S)}
           g == CHOOSE g : IsSum(g, less)
<1>1. IsFiniteSet(less)
  BY NoLarger
<1>2. IsSum(f, S) /\ IsSum(g, less)
  BY <1>1, HasSum
<1>3. Charged(S) = f[S] /\ Charged(less) = g[less]
  BY ChargedIsChosen
<1> HIDE DEF f, g
<1>4. f[S] = IF S = {} THEN 0 ELSE One(S).commit + f[less]
  <2>1. S \in SUBSET S
    OBVIOUS
  <2> QED
    BY <1>2, <2>1 DEF IsSum
<1>5. f[less] = g[less]
  BY <1>2, SumsAgree
<1> QED
  BY <1>3, <1>4, <1>5

\* A list of amounts is charged an amount.
LEMMA ChargedType == ASSUME NEW S, Amounts(S) PROVE Charged(S) \in Nat
<1> DEFINE bad == {u \in SUBSET S : Charged(u) \notin Nat}
<1> SUFFICES ASSUME bad # {} PROVE FALSE
  OBVIOUS
<1>1. IsFiniteSet(S) /\ bad \in SUBSET (SUBSET S)
  BY DEF Amounts
<1>2. PICK u \in bad : \A t \in SUBSET u : t # u => t \notin bad
  <2> HIDE DEF bad
  <2> QED
    BY <1>1, HasSmallest
<1>3. u \in SUBSET S /\ IsFiniteSet(u) /\ Charged(u) \notin Nat
  BY <1>1, NoLarger
<1>4. Charged(u) = IF u = {} THEN 0 ELSE One(u).commit + Charged(u \ {One(u)})
  BY <1>3, ChargedForOne
<1>5. CASE u # {}
  <2>1. One(u) \in u /\ One(u).commit \in Nat
    BY <1>3, <1>5, OneIsIn DEF Amounts
  <2>2. u \ {One(u)} \in SUBSET u /\ u \ {One(u)} # u /\ u \ {One(u)} \in SUBSET S
    BY <1>3, <2>1
  <2>3. Charged(u \ {One(u)}) \in Nat
    BY <1>2, <2>2
  <2> QED
    BY <1>3, <1>4, <1>5, <2>1, <2>3
<1> QED
  BY <1>3, <1>4, <1>5

\* Whichever of it is taken out.
LEMMA ChargedForAny ==
    ASSUME NEW S, Amounts(S), NEW x \in S
    PROVE  Charged(S) = x.commit + Charged(S \ {x})
<1> DEFINE bad == {u \in SUBSET S : \E y \in u : Charged(u) # y.commit + Charged(u \ {y})}
<1> SUFFICES ASSUME bad # {} PROVE FALSE
  <2>1. S \in SUBSET S
    OBVIOUS
  <2> QED
    BY <2>1
<1>1. IsFiniteSet(S) /\ bad \in SUBSET (SUBSET S)
  BY DEF Amounts
<1>2. PICK u \in bad : \A t \in SUBSET u : t # u => t \notin bad
  <2> HIDE DEF bad
  <2> QED
    BY <1>1, HasSmallest
<1>3. u \in SUBSET S
  OBVIOUS
<1>4. PICK y \in u : Charged(u) # y.commit + Charged(u \ {y})
  OBVIOUS
<1>5. ASSUME NEW t \in SUBSET u, t # u, NEW z \in t
      PROVE  Charged(t) = z.commit + Charged(t \ {z})
  BY <1>2, <1>3, <1>5
<1> DEFINE p == One(u)
<1>6. p \in u /\ Charged(u) = p.commit + Charged(u \ {p})
  BY <1>1, <1>3, <1>4, NoLarger, OneIsIn, ChargedForOne
<1> HIDE DEF bad, p
<1>7. p # y
  BY <1>4, <1>6
<1> DEFINE both == (u \ {p}) \ {y}
<1>8. Charged(u \ {p}) = y.commit + Charged(both)
  <2>1. u \ {p} \in SUBSET u /\ u \ {p} # u /\ y \in u \ {p}
    BY <1>4, <1>6, <1>7
  <2> QED
    BY <1>5, <2>1
<1>9. Charged(u \ {y}) = p.commit + Charged(both)
  <2>1. u \ {y} \in SUBSET u /\ u \ {y} # u /\ p \in u \ {y} /\ (u \ {y}) \ {p} = both
    BY <1>4, <1>6, <1>7
  <2> QED
    BY <1>5, <2>1
<1>10. y.commit \in Nat /\ p.commit \in Nat /\ Charged(both) \in Nat
  <2>1. Amounts(both)
    BY <1>3, NoLarger DEF Amounts
  <2> QED
    BY <1>3, <1>4, <1>6, <2>1, ChargedType DEF Amounts
<1> HIDE DEF both
<1> QED
  BY <1>4, <1>6, <1>8, <1>9, <1>10

\* Nothing is charged nothing.
LEMMA ChargedForNone == Charged({}) = 0
<1>1. IsFiniteSet({})
  BY FS_EmptySet
<1> QED
  BY <1>1, ChargedForOne

\* One more is charged what it takes, at most.
LEMMA ChargedForOneMore ==
    ASSUME NEW S, Amounts(S), NEW x, x.commit \in Nat
    PROVE  /\ Amounts(S \cup {x})
           /\ Charged(S \cup {x}) <= Charged(S) + x.commit
<1>1. Amounts(S \cup {x})
  BY FS_AddElement DEF Amounts
<1>2. Charged(S) \in Nat
  BY ChargedType
<1> DEFINE more == x.commit
<1>5. more \in Nat /\ \A n \in Nat : n <= n + more /\ more + n <= n + more
  OBVIOUS
<1>3. CASE x \in S
  <2>1. S \cup {x} = S
    BY <1>3
  <2> HIDE DEF more
  <2> QED
    BY <1>1, <1>2, <1>5, <2>1 DEF more
<1>4. CASE x \notin S
  <2>1. (S \cup {x}) \ {x} = S
    BY <1>4
  <2>2. Charged(S \cup {x}) = x.commit + Charged((S \cup {x}) \ {x})
    BY <1>1, ChargedForAny
  <2>3. Charged(S \cup {x}) = more + Charged(S)
    BY <2>1, <2>2
  <2> HIDE DEF more
  <2> QED
    BY <1>1, <1>2, <1>5, <2>3 DEF more
<1> QED
  BY <1>3, <1>4

\* One less is never charged more.
LEMMA ChargedForOneLess ==
    ASSUME NEW S, Amounts(S), NEW x \in S
    PROVE  /\ Amounts(S \ {x})
           /\ Charged(S \ {x}) <= Charged(S)
<1>1. Amounts(S \ {x})
  BY NoLarger DEF Amounts
<1> QED
  BY <1>1, ChargedForAny, ChargedType DEF Amounts

\* One alone is charged what it takes.
LEMMA ChargedAlone ==
    ASSUME NEW x, x.commit \in Nat
    PROVE  Amounts({x}) /\ Charged({x}) = x.commit
<1>1. Amounts({x})
  BY FS_Singleton DEF Amounts
<1>2. {x} \ {x} = {}
  OBVIOUS
<1>3. Charged({x}) = x.commit + Charged({x} \ {x})
  BY <1>1, ChargedForAny
<1> QED
  BY <1>1, <1>2, <1>3, ChargedForNone

(***************************************************************************)
(* Types                                                                   *)
(***************************************************************************)
Asking == [at : {"rest", "reserved", "guests", "decide", "loading"},
           what : Models \cup RunSizes \cup GuestSizes \cup {0}, seen : Nat, alone : BOOLEAN,
           late : BOOLEAN, commit : 0..Total, streams : BOOLEAN]

\* A list of at most one, of one of these sizes.
AtMostOne(list, sizes) == list = {} \/ \E r \in list : list = {r} /\ r.commit \in sizes

\* The lists, and how far each who asks may be. A load is of a model that is
\* not there, and who asks for one of the other lists asks while it is empty.
AdmissionType ==
    /\ residents \subseteq [id : Models, commit : 0..Total] /\ IsFiniteSet(residents)
    /\ \A r, s \in residents : r.id = s.id => r = s
    /\ AtMostOne(reserved, RunSizes) /\ AtMostOne(guests, GuestSizes)
    /\ asking \in [Askers -> Asking]
    /\ raced \in BOOLEAN /\ grew \in BOOLEAN
    /\ asking["load"].at # "rest" =>
        /\ asking["load"].what \in Models
        /\ \A r \in residents : r.id # asking["load"].what
    /\ asking["reserve"].at # "rest" => asking["reserve"].what \in RunSizes /\ reserved = {}
    /\ asking["lodge"].at # "rest" => asking["lodge"].what \in GuestSizes /\ guests = {}
    /\ asking["reserve"].at \in {"rest", "guests", "decide"}
    /\ asking["lodge"].at # "loading"

\* What each list is charged is an amount.
LEMMA ListsAreAmounts ==
    ASSUME AdmissionType
    PROVE  /\ Amounts(residents) /\ Charged(residents) \in Nat
           /\ Amounts(reserved) /\ Charged(reserved) \in Nat
           /\ Amounts(guests) /\ Charged(guests) \in Nat
<1>1. Amounts(residents)
  BY AdmissionAssumption DEF AdmissionType, Amounts
<1>2. ASSUME NEW list, NEW sizes \in SUBSET Nat, AtMostOne(list, sizes) PROVE Amounts(list)
  <2>1. CASE list = {}
    BY <2>1, FS_EmptySet DEF Amounts
  <2>2. ASSUME NEW r, list = {r}, r.commit \in sizes PROVE Amounts(list)
    BY <2>2, ChargedAlone
  <2> QED
    BY <1>2, <2>1, <2>2 DEF AtMostOne
<1>3. Amounts(reserved) /\ Amounts(guests)
  BY <1>2, AdmissionAssumption DEF AdmissionType
<1> QED
  BY <1>1, <1>3, ChargedType

\* What each list is charged, named.
AllAmounts ==
    /\ Amounts(residents) /\ Charged(residents) \in Nat
    /\ Amounts(reserved) /\ Charged(reserved) \in Nat
    /\ Amounts(guests) /\ Charged(guests) \in Nat
\* The same of the next state.
LEMMA ListsStayAmounts ==
    AdmissionType' => /\ Amounts(residents') /\ Charged(residents') \in Nat
                      /\ Amounts(reserved') /\ Charged(reserved') \in Nat
                      /\ Amounts(guests') /\ Charged(guests') \in Nat
<1>1. AdmissionType => AllAmounts
  BY ListsAreAmounts DEF AllAmounts
<1>2. AdmissionType' => AllAmounts'
  BY <1>1, PTL
<1> QED
  BY <1>2 DEF AllAmounts

\* What admission may answer.
LEMMA AdmitType ==
    ASSUME NEW alone \in BOOLEAN, NEW left \in 0..Total, NEW need \in Needs
    PROVE  LET said == Admit(alone, left, need)
           IN  said.commit \in 0..Total /\ (alone \/ said.commit <= left)
<1>1. CASE need.bytes # Unknown
  <2>1. need.bytes \in Nat
    BY <1>1, AdmissionAssumption DEF Needs
  <2> QED
    BY <1>1, <2>1, AdmissionAssumption DEF Admit, Fits, Streams, Refused
<1>2. CASE need.bytes = Unknown
  BY <1>2, AdmissionAssumption DEF Admit, Fits, Streams, Refused
<1> QED
  BY <1>1, <1>2

\* What is left is no more than there is.
LEMMA LeftType ==
    ASSUME NEW seen \in Nat
    PROVE  Left(seen) \in 0..Total /\ (Left(seen) = 0 \/ seen + Left(seen) = Total)
BY AdmissionAssumption DEF Left

\* Being late changes nothing else.
SameButLate(one, was) ==
    /\ one.at = was.at /\ one.what = was.what /\ one.seen = was.seen
    /\ one.alone = was.alone /\ one.commit = was.commit
    /\ was.late => one.late
\* Those who are told that they are late keep their types, and nobody else is told.
LEMMA UnseenType ==
    ASSUME NEW was \in [Askers -> Asking], NEW list, NEW but
    PROVE  /\ Unseen(list, but, was) \in [Askers -> Asking]
           /\ \A a \in Askers : SameButLate(Unseen(list, but, was)[a], was[a])
           /\ \A a \in Askers : a # but /\ HasRead(a, list) => Unseen(list, but, was)[a].late
           /\ but \in Askers => Unseen(list, but, was)[but] = was[but]
<1>1. ASSUME NEW a \in Askers
      PROVE  /\ Unseen(list, but, was)[a] \in Asking
             /\ SameButLate(Unseen(list, but, was)[a], was[a])
             /\ a # but /\ HasRead(a, list) => Unseen(list, but, was)[a].late
  <2>1. was[a] \in Asking
    OBVIOUS
  <2>2. Unseen(list, but, was)[a] = IF a # but /\ HasRead(a, list) THEN [was[a] EXCEPT !.late = TRUE] ELSE was[a]
    BY DEF Unseen
  <2> QED
    BY <2>1, <2>2 DEF Asking, SameButLate
<1>2. Unseen(list, but, was) = [a \in Askers |-> Unseen(list, but, was)[a]]
  BY DEF Unseen
<1>3. but \in Askers => Unseen(list, but, was)[but] = was[but]
  BY DEF Unseen
<1> QED
  BY <1>1, <1>2, <1>3

\* Who asks gets further, and nothing else is changed.
LEMMA OneAsks ==
    ASSUME AdmissionType, NEW a \in Askers, NEW new \in Asking,
           asking' = [asking EXCEPT ![a] = new],
           UNCHANGED <<residents, reserved, guests, raced, grew>>,
           a = "load" /\ new.at # "rest" => new.what \in Models /\ \A r \in residents : r.id # new.what,
           a = "reserve" => new.at \in {"rest", "guests", "decide"},
           a = "reserve" /\ new.at # "rest" => new.what \in RunSizes /\ reserved = {},
           a = "lodge" => new.at # "loading",
           a = "lodge" /\ new.at # "rest" => new.what \in GuestSizes /\ guests = {}
    PROVE  AdmissionType'
BY DEF AdmissionType, AtMostOne, Askers

\* Resting is a place to be.
LEMMA RestType == Rest \in Asking /\ Rest.at = "rest" /\ ~Rest.late
BY AdmissionAssumption DEF Rest, Asking

\* Reading a list that is an amount.
LEMMA ReadingType ==
    ASSUME AdmissionType, NEW a \in Askers, NEW list, Charged(list) \in Nat, NEW next \in {"guests", "decide"},
           asking' = Reading(a, list, next)
    PROVE  \E new \in Asking :
            /\ asking' = [asking EXCEPT ![a] = new]
            /\ new.at = next /\ new.what = asking[a].what /\ new.late = asking[a].late
            /\ new.seen = asking[a].seen + Charged(list)
            /\ new.alone = (asking[a].alone /\ list = {})
<1> DEFINE new == [asking[a] EXCEPT !.at = next, !.seen = @ + Charged(list), !.alone = @ /\ list = {}]
<1>1. new \in Asking /\ new.at = next /\ new.what = asking[a].what /\ new.late = asking[a].late
      /\ new.seen = asking[a].seen + Charged(list) /\ new.alone = (asking[a].alone /\ list = {})
  <2> DEFINE still == asking[a].alone /\ list = {}
             seen == asking[a].seen + Charged(list)
  <2>1. asking[a] \in Asking /\ still \in BOOLEAN /\ seen \in Nat
    BY DEF AdmissionType, Asking
  <2>2. new = [asking[a] EXCEPT !.at = next, !.seen = seen, !.alone = still]
    BY <2>1 DEF Asking
  <2> HIDE DEF still, seen, new
  <2>3. new \in Asking /\ new.at = next /\ new.what = asking[a].what /\ new.late = asking[a].late
        /\ new.seen = seen /\ new.alone = still
    BY <2>1, <2>2 DEF Asking
  <2> QED
    BY <2>3 DEF still, seen
<1>2. asking' = [asking EXCEPT ![a] = new]
  BY DEF Reading, AdmissionType, Asking
<1> QED
  BY <1>1, <1>2

\* What each of the steps of who asks for it does.
LEMMA ReadsType ==
    ASSUME AdmissionType, NEW a \in Askers, ReadReserved(a) \/ ReadGuests(a)
    PROVE  AdmissionType'
<1>1. PICK list \in {reserved, guests}, next \in {"guests", "decide"} : asking' = Reading(a, list, next)
  BY DEF ReadReserved, ReadGuests
<1>2. PICK new \in Asking : asking' = [asking EXCEPT ![a] = new] /\ new.at = next /\ new.what = asking[a].what
  BY <1>1, ListsAreAmounts, ReadingType
<1>3. asking[a].at \in {"reserved", "guests"} /\ UNCHANGED <<residents, reserved, guests, raced, grew>>
  BY DEF ReadReserved, ReadGuests
<1> QED
  BY <1>2, <1>3, OneAsks DEF AdmissionType

\* Beginning to ask keeps the types.
LEMMA BeginType ==
    ASSUME AdmissionType, NEW a \in Askers, NEW what \in Models \cup RunSizes \cup GuestSizes,
           NEW next \in {"reserved", "guests"}, Begin(a, what, next),
           a = "load" => what \in Models /\ \A r \in residents : r.id # what,
           a = "reserve" => what \in RunSizes /\ reserved = {} /\ next = "guests",
           a = "lodge" => what \in GuestSizes /\ guests = {}
    PROVE  AdmissionType'
<1> DEFINE new == [Rest EXCEPT !.at = next, !.what = what, !.seen = Charged(residents), !.alone = residents = {}]
<1>1. new \in Asking /\ new.at = next /\ new.what = what
  BY RestType, ListsAreAmounts DEF Asking
<1>2. asking' = [asking EXCEPT ![a] = new] /\ UNCHANGED <<residents, reserved, guests, raced, grew>>
  BY DEF Begin
<1> QED
  BY <1>1, <1>2, OneAsks

\* So does deciding on a load, admitted, spread or refused.
LEMMA DecideLoadType ==
    ASSUME AdmissionType, NEW need \in Needs, DecideLoad(need)
    PROVE  AdmissionType'
<1> DEFINE load == asking["load"]
           left == Left(load.seen)
           said == Admit(load.alone, left, need)
<1>1. load \in Asking /\ load.seen \in Nat /\ load.alone \in BOOLEAN
  BY DEF AdmissionType, Asking, Askers
<1>2. left \in 0..Total /\ said.commit \in 0..Total
  BY <1>1, LeftType, AdmitType
<1>3. load.at = "decide" /\ UNCHANGED <<residents, reserved, guests, raced, grew>>
  BY DEF DecideLoad
<1>4. CASE asking' = [asking EXCEPT !["load"] = Rest]
  BY <1>3, <1>4, OneAsks, RestType DEF Askers
<1>5. ASSUME NEW n \in 0..Total, NEW b \in BOOLEAN,
             asking' = [asking EXCEPT !["load"].at = "loading", !["load"].commit = n, !["load"].streams = b]
      PROVE  AdmissionType'
  <2> DEFINE new == [load EXCEPT !.at = "loading", !.commit = n, !.streams = b]
  <2>1. new \in Asking /\ new.at = "loading" /\ new.what = load.what
    BY <1>1 DEF Asking
  <2>2. asking' = [asking EXCEPT !["load"] = new]
    BY <1>5 DEF AdmissionType, Asking, Askers
  <2>3. "load" \in Askers /\ load.what \in Models /\ \A r \in residents : r.id # load.what
    BY <1>3 DEF AdmissionType, Askers
  <2> HIDE DEF new, load
  <2> QED
    BY <1>3, <2>1, <2>2, <2>3, OneAsks
<1> QED
  BY <1>2, <1>4, <1>5 DEF DecideLoad, Spread, Fits

\* So does the end of a load; it is charged an amount of the budget.
LEMMA EndLoadType ==
    ASSUME AdmissionType, NEW took \in Bytes, EndLoad(took)
    PROVE  /\ AdmissionType'
           /\ \E n \in 0..Total :
                /\ residents' = residents \cup {[id |-> asking["load"].what, commit |-> n]}
                /\ grew' = (grew \/ n > asking["load"].commit)
<1> DEFINE load == asking["load"]
           n == IF load.streams THEN load.commit ELSE Min({took, Total})
           was == [asking EXCEPT !["load"] = Rest]
<1>1. load \in Asking
  BY DEF AdmissionType, Askers
<1>2. Min({took, Total}) \in 0..Total
  <2>1. took \in Nat /\ Total \in Nat
    BY AdmissionAssumption
  <2>2. Min({took, Total}) \in {took, Total} /\ \A y \in {took, Total} : Min({took, Total}) <= y
    <3>1. \E x \in {took, Total} : \A y \in {took, Total} : x <= y
      BY <2>1
    <3> QED
      BY <3>1 DEF Min
  <2> QED
    BY <2>1, <2>2
<1>3. n \in 0..Total
  BY <1>1, <1>2 DEF Asking
<1>4. was \in [Askers -> Asking] /\ was["load"].at = "rest"
      /\ \A b \in Askers : b # "load" => was[b] = asking[b]
  BY RestType DEF AdmissionType, Askers
<1>5. /\ load.at = "loading" /\ ~Locked /\ UNCHANGED <<reserved, guests>>
      /\ residents' = residents \cup {[id |-> load.what, commit |-> n]}
      /\ asking' = Unseen("residents", "load", was)
      /\ raced' = (raced \/ load.late) /\ grew' = (grew \/ n > load.commit)
  BY DEF EndLoad
<1> HIDE DEF was
<1>6. /\ asking' \in [Askers -> Asking]
      /\ \A a \in Askers : asking'[a].at = was[a].at /\ asking'[a].what = was[a].what
  BY <1>4, <1>5, UnseenType DEF SameButLate
<1>7. IsFiniteSet(residents')
  BY <1>5, FS_AddElement DEF AdmissionType
<1>8. load.what \in Models /\ \A r \in residents : r.id # load.what
  BY <1>5 DEF AdmissionType
<1> HIDE DEF n, load
<1>9. /\ residents' \subseteq [id : Models, commit : 0..Total]
      /\ \A r, s \in residents' : r.id = s.id => r = s
  BY <1>3, <1>5, <1>8 DEF AdmissionType
<1>10. raced' \in BOOLEAN /\ grew' \in BOOLEAN
  BY <1>1, <1>5 DEF AdmissionType, Asking
<1>11. AdmissionType'
  BY <1>4, <1>5, <1>6, <1>7, <1>9, <1>10 DEF AdmissionType, AtMostOne, Askers
<1> QED
  BY <1>3, <1>5, <1>11 DEF load

\* Who decided in one step is at rest, and the others are late at most.
LEMMA DecideRestType ==
    ASSUME AdmissionType, NEW a \in {"reserve", "lodge"}, NEW was, NEW list,
           was = [asking EXCEPT ![a] = Rest], asking' = was \/ asking' = Unseen(list, a, was)
    PROVE  /\ asking' \in [Askers -> Asking]
           /\ asking'[a].at = "rest" /\ ~asking'[a].late
           /\ \A b \in Askers \ {a} : SameButLate(asking'[b], asking[b])
           /\ asking' = Unseen(list, a, was) => \A b \in Askers \ {a} : HasRead(b, list) => asking'[b].late
<1>1. a \in Askers /\ was \in [Askers -> Asking]
  BY RestType DEF Askers, AdmissionType
<1>2. was[a] = Rest /\ \A b \in Askers \ {a} : was[b] = asking[b]
  BY <1>1 DEF AdmissionType
<1>3. ASSUME asking' = Unseen(list, a, was), NEW b \in Askers \ {a}, HasRead(b, list) PROVE asking'[b].late
  <2>1. Unseen(list, a, was)[b].late
    BY <1>1, <1>3, UnseenType
  <2> QED
    BY <1>3, <2>1
<1>4. CASE asking' = was
  BY <1>1, <1>2, <1>3, <1>4, RestType DEF SameButLate
<1>5. CASE asking' = Unseen(list, a, was)
  <2>1. asking'[a] = Rest
    BY <1>1, <1>2, <1>5, UnseenType
  <2>2. asking' \in [Askers -> Asking] /\ \A b \in Askers \ {a} : SameButLate(asking'[b], asking[b])
    BY <1>1, <1>2, <1>5, UnseenType
  <2> QED
    BY <1>3, <2>1, <2>2, RestType
<1> QED
  BY <1>4, <1>5

\* Every operation keeps the types.
LEMMA AdmissionTypeNext == AdmissionType /\ [Next]_vars => AdmissionType'
<1> SUFFICES ASSUME AdmissionType, [Next]_vars PROVE AdmissionType'
  OBVIOUS
<1>1. ASSUME NEW a \in Askers, ReadReserved(a) \/ ReadGuests(a) PROVE AdmissionType'
  BY <1>1, ReadsType
<1>2. ASSUME NEW m \in Models, StartLoad(m) PROVE AdmissionType'
  BY <1>2, BeginType DEF StartLoad, Askers
<1>3. ASSUME NEW need \in Needs, DecideLoad(need) PROVE AdmissionType'
  BY <1>3, DecideLoadType
<1>4. ASSUME NEW took \in Bytes, EndLoad(took) PROVE AdmissionType'
  BY <1>4, EndLoadType
<1>5. CASE FailLoad
  BY <1>5, OneAsks, RestType DEF FailLoad, Askers
<1>6. ASSUME NEW r \in residents, Unload(r) PROVE AdmissionType'
  BY <1>6, NoLarger DEF Unload, AdmissionType, AtMostOne
<1>7. ASSUME NEW bytes \in RunSizes, StartReserve(bytes) PROVE AdmissionType'
  BY <1>7, BeginType DEF StartReserve, Askers
<1>8. CASE DecideReserve
  <2> DEFINE was == [asking EXCEPT !["reserve"] = Rest]
             set == {[id |-> "run", commit |-> asking["reserve"].what]}
  <2>1. /\ asking["reserve"].at = "decide" /\ UNCHANGED <<residents, guests, grew>>
        /\ (reserved' = set /\ asking' = Unseen("reserved", "reserve", was)) \/ (reserved' = {} /\ asking' = was)
        /\ \E fits \in BOOLEAN : raced' = (raced \/ (fits /\ asking["reserve"].late))
    BY <1>8 DEF DecideReserve
  <2>2. /\ asking' \in [Askers -> Asking] /\ asking'["reserve"].at = "rest"
        /\ \A b \in Askers \ {"reserve"} : SameButLate(asking'[b], asking[b])
    BY <2>1, DecideRestType
  <2>3. AtMostOne(set, RunSizes) /\ AtMostOne({}, RunSizes)
    BY <2>1 DEF AtMostOne, AdmissionType
  <2>4. AtMostOne(reserved', RunSizes) /\ raced' \in BOOLEAN
    BY <2>1, <2>3 DEF AdmissionType
  <2> HIDE DEF was, set
  <2> QED
    BY <2>1, <2>2, <2>4 DEF AdmissionType, AtMostOne, SameButLate, Askers
<1>9. CASE Release
  BY <1>9 DEF Release, Locked, AdmissionType, AtMostOne
<1>10. ASSUME NEW bytes \in GuestSizes, StartLodge(bytes) PROVE AdmissionType'
  BY <1>10, BeginType DEF StartLodge, Askers
<1>11. ASSUME NEW bytes \in GuestSizes, Resize(bytes) PROVE AdmissionType'
  <2>1. AtMostOne(guests', GuestSizes) /\ guests # {} /\ grew' \in BOOLEAN
    BY <1>11 DEF Resize, AtMostOne, AdmissionType
  <2> QED
    BY <1>11, <2>1 DEF Resize, AdmissionType, AtMostOne
<1>12. CASE DecideLodge
  <2> DEFINE was == [asking EXCEPT !["lodge"] = Rest]
             set == {[id |-> "loading", commit |-> asking["lodge"].what]}
  <2>1. /\ asking["lodge"].at = "decide" /\ UNCHANGED <<residents, reserved, grew>>
        /\ (guests' = set /\ asking' = Unseen("guests", "lodge", was)) \/ (guests' = {} /\ asking' = was)
        /\ \E fits \in BOOLEAN : raced' = (raced \/ (fits /\ asking["lodge"].late))
    BY <1>12 DEF DecideLodge
  <2>2. /\ asking' \in [Askers -> Asking] /\ asking'["lodge"].at = "rest"
        /\ \A b \in Askers \ {"lodge"} : SameButLate(asking'[b], asking[b])
    BY <2>1, DecideRestType
  <2>3. AtMostOne(set, GuestSizes) /\ AtMostOne({}, GuestSizes)
    BY <2>1 DEF AtMostOne, AdmissionType
  <2>4. AtMostOne(guests', GuestSizes) /\ raced' \in BOOLEAN
    BY <2>1, <2>3 DEF AdmissionType
  <2> HIDE DEF was, set
  <2> QED
    BY <2>1, <2>2, <2>4 DEF AdmissionType, AtMostOne, SameButLate, Askers
<1>13. CASE LetGo
  BY <1>13 DEF LetGo, AdmissionType, AtMostOne
<1>14. CASE UNCHANGED vars
  BY <1>14 DEF vars, AdmissionType, AtMostOne
<1> QED
  BY <1>1, <1>2, <1>3, <1>4, <1>5, <1>6, <1>7, <1>8, <1>9, <1>10, <1>11, <1>12, <1>13, <1>14 DEF Next

\* Nobody asks in the beginning, and nothing is held.
LEMMA AdmissionTypeInit == Init => AdmissionType
<1> SUFFICES ASSUME Init PROVE AdmissionType
  OBVIOUS
<1>1. IsFiniteSet({})
  BY FS_EmptySet
<1>2. asking \in [Askers -> Asking] /\ \A a \in Askers : asking[a].at = "rest"
  BY RestType DEF Init
<1> QED
  BY <1>1, <1>2 DEF Init, AdmissionType, AtMostOne, Askers

(***************************************************************************)
(* The budget                                                              *)
(*                                                                         *)
(* That the budget is kept to is not inductive: it says nothing of what    *)
(* those who ask have seen. What makes it so is that whoever is not late   *)
(* has seen at least what the lists it has read are charged now, that a    *)
(* list it saw nothing in still has nothing, and that what a load was      *)
(* admitted with still fits beside everything.                             *)
(***************************************************************************)
SeenEnough(a) ==
    LET one == asking[a]
    IN  ~one.late =>
        /\ one.at = "reserved" => /\ one.seen >= Charged(residents)
                                  /\ one.alone => residents = {}
        /\ one.at = "guests" => /\ one.seen >= Charged(residents) + Charged(reserved)
                                /\ one.alone => residents = {} /\ reserved = {}
        /\ one.at = "decide" => /\ one.seen >= Spent
                                /\ one.alone => residents = {} /\ reserved = {} /\ guests = {}
        /\ one.at = "loading" => Spent + one.commit <= Total

KeptTo == Spent <= Total /\ \A a \in Askers : SeenEnough(a)

BudgetInv == ~raced /\ ~grew => KeptTo

\* A list that has not grown.
NoMore(list, before) == Charged(list) <= Charged(before) /\ (before = {} => list = {})

\* Who has only read lists that have not grown, or is late, has seen enough.
LEMMA StillSeenEnough ==
    ASSUME AdmissionType, AdmissionType', NEW b \in Askers, SeenEnough(b), SameButLate(asking'[b], asking[b]),
           \/ asking'[b].late
           \/ /\ HasRead(b, "residents") => NoMore(residents', residents)
              /\ HasRead(b, "reserved") => NoMore(reserved', reserved)
              /\ HasRead(b, "guests") => NoMore(guests', guests)
    PROVE  SeenEnough(b)'
<1> DEFINE r == Charged(residents)
           v == Charged(reserved)
           g == Charged(guests)
           r2 == Charged(residents')
           v2 == Charged(reserved')
           g2 == Charged(guests')
<1>1. r \in Nat /\ v \in Nat /\ g \in Nat /\ r2 \in Nat /\ v2 \in Nat /\ g2 \in Nat
  BY ListsAreAmounts, ListsStayAmounts
<1>2. Spent = r + v + g /\ Spent' = r2 + v2 + g2
  BY DEF Spent
<1>3. asking[b] \in Asking /\ asking'[b] \in Asking
  BY DEF AdmissionType
<1>4. CASE asking'[b].late
  BY <1>4 DEF SeenEnough
<1>5. CASE ~asking'[b].late
  <2>1. /\ HasRead(b, "residents") => r2 <= r /\ (residents = {} => residents' = {})
        /\ HasRead(b, "reserved") => v2 <= v /\ (reserved = {} => reserved' = {})
        /\ HasRead(b, "guests") => g2 <= g /\ (guests = {} => guests' = {})
    BY <1>5 DEF NoMore
  <2> HIDE DEF r, v, g, r2, v2, g2
  <2>2. ~asking[b].late
    BY <1>5 DEF SameButLate
  <2>3. CASE asking[b].at = "rest"
    BY <2>3 DEF SeenEnough, SameButLate
  <2>4. CASE asking[b].at = "reserved"
    <3>1. HasRead(b, "residents")
      BY <2>4 DEF HasRead, Place
    <3> QED
      BY <1>1, <1>3, <2>1, <2>2, <2>4, <3>1 DEF SeenEnough, SameButLate, Asking, r, r2
  <2>5. CASE asking[b].at = "guests"
    <3>1. HasRead(b, "residents") /\ HasRead(b, "reserved")
      BY <2>5 DEF HasRead, Place
    <3> QED
      BY <1>1, <1>3, <2>1, <2>2, <2>5, <3>1 DEF SeenEnough, SameButLate, Asking, r, r2, v, v2
  <2>6. CASE asking[b].at \in {"decide", "loading"}
    <3>1. HasRead(b, "residents") /\ HasRead(b, "reserved") /\ HasRead(b, "guests")
      BY <2>6 DEF HasRead, Place
    <3>2. Spent' \in Nat /\ Spent' <= Spent /\ Spent \in Nat
      BY <1>1, <1>2, <2>1, <3>1
    <3> QED
      BY <1>3, <2>1, <2>2, <2>6, <3>1, <3>2, AdmissionAssumption DEF SeenEnough, SameButLate, Asking
  <2> QED
    BY <1>3, <2>3, <2>4, <2>5, <2>6 DEF Asking
<1> QED
  BY <1>4, <1>5

\* Where nothing is read, nothing has been missed.
LEMMA RestingHasSeenEnough ==
    ASSUME NEW a \in Askers, asking'[a].at = "rest" PROVE SeenEnough(a)'
BY DEF SeenEnough

\* Lists that have not grown keep the budget, where nobody got further.
LEMMA LessIsKeptTo ==
    ASSUME AdmissionType, AdmissionType', KeptTo, asking' = asking,
           NoMore(residents', residents), NoMore(reserved', reserved), NoMore(guests', guests)
    PROVE  KeptTo'
<1>1. \A b \in Askers : SeenEnough(b)'
  BY StillSeenEnough DEF KeptTo, SameButLate
<1>2. Spent' <= Spent /\ Spent \in Nat /\ Spent' \in Nat
  BY ListsAreAmounts, ListsStayAmounts DEF Spent, NoMore
<1> QED
  BY <1>1, <1>2, AdmissionAssumption DEF KeptTo

\* The same list is no more.
LEMMA SameIsNoMore == ASSUME NEW list, Charged(list) \in Nat PROVE NoMore(list, list)
BY DEF NoMore

\* Whoever gets further with nothing charged has seen enough, if it is so of
\* where it is now.
LEMMA FurtherIsKeptTo ==
    ASSUME AdmissionType, AdmissionType', KeptTo, NEW a \in Askers, NEW new \in Asking,
           asking' = [asking EXCEPT ![a] = new], UNCHANGED <<residents, reserved, guests>>,
           SeenEnough(a)'
    PROVE  KeptTo'
<1>1. ASSUME NEW b \in Askers, b # a PROVE SeenEnough(b)'
  <2>1. asking'[b] = asking[b]
    BY <1>1 DEF AdmissionType
  <2>2. NoMore(residents', residents) /\ NoMore(reserved', reserved) /\ NoMore(guests', guests)
    BY ListsAreAmounts, SameIsNoMore
  <2> QED
    BY <2>1, <2>2, StillSeenEnough DEF KeptTo, SameButLate
<1>2. Spent' = Spent
  BY DEF Spent
<1> QED
  BY <1>1, <1>2 DEF KeptTo

\* Reading a list adds what it is charged.
LEMMA ReadsKeepBudget ==
    ASSUME AdmissionType, AdmissionType', KeptTo, NEW a \in Askers, ReadReserved(a) \/ ReadGuests(a)
    PROVE  KeptTo'
<1> DEFINE r == Charged(residents)
           v == Charged(reserved)
           g == Charged(guests)
<1>1. r \in Nat /\ v \in Nat /\ g \in Nat /\ Spent = r + v + g
  BY ListsAreAmounts DEF Spent
<1>2. SeenEnough(a) /\ asking[a] \in Asking
  BY DEF KeptTo, AdmissionType
<1>3. UNCHANGED <<residents, reserved, guests>> /\ Spent' = Spent
  BY DEF ReadReserved, ReadGuests, Spent
<1>4. CASE ReadReserved(a)
  <2>1. asking[a].at = "reserved" /\ asking' = Reading(a, reserved, "guests")
    BY <1>4 DEF ReadReserved
  <2>2. PICK new \in Asking :
            /\ asking' = [asking EXCEPT ![a] = new]
            /\ new.at = "guests" /\ new.late = asking[a].late
            /\ new.seen = asking[a].seen + v
            /\ new.alone = (asking[a].alone /\ reserved = {})
    BY <1>1, <2>1, ReadingType
  <2>3. asking'[a] = new
    BY <2>2 DEF AdmissionType
  <2>4. ~new.late => new.seen >= r + v /\ (new.alone => residents = {} /\ reserved = {})
    <3> HIDE DEF r, v
    <3> QED
      BY <1>1, <1>2, <2>1, <2>2 DEF SeenEnough, Asking, r
  <2>5. SeenEnough(a)'
    BY <1>3, <2>2, <2>3, <2>4 DEF SeenEnough
  <2> QED
    BY <1>3, <2>2, <2>5, FurtherIsKeptTo
<1>5. CASE ReadGuests(a)
  <2>1. asking[a].at = "guests" /\ asking' = Reading(a, guests, "decide")
    BY <1>5 DEF ReadGuests
  <2>2. PICK new \in Asking :
            /\ asking' = [asking EXCEPT ![a] = new]
            /\ new.at = "decide" /\ new.late = asking[a].late
            /\ new.seen = asking[a].seen + g
            /\ new.alone = (asking[a].alone /\ guests = {})
    BY <1>1, <2>1, ReadingType
  <2>3. asking'[a] = new
    BY <2>2 DEF AdmissionType
  <2>4. ~new.late => new.seen >= Spent /\ (new.alone => residents = {} /\ reserved = {} /\ guests = {})
    <3>1. ~asking[a].late => asking[a].seen >= r + v
      BY <1>2, <2>1 DEF SeenEnough
    <3>2. ~asking[a].late /\ asking[a].alone => residents = {} /\ reserved = {}
      BY <1>2, <2>1 DEF SeenEnough
    <3> HIDE DEF r, v, g
    <3>3. asking[a].seen \in Nat
      BY <1>2 DEF Asking
    <3>4. \A n \in Nat : n >= r + v => n + g >= r + v + g
      BY <1>1
    <3>5. ~new.late => new.seen >= Spent
      <4> DEFINE n == asking[a].seen
      <4>1. ~new.late => n >= r + v /\ n + g >= r + v + g
        BY <2>2, <3>1, <3>3, <3>4
      <4>2. new.seen = n + g /\ Spent = r + v + g
        BY <1>1, <2>2
      <4> HIDE DEF n
      <4> QED
        BY <4>1, <4>2
    <3> QED
      BY <2>2, <3>2, <3>5
  <2>5. SeenEnough(a)'
    BY <1>3, <2>2, <2>3, <2>4 DEF SeenEnough
  <2> QED
    BY <1>3, <2>2, <2>5, FurtherIsKeptTo
<1> QED
  BY <1>4, <1>5

\* Beginning has seen the residents.
LEMMA BeginKeepsBudget ==
    ASSUME AdmissionType, AdmissionType', KeptTo, NEW a \in Askers,
           NEW what \in Models \cup RunSizes \cup GuestSizes,
           NEW next \in {"reserved", "guests"}, Begin(a, what, next), next = "guests" => reserved = {}
    PROVE  KeptTo'
<1> DEFINE new == [Rest EXCEPT !.at = next, !.what = what, !.seen = Charged(residents), !.alone = residents = {}]
<1>1. new \in Asking /\ new.at = next /\ new.seen = Charged(residents) /\ new.alone = (residents = {})
  BY RestType, ListsAreAmounts DEF Asking
<1>2. asking' = [asking EXCEPT ![a] = new] /\ UNCHANGED <<residents, reserved, guests>>
  BY DEF Begin
<1> HIDE DEF new
<1>3. asking'[a] = new
  BY <1>2 DEF AdmissionType
<1>4. next = "guests" => Charged(residents) + Charged(reserved) = Charged(residents)
  BY ChargedForNone, ListsAreAmounts
<1> DEFINE r == Charged(residents)
           v == Charged(reserved)
<1>5. r \in Nat /\ Charged(residents)' = r /\ Charged(reserved)' = v
      /\ residents' = residents /\ reserved' = reserved
  BY <1>2, ListsAreAmounts
<1>6. new.seen = r /\ (next = "guests" => r + v = r) /\ \A n \in Nat : n >= n
  BY <1>1, <1>4
<1>7. /\ new.seen >= Charged(residents)'
      /\ new.alone => residents' = {}
      /\ next = "guests" => /\ new.seen >= Charged(residents)' + Charged(reserved)'
                            /\ reserved' = {}
  <2> HIDE DEF r, v
  <2> QED
    BY <1>1, <1>5, <1>6
<1>8. SeenEnough(a)'
  BY <1>1, <1>3, <1>7 DEF SeenEnough
<1> QED
  BY <1>1, <1>2, <1>8, FurtherIsKeptTo

\* A load's decision, on what it has seen.
LEMMA DecideLoadKeepsBudget ==
    ASSUME AdmissionType, AdmissionType', KeptTo, NEW need \in Needs, DecideLoad(need)
    PROVE  KeptTo'
<1> DEFINE load == asking["load"]
           left == Left(load.seen)
           said == Admit(load.alone, left, need)
<1>1. load \in Asking /\ load.seen \in Nat /\ load.alone \in BOOLEAN /\ SeenEnough("load")
  BY DEF AdmissionType, Asking, Askers, KeptTo
<1>2. left \in 0..Total /\ said.commit \in 0..Total
  BY <1>1, LeftType, AdmitType
<1>3. load.alone \/ said.commit <= left
  BY <1>1, <1>2, AdmitType
<1>4. left = 0 \/ load.seen + left = Total
  BY <1>1, LeftType
<1>5. load.at = "decide" /\ UNCHANGED <<residents, reserved, guests, raced, grew>>
  BY DEF DecideLoad
<1>6. Spent \in Nat /\ Spent <= Total /\ Spent' = Spent
  BY <1>5, ListsAreAmounts DEF Spent, KeptTo
<1>7. CASE asking' = [asking EXCEPT !["load"] = Rest]
  <2>1. asking'["load"].at = "rest" /\ "load" \in Askers
    BY <1>7, RestType DEF AdmissionType, Askers
  <2> QED
    BY <1>5, <1>7, <2>1, RestType, RestingHasSeenEnough, FurtherIsKeptTo
<1>8. ASSUME NEW n \in 0..Total, NEW b \in BOOLEAN, ~load.late => Spent + n <= Total,
             asking' = [asking EXCEPT !["load"].at = "loading", !["load"].commit = n, !["load"].streams = b]
      PROVE  KeptTo'
  <2> DEFINE new == [load EXCEPT !.at = "loading", !.commit = n, !.streams = b]
  <2>1. new \in Asking /\ new.at = "loading" /\ new.commit = n /\ new.late = load.late
    BY <1>1 DEF Asking
  <2>2. asking' = [asking EXCEPT !["load"] = new]
    BY <1>8 DEF AdmissionType, Asking, Askers
  <2> HIDE DEF new, load
  <2>3. asking'["load"] = new /\ "load" \in Askers
    BY <2>2 DEF AdmissionType, Askers
  <2>4. ~new.late => Spent' + new.commit <= Total
    BY <1>6, <1>8, <2>1
  <2>5. SeenEnough("load")'
    BY <2>1, <2>3, <2>4 DEF SeenEnough
  <2> QED
    BY <1>5, <2>1, <2>2, <2>3, <2>5, FurtherIsKeptTo
<1>9. ~load.late => Spent + left <= Total
  <2> HIDE DEF left, load
  <2>1. ~load.late => load.seen >= Spent
    BY <1>1, <1>5 DEF SeenEnough, load
  <2>2. \A n \in Nat : n >= Spent /\ n + left = Total => Spent + left <= Total
    BY <1>2, <1>6
  <2> QED
    BY <1>1, <1>2, <1>4, <1>6, <2>1, <2>2
<1>10. ~load.late => Spent + said.commit <= Total
  <2>1. CASE load.alone
    <3>1. ~load.late => residents = {} /\ reserved = {} /\ guests = {}
      BY <1>1, <1>5, <2>1 DEF SeenEnough
    <3>2. ~load.late => Spent = 0
      BY <3>1, ChargedForNone DEF Spent
    <3> DEFINE n == said.commit
    <3>3. n \in 0..Total
      BY <1>2
    <3> HIDE DEF n
    <3>4. ~load.late => Spent + n <= Total
      BY <3>2, <3>3, AdmissionAssumption
    <3> QED
      BY <3>4 DEF n
  <2>2. CASE ~load.alone
    <3> DEFINE n == said.commit
    <3>1. n \in 0..Total /\ n <= left
      BY <1>2, <1>3, <2>2
    <3> HIDE DEF n, left
    <3>2. ~load.late => Spent + n <= Total
      BY <1>2, <1>6, <1>9, <3>1, AdmissionAssumption
    <3> QED
      BY <3>2 DEF n
  <2> QED
    BY <2>1, <2>2
<1> QED
  BY <1>2, <1>7, <1>8, <1>9, <1>10 DEF DecideLoad, Spread, Fits

\* The load that is over is charged no more than it was admitted with, for as
\* long as nothing grew, and whoever had read the residents is late.
LEMMA EndLoadKeepsBudget ==
    ASSUME AdmissionType, AdmissionType', KeptTo, NEW took \in Bytes, EndLoad(took), ~raced', ~grew'
    PROVE  KeptTo'
<1> DEFINE load == asking["load"]
           was == [asking EXCEPT !["load"] = Rest]
<1>1. load \in Asking /\ SeenEnough("load") /\ "load" \in Askers
  BY DEF AdmissionType, Askers, KeptTo
<1>2. PICK n \in 0..Total :
        /\ residents' = residents \cup {[id |-> load.what, commit |-> n]}
        /\ grew' = (grew \/ n > load.commit)
  BY EndLoadType
<1>3. /\ load.at = "loading" /\ UNCHANGED <<reserved, guests>>
      /\ asking' = Unseen("residents", "load", was) /\ ~load.late
  BY DEF EndLoad
<1>4. was \in [Askers -> Asking] /\ was["load"] = Rest /\ \A b \in Askers : b # "load" => was[b] = asking[b]
  BY RestType DEF AdmissionType, Askers
<1> HIDE DEF was
<1>5. asking'["load"].at = "rest"
  BY <1>1, <1>3, <1>4, RestType, UnseenType
<1>6. ASSUME NEW b \in Askers, b # "load" PROVE SeenEnough(b)'
  <2>1. SameButLate(asking'[b], asking[b])
    BY <1>3, <1>4, <1>6, UnseenType
  <2>2. HasRead(b, "residents") => asking'[b].late
    BY <1>3, <1>4, <1>6, UnseenType
  <2>3. ~HasRead(b, "residents") => ~HasRead(b, "reserved") /\ ~HasRead(b, "guests")
    <3>1. asking[b].at \in {"rest", "reserved", "guests", "decide", "loading"}
      BY DEF AdmissionType, Asking
    <3> QED
      BY <3>1 DEF HasRead, Place
  <2> QED
    BY <2>1, <2>2, <2>3, StillSeenEnough DEF KeptTo
<1>7. Spent' <= Total
  <2> DEFINE x == [id |-> load.what, commit |-> n]
             r == Charged(residents)
             r2 == Charged(residents')
             others == Charged(reserved) + Charged(guests)
  <2>1. x.commit = n /\ n \in Nat
    OBVIOUS
  <2>2. r2 <= r + n /\ r \in Nat /\ r2 \in Nat /\ others \in Nat
    <3>1. residents' = residents \cup {x} /\ Amounts(residents)
      BY <1>2, ListsAreAmounts
    <3> HIDE DEF x
    <3>2. Charged(residents \cup {x}) <= Charged(residents) + x.commit
      BY <2>1, <3>1, ChargedForOneMore
    <3> QED
      BY <2>1, <3>1, <3>2, ListsAreAmounts, ListsStayAmounts
  <2>3. Spent = r + others /\ Spent' = r2 + others
    BY <1>3, ListsAreAmounts, ListsStayAmounts DEF Spent
  <2>4. Spent + load.commit <= Total /\ load.commit \in Nat
    BY <1>1, <1>3 DEF SeenEnough, Asking
  <2>5. n <= load.commit
    <3> DEFINE c == load.commit
    <3>1. ~(n > c) /\ c \in Nat
      BY <1>2, <2>4
    <3> HIDE DEF c
    <3>2. n <= c
      BY <3>1
    <3> QED
      BY <3>2 DEF c
  <2> HIDE DEF x, r, r2, others, load
  <2> QED
    BY <2>1, <2>2, <2>3, <2>4, <2>5, AdmissionAssumption
<1>8. \A b \in Askers : SeenEnough(b)'
  BY <1>5, <1>6, RestingHasSeenEnough
<1> QED
  BY <1>7, <1>8 DEF KeptTo

\* What is decided in one step, for a list that was empty: a reservation, or
\* the layers of another machine.
LEMMA DecideKeepsBudget ==
    ASSUME AdmissionType, AdmissionType', KeptTo, NEW a \in {"reserve", "lodge"}, asking[a].at = "decide",
           NEW old, NEW new, NEW others \in Nat, Charged(old) \in Nat, Charged(new) \in Nat,
           Spent = others + Charged(old), Spent' = others + Charged(new),
           Charged(new) <= Charged(old)
             \/ (~asking[a].late /\ Charged(new) <= Left(asking[a].seen)
                 /\ Charged(old) = 0),
           asking'[a].at = "rest",
           \A b \in Askers \ {a} : SeenEnough(b)'
    PROVE  KeptTo'
<1>1. \A b \in Askers : SeenEnough(b)'
  BY RestingHasSeenEnough
<1>2. Spent' <= Total
  <2> DEFINE one == asking[a]
             left == Left(one.seen)
             o == Charged(old)
             n == Charged(new)
  <2>1. one \in Asking /\ SeenEnough(a) /\ one.seen \in Nat
    BY DEF AdmissionType, Askers, Asking, KeptTo
  <2>2. left \in 0..Total /\ (left = 0 \/ one.seen + left = Total)
    BY <2>1, LeftType
  <2>3. ~one.late => one.seen >= Spent
    BY <2>1 DEF SeenEnough
  <2>4. Spent <= Total
    BY DEF KeptTo
  <2> HIDE DEF one, left, o, n
  <2>5. o \in Nat /\ n \in Nat /\ Spent = others + o /\ Spent' = others + n
        /\ (n <= o \/ (~one.late /\ n <= left /\ o = 0))
    BY DEF one, left, o, n
  <2> QED
    BY <2>1, <2>2, <2>3, <2>4, <2>5, AdmissionAssumption
<1> QED
  BY <1>1, <1>2 DEF KeptTo

\* The others, when one is charged what it asked for or is refused.
LEMMA OthersHaveSeenEnough ==
    ASSUME AdmissionType, AdmissionType', KeptTo, NEW a \in {"reserve", "lodge"}, NEW was, NEW list,
           was = [asking EXCEPT ![a] = Rest],
           \/ asking' = was /\ UNCHANGED <<residents, reserved, guests>>
           \/ /\ asking' = Unseen(list, a, was)
              /\ \/ list = "reserved" /\ UNCHANGED <<residents, guests>>
                 \/ list = "guests" /\ UNCHANGED <<residents, reserved>>
    PROVE  asking'[a].at = "rest" /\ \A b \in Askers \ {a} : SeenEnough(b)'
<1>1. /\ asking'[a].at = "rest"
      /\ \A b \in Askers \ {a} : SameButLate(asking'[b], asking[b])
      /\ asking' = Unseen(list, a, was) => \A b \in Askers \ {a} : HasRead(b, list) => asking'[b].late
  BY DecideRestType
<1>2. NoMore(residents, residents) /\ NoMore(reserved, reserved) /\ NoMore(guests, guests)
  BY ListsAreAmounts, SameIsNoMore
<1>3. ASSUME NEW b \in Askers \ {a} PROVE SeenEnough(b)'
  <2>1. SameButLate(asking'[b], asking[b]) /\ SeenEnough(b)
    BY <1>1 DEF KeptTo
  <2>2. HasRead(b, "guests") => HasRead(b, "reserved")
    BY DEF HasRead, Place, AdmissionType, Asking
  <2>3. CASE asking' = was /\ UNCHANGED <<residents, reserved, guests>>
    BY <1>2, <2>1, <2>3, StillSeenEnough
  <2>4. CASE asking' = Unseen(list, a, was) /\ list = "reserved" /\ UNCHANGED <<residents, guests>>
    BY <1>1, <1>2, <2>1, <2>2, <2>4, StillSeenEnough
  <2>5. CASE asking' = Unseen(list, a, was) /\ list = "guests" /\ UNCHANGED <<residents, reserved>>
    BY <1>1, <1>2, <2>1, <2>5, StillSeenEnough
  <2> QED
    BY <2>3, <2>4, <2>5
<1> QED
  BY <1>1, <1>3

\* A reservation is made within the budget, or not at all.
LEMMA DecideReserveKeepsBudget ==
    ASSUME AdmissionType, AdmissionType', KeptTo, DecideReserve, ~raced'
    PROVE  KeptTo'
<1> DEFINE run == asking["reserve"]
           fits == run.what <= Left(run.seen)
           was == [asking EXCEPT !["reserve"] = Rest]
           set == {[id |-> "run", commit |-> run.what]}
           others == Charged(residents) + Charged(guests)
<1>1. /\ run.at = "decide" /\ UNCHANGED <<residents, guests, grew>>
      /\ reserved' = IF fits THEN set ELSE {}
      /\ asking' = IF fits THEN Unseen("reserved", "reserve", was) ELSE was
      /\ ~(fits /\ run.late)
  BY DEF DecideReserve
<1>2. reserved = {} /\ Charged(reserved) = 0 /\ run.what \in Nat
  BY <1>1, ChargedForNone, AdmissionAssumption DEF AdmissionType
<1>3. Charged(set) = run.what
  <2> DEFINE x == [id |-> "run", commit |-> run.what]
  <2>1. x.commit = run.what
    OBVIOUS
  <2> HIDE DEF x
  <2>2. Charged({x}) = x.commit
    BY <1>2, <2>1, ChargedAlone
  <2> QED
    BY <2>1, <2>2 DEF x
<1>4. others \in Nat /\ Charged(reserved') \in Nat
      /\ Spent = others + Charged(reserved) /\ Spent' = others + Charged(reserved')
  BY <1>1, ListsAreAmounts, ListsStayAmounts DEF Spent
<1>5. Charged(reserved') <= Charged(reserved)
        \/ (~run.late /\ Charged(reserved') <= Left(run.seen) /\ Charged(reserved) = 0)
  <2>1. CASE fits
    BY <1>1, <1>2, <1>3, <2>1
  <2>2. CASE ~fits
    BY <1>1, <1>2, <2>2
  <2> QED
    BY <2>1, <2>2
<1>6. \/ asking' = was /\ UNCHANGED <<residents, reserved, guests>>
      \/ asking' = Unseen("reserved", "reserve", was) /\ UNCHANGED <<residents, guests>>
  BY <1>1, <1>2
<1> HIDE DEF was, set, others
<1>7. asking'["reserve"].at = "rest" /\ \A b \in Askers \ {"reserve"} : SeenEnough(b)'
  BY <1>6, OthersHaveSeenEnough DEF was
<1> QED
  BY <1>1, <1>2, <1>4, <1>5, <1>7, DecideKeepsBudget

\* And so are another machine's layers taken in.
LEMMA DecideLodgeKeepsBudget ==
    ASSUME AdmissionType, AdmissionType', KeptTo, DecideLodge, ~raced'
    PROVE  KeptTo'
<1> DEFINE guest == asking["lodge"]
           fits == guest.what <= Left(guest.seen)
           was == [asking EXCEPT !["lodge"] = Rest]
           set == {[id |-> "loading", commit |-> guest.what]}
           others == Charged(residents) + Charged(reserved)
<1>1. /\ guest.at = "decide" /\ UNCHANGED <<residents, reserved, grew>>
      /\ guests' = IF fits THEN set ELSE {}
      /\ asking' = IF fits THEN Unseen("guests", "lodge", was) ELSE was
      /\ ~(fits /\ guest.late)
  BY DEF DecideLodge
<1>2. guests = {} /\ Charged(guests) = 0 /\ guest.what \in Nat
  BY <1>1, ChargedForNone, AdmissionAssumption DEF AdmissionType
<1>3. Charged(set) = guest.what
  <2> DEFINE x == [id |-> "loading", commit |-> guest.what]
  <2>1. x.commit = guest.what
    OBVIOUS
  <2> HIDE DEF x
  <2>2. Charged({x}) = x.commit
    BY <1>2, <2>1, ChargedAlone
  <2> QED
    BY <2>1, <2>2 DEF x
<1>4. others \in Nat /\ Charged(guests') \in Nat
      /\ Spent = others + Charged(guests) /\ Spent' = others + Charged(guests')
  BY <1>1, ListsAreAmounts, ListsStayAmounts DEF Spent
<1>5. Charged(guests') <= Charged(guests)
        \/ (~guest.late /\ Charged(guests') <= Left(guest.seen) /\ Charged(guests) = 0)
  <2>1. CASE fits
    BY <1>1, <1>2, <1>3, <2>1
  <2>2. CASE ~fits
    BY <1>1, <1>2, <2>2
  <2> QED
    BY <2>1, <2>2
<1>6. \/ asking' = was /\ UNCHANGED <<residents, reserved, guests>>
      \/ asking' = Unseen("guests", "lodge", was) /\ UNCHANGED <<residents, reserved>>
  BY <1>1, <1>2
<1> HIDE DEF was, set, others
<1>7. asking'["lodge"].at = "rest" /\ \A b \in Askers \ {"lodge"} : SeenEnough(b)'
  BY <1>6, OthersHaveSeenEnough DEF was
<1> QED
  BY <1>1, <1>2, <1>4, <1>5, <1>7, DecideKeepsBudget

\* Every operation keeps the budget, as long as nobody was late and nothing grew.
LEMMA BudgetNext == AdmissionType /\ AdmissionType' /\ BudgetInv /\ [Next]_vars => BudgetInv'
<1> SUFFICES ASSUME AdmissionType, AdmissionType', BudgetInv, [Next]_vars, ~raced', ~grew' PROVE KeptTo'
  BY DEF BudgetInv
<1>0. NoMore(residents, residents) /\ NoMore(reserved, reserved) /\ NoMore(guests, guests)
  BY ListsAreAmounts, SameIsNoMore
<1>1. ASSUME NEW a \in Askers, ReadReserved(a) \/ ReadGuests(a) PROVE KeptTo'
  BY <1>1, ReadsKeepBudget DEF BudgetInv, ReadReserved, ReadGuests
<1>2. ASSUME NEW m \in Models, StartLoad(m) PROVE KeptTo'
  BY <1>2, BeginKeepsBudget DEF BudgetInv, StartLoad, Begin, Askers
<1>3. ASSUME NEW need \in Needs, DecideLoad(need) PROVE KeptTo'
  BY <1>3, DecideLoadKeepsBudget DEF BudgetInv, DecideLoad
<1>4. ASSUME NEW took \in Bytes, EndLoad(took) PROVE KeptTo'
  BY <1>4, EndLoadKeepsBudget DEF BudgetInv, EndLoad
<1>5. CASE FailLoad
  <2>1. asking' = [asking EXCEPT !["load"] = Rest] /\ UNCHANGED <<residents, reserved, guests, raced, grew>>
    BY <1>5 DEF FailLoad
  <2>2. asking'["load"].at = "rest" /\ "load" \in Askers
    BY <2>1, RestType DEF AdmissionType, Askers
  <2> QED
    BY <2>1, <2>2, RestType, RestingHasSeenEnough, FurtherIsKeptTo DEF BudgetInv
<1>6. ASSUME NEW r \in residents, Unload(r) PROVE KeptTo'
  <2>1. residents' = residents \ {r} /\ UNCHANGED <<reserved, guests, asking, raced, grew>>
    BY <1>6 DEF Unload
  <2>2. NoMore(residents', residents)
    BY <2>1, ListsAreAmounts, ChargedForOneLess DEF NoMore
  <2> QED
    BY <1>0, <2>1, <2>2, LessIsKeptTo DEF BudgetInv
<1>7. ASSUME NEW bytes \in RunSizes, StartReserve(bytes) PROVE KeptTo'
  BY <1>7, BeginKeepsBudget DEF BudgetInv, StartReserve, Begin, Askers
<1>8. CASE DecideReserve
  BY <1>8, DecideReserveKeepsBudget DEF BudgetInv, DecideReserve
<1>9. CASE Release
  <2>1. reserved' = {} /\ UNCHANGED <<residents, guests, asking, raced, grew>>
    BY <1>9 DEF Release
  <2>2. NoMore(reserved', reserved)
    BY <2>1, ListsAreAmounts, ChargedForNone DEF NoMore
  <2> QED
    BY <1>0, <2>1, <2>2, LessIsKeptTo DEF BudgetInv
<1>10. ASSUME NEW bytes \in GuestSizes, StartLodge(bytes) PROVE KeptTo'
  BY <1>10, BeginKeepsBudget DEF BudgetInv, StartLodge, Begin, Askers
<1>11. ASSUME NEW bytes \in GuestSizes, Resize(bytes) PROVE KeptTo'
  <2> DEFINE x == [id |-> "layers", commit |-> bytes]
  <2>1. /\ guests' = {x} /\ guests # {} /\ UNCHANGED <<residents, reserved, asking, raced>>
        /\ grew' = (grew \/ bytes > Charged(guests))
    BY <1>11 DEF Resize
  <2>2. x.commit = bytes /\ bytes \in Nat
    BY AdmissionAssumption
  <2> HIDE DEF x
  <2>3. Charged(guests') = bytes
    BY <2>1, <2>2, ChargedAlone
  <2>4. Charged(guests') <= Charged(guests)
    <3> DEFINE c == Charged(guests)
    <3>1. c \in Nat /\ ~(bytes > c)
      BY <2>1, ListsAreAmounts
    <3> HIDE DEF c
    <3>2. bytes <= c
      BY <2>2, <3>1
    <3> QED
      BY <2>3, <3>2 DEF c
  <2> QED
    BY <1>0, <2>1, <2>4, LessIsKeptTo DEF BudgetInv, NoMore
<1>12. CASE DecideLodge
  BY <1>12, DecideLodgeKeepsBudget DEF BudgetInv, DecideLodge
<1>13. CASE LetGo
  <2>1. guests' = {} /\ UNCHANGED <<residents, reserved, asking, raced, grew>>
    BY <1>13 DEF LetGo
  <2>2. NoMore(guests', guests)
    BY <2>1, ListsAreAmounts, ChargedForNone DEF NoMore
  <2> QED
    BY <1>0, <2>1, <2>2, LessIsKeptTo DEF BudgetInv
<1>14. CASE UNCHANGED vars
  BY <1>0, <1>14, LessIsKeptTo DEF BudgetInv, vars
<1> QED
  BY <1>1, <1>2, <1>3, <1>4, <1>5, <1>6, <1>7, <1>8, <1>9, <1>10, <1>11, <1>12, <1>13, <1>14 DEF Next

\* Nothing is charged in the beginning.
LEMMA BudgetInit == Init => BudgetInv
<1> SUFFICES ASSUME Init PROVE KeptTo
  BY DEF BudgetInv
<1>1. \A a \in Askers : asking[a].at = "rest"
  BY RestType DEF Init
<1> QED
  BY <1>1, ChargedForNone, AdmissionAssumption DEF Init, Spent, KeptTo, SeenEnough

\* The types and the budget together are inductive.
LEMMA AdmissionInvariant == Spec => [](AdmissionType /\ BudgetInv)
<1>1. Init => AdmissionType /\ BudgetInv
  BY AdmissionTypeInit, BudgetInit
<1>2. AdmissionType /\ BudgetInv /\ [Next]_vars => (AdmissionType /\ BudgetInv)'
  BY AdmissionTypeNext, BudgetNext
<1> QED
  BY <1>1, <1>2, PTL DEF Spec

\* A list of at most one has at most one.
LEMMA AtMostOneIsOne ==
    ASSUME NEW list, NEW sizes, AtMostOne(list, sizes)
    PROVE  Cardinality(list) <= 1 /\ \A r \in list : r.commit \in sizes
<1>1. CASE list = {}
  BY <1>1, FS_EmptySet
<1>2. ASSUME NEW r, list = {r}, r.commit \in sizes PROVE Cardinality(list) <= 1
  BY <1>2, FS_Singleton
<1> QED
  BY <1>1, <1>2 DEF AtMostOne

\* Every variable keeps its type: no model is in memory twice, a training run's
\* reservation and another machine's layers are at most one each, and no
\* resident is charged more than the whole budget.
THEOREM MemoryIsTyped == Spec => []TypeOK
<1>1. AdmissionType => TypeOK
  <2> SUFFICES ASSUME AdmissionType PROVE TypeOK
    OBVIOUS
  <2>1. \A list \in {reserved, guests} : Cardinality(list) <= 1
    BY AtMostOneIsOne DEF AdmissionType
  <2>2. \A r \in reserved \cup guests : r.commit \in RunSizes \cup GuestSizes
    BY AtMostOneIsOne DEF AdmissionType
  <2> QED
    BY <2>1, <2>2 DEF AdmissionType, TypeOK, Asking
<1> QED
  BY <1>1, AdmissionInvariant, PTL

\* The budget is kept to by every interleaving of loads, reservations and
\* another machine's layers, unless a decision was charged on a sum that was
\* out of date by then, or something took more than it was admitted with
\* (`admit`, `Shared::held`, `load`, `reserve` and `lodge`).
THEOREM BudgetIsKept == Spec => []OnlyWaysOver
<1>1. AdmissionType /\ BudgetInv => OnlyWaysOver
  <2> SUFFICES ASSUME AdmissionType, BudgetInv, Spent > Total PROVE raced \/ grew
    BY DEF OnlyWaysOver
  <2>1. Spent \in Nat
    BY ListsAreAmounts DEF Spent
  <2>2. ~(Spent <= Total)
    BY <2>1, AdmissionAssumption
  <2> QED
    BY <2>2 DEF BudgetInv, KeptTo
<1> QED
  BY <1>1, AdmissionInvariant, PTL

(***************************************************************************)
(* What is read through the memory                                         *)
(***************************************************************************)
\* A step with the caches is a step of the budget, or leaves it alone.
LEMMA MemoryStepIsAdmission == [MemoryNext]_memoryVars => [Next]_vars
<1> SUFFICES ASSUME [MemoryNext]_memoryVars PROVE [Next]_vars
  OBVIOUS
<1>1. ASSUME NEW took \in Bytes, LoadWith(took) PROVE Next
  BY <1>1 DEF LoadWith, Next
<1>2. ASSUME NEW r \in residents, UnloadWith(r) PROVE Next
  BY <1>2 DEF UnloadWith, Next
<1>3. ASSUME NEW m, NEW chosen, Choose(m, chosen) PROVE UNCHANGED vars
  BY <1>3 DEF Choose
<1>4. RunGroup \/ ReadFails => UNCHANGED vars
  BY DEF RunGroup, ReadFails
<1>5. UNCHANGED memoryVars => UNCHANGED vars
  BY DEF memoryVars
<1> QED
  BY <1>1, <1>2, <1>3, <1>4, <1>5 DEF MemoryNext, Next

\* With the caches of what does not fit, and passes between the loads, the
\* memory is still what admission makes of it.
THEOREM MemoryIsAdmission == MemorySpec => Spec
<1>1. MemoryInit => Init
  BY DEF MemoryInit
<1> QED
  BY <1>1, MemoryStepIsAdmission, PTL DEF MemorySpec, Spec

\* And the budget is kept to there, but for the same two ways past it.
THEOREM BudgetIsKeptBesidesPasses == MemorySpec => []OnlyWaysOver
BY MemoryIsAdmission, BudgetIsKept, PTL

(***************************************************************************)
(* The least of some, and what is taken out of a sequence                  *)
(***************************************************************************)
LEMMA MinIsIn ==
    ASSUME NEW T \in SUBSET Nat, T # {}
    PROVE  Min(T) \in T /\ \A y \in T : Min(T) <= y
<1>1. \E x \in T : \A y \in T : x <= y
  BY HasLeast
<1> QED
  BY <1>1 DEF Min

\* What is in a sequence once is taken out where it is.
LEMMA RemovingFirst ==
    ASSUME NEW S, NEW s \in Seq(S), NEW x
    PROVE  \/ RemoveFirst(s, x) = s /\ \A i \in 1..Len(s) : s[i] # x
           \/ /\ RemoveFirst(s, x) \in Seq(S) /\ Len(RemoveFirst(s, x)) = Len(s) - 1
              /\ \E p \in 1..Len(s) :
                    /\ s[p] = x
                    /\ \A i \in 1..(Len(s) - 1) :
                        RemoveFirst(s, x)[i] = IF i < p THEN s[i] ELSE s[i + 1]
<1>1. CASE \A i \in 1..Len(s) : s[i] # x
  BY <1>1 DEF RemoveFirst
<1>2. CASE \E i \in 1..Len(s) : s[i] = x
  <2> DEFINE I == {i \in 1..Len(s) : s[i] = x}
             p == Min(I)
  <2>1. p \in 1..Len(s) /\ s[p] = x
    <3>1. I \in SUBSET Nat /\ I # {}
      BY <1>2
    <3>2. p \in I
      BY <3>1, MinIsIn
    <3> QED
      BY <3>2
  <2>2. RemoveFirst(s, x) = SubSeq(s, 1, p - 1) \o SubSeq(s, p + 1, Len(s))
    <3>1. I # {}
      BY <1>2
    <3> QED
      BY <1>2, <3>1 DEF RemoveFirst, RemoveAt, SelectInSeq
  <2> HIDE DEF p
  <2>3. Len(s) \in Nat /\ \A i \in 1..Len(s) : s[i] \in S
    BY LenProperties
  <2> DEFINE front == SubSeq(s, 1, p - 1)
             back == SubSeq(s, p + 1, Len(s))
  <2>4. front \in Seq(S) /\ Len(front) = p - 1 /\ \A i \in 1..(p - 1) : front[i] = s[i]
    <3>1. 1 \in Int /\ p - 1 \in Int /\ \A i \in 1..(p - 1) : s[i] \in S
      BY <2>1, <2>3
    <3> QED
      BY <2>1, <3>1, SubSeqProperties
  <2>5. back \in Seq(S) /\ Len(back) = Len(s) - p /\ \A i \in 1..(Len(s) - p) : back[i] = s[p + i]
    <3>1. p + 1 \in Int /\ Len(s) \in Int /\ \A i \in (p + 1)..Len(s) : s[i] \in S
      BY <2>1, <2>3
    <3> QED
      BY <2>1, <2>3, <3>1, SubSeqProperties
  <2> HIDE DEF front, back
  <2>6. /\ front \o back \in Seq(S) /\ Len(front \o back) = Len(s) - 1
        /\ \A i \in 1..(Len(s) - 1) : (front \o back)[i] = IF i <= p - 1 THEN front[i] ELSE back[i - (p - 1)]
    BY SMTT(30), <2>1, <2>3, <2>4, <2>5, ConcatProperties
  <2>7. ASSUME NEW i \in 1..(Len(s) - 1)
        PROVE  (front \o back)[i] = IF i < p THEN s[i] ELSE s[i + 1]
    <3>1. CASE i < p
      <4>1. i \in 1..(p - 1)
        BY <2>1, <2>3, <3>1
      <4> QED
        BY <2>1, <2>4, <2>6, <2>7, <3>1, <4>1
    <3>2. CASE ~(i < p)
      <4>1. i - (p - 1) \in 1..(Len(s) - p) /\ p + (i - (p - 1)) = i + 1 /\ ~(i <= p - 1)
        BY <2>1, <2>3, <3>2
      <4>2. back[i - (p - 1)] = s[i + 1]
        BY <2>5, <4>1
      <4> QED
        BY <2>6, <3>2, <4>1, <4>2
    <3> QED
      BY <3>1, <3>2
  <2>8. RemoveFirst(s, x) = front \o back
    BY <2>2 DEF front, back
  <2> QED
    BY <2>1, <2>6, <2>7, <2>8
<1> QED
  BY <1>1, <1>2

(***************************************************************************)
(* The cache                                                               *)
(***************************************************************************)
Key == Expert \cup {0}
Caches(n) == [key : [1..n -> Key], recent : Seq(1..n), slab : [1..n -> Key], unread : SUBSET Expert]

\* A slot has one expert, an expert one slot; and what has one is in the
\* order, once.
OneSlotEach(c) ==
    \A s, t \in DOMAIN c.key : c.key[s] = c.key[t] /\ c.key[s] # 0 => s = t
RecentIsTaken(c) ==
    /\ \A i, j \in 1..Len(c.recent) : c.recent[i] = c.recent[j] => i = j
    /\ \A s \in DOMAIN c.key : c.key[s] # 0 <=> \E i \in 1..Len(c.recent) : c.recent[i] = s

\* A slab holds what its slot is marked with, but for what could not be read.
Honest(c) == \A s \in DOMAIN c.key : c.key[s] # 0 => c.slab[s] = c.key[s] \/ c.key[s] \in c.unread

\* A cache is as large as its slabs are many.
LEMMA CapacityIs == ASSUME NEW n \in Nat, NEW c \in Caches(n) PROVE Capacity(c) = n /\ DOMAIN c.key = 1..n
<1>1. c.slab \in [1..n -> Key] /\ c.key \in [1..n -> Key]
  BY DEF Caches
<1>2. c.slab \in Seq(Key)
  BY <1>1, SeqDef
<1> QED
  BY <1>1, <1>2, LenProperties DEF Capacity

\* With no slot free, there are as many in the order as there are slots.
LEMMA FullIsAllRecent ==
    ASSUME NEW n \in Nat, NEW c \in Caches(n), RecentIsTaken(c), \A s \in 1..n : c.key[s] # 0
    PROVE  n <= Len(c.recent)
<1>1. c.recent \in [1..Len(c.recent) -> 1..n] /\ Len(c.recent) \in Nat
  BY LenProperties DEF Caches
<1>2. DOMAIN c.key = 1..n
  BY CapacityIs
<1>3. \A s \in 1..n : \E i \in 1..Len(c.recent) : c.recent[i] = s
  BY <1>2 DEF RecentIsTaken
<1>4. c.recent \in Surjection(1..Len(c.recent), 1..n)
  BY <1>1, <1>3 DEF Surjection
<1>5. Cardinality(1..Len(c.recent)) = Len(c.recent) /\ IsFiniteSet(1..Len(c.recent)) /\ Cardinality(1..n) = n
  BY <1>1, UpToCount
<1> QED
  BY <1>4, <1>5, FS_Surjection

\* Whom an expert is given the slot of: its own, one that is free, or the one
\* wanted longest ago, of as many as there are slots.
LEMMA SlotForIs ==
    ASSUME NEW n \in Nat \ {0}, NEW c \in Caches(n), RecentIsTaken(c), NEW x \in Expert
    PROVE  /\ SlotFor(c, x) \in 1..n
           /\ \/ c.key[SlotFor(c, x)] = x
              \/ ~Resides(c, x) /\ c.key[SlotFor(c, x)] = 0
              \/ ~Resides(c, x) /\ n <= Len(c.recent) /\ SlotFor(c, x) = c.recent[1]
<1>1. DOMAIN c.key = 1..n
  BY CapacityIs
<1>2. CASE Resides(c, x)
  <2>1. SlotOf(c, x) \in DOMAIN c.key /\ c.key[SlotOf(c, x)] = x
    BY <1>2 DEF Resides, SlotOf
  <2> QED
    BY <1>1, <1>2, <2>1 DEF SlotFor
<1>3. CASE ~Resides(c, x)
  <2> DEFINE free == {s \in DOMAIN c.key : c.key[s] = 0}
  <2>1. CASE free # {}
    <3>1. SlotFor(c, x) = Min(free)
      BY <1>3, <2>1 DEF SlotFor
    <3>2. free \in SUBSET Nat
      BY <1>1
    <3>3. Min(free) \in free
      BY <2>1, <3>2, MinIsIn
    <3> QED
      BY <1>1, <1>3, <3>1, <3>3
  <2>2. CASE free = {}
    <3>1. SlotFor(c, x) = Head(c.recent)
      BY <1>3, <2>2 DEF SlotFor, Victim
    <3>2. n <= Len(c.recent)
      BY <1>1, <2>2, FullIsAllRecent
    <3>3. c.recent \in Seq(1..n) /\ Len(c.recent) \in Nat
      BY LenProperties DEF Caches
    <3>4. Head(c.recent) = c.recent[1] /\ c.recent[1] \in 1..n
      BY <3>2, <3>3, LenProperties
    <3> QED
      BY <1>3, <3>1, <3>2, <3>4
  <2> QED
    BY <2>1, <2>2
<1> QED
  BY <1>2, <1>3

\* The order after a slot is wanted: the slot last, the rest as they were.
Wanting(recent, slot) == Append(RemoveFirst(recent, slot), slot)
IsWanting(n, recent, slot, now) ==
    /\ now \in Seq(1..n)
    /\ \A i, j \in 1..Len(now) : now[i] = now[j] => i = j
    /\ \A s \in 1..n : (\E i \in 1..Len(now) : now[i] = s)
                         <=> s = slot \/ \E i \in 1..Len(recent) : recent[i] = s
    /\ \A k \in 0..Len(recent) :
         (\A j \in 1..k : recent[Len(recent) - k + j] # slot) =>
             /\ k + 1 <= Len(now)
             /\ \A j \in 1..k : now[Len(now) - (k + 1) + j] = recent[Len(recent) - k + j]
    /\ now[Len(now)] = slot

\* What wanting a slot makes of the order is one.
LEMMA WantingIs ==
    ASSUME NEW n \in Nat, NEW recent \in Seq(1..n), NEW slot \in 1..n,
           \A i, j \in 1..Len(recent) : recent[i] = recent[j] => i = j
    PROVE  IsWanting(n, recent, slot, Wanting(recent, slot))
<1> DEFINE rest == RemoveFirst(recent, slot)
<1>0. Len(recent) \in Nat
  BY LenProperties
<1>1. /\ rest \in Seq(1..n)
      /\ \A i, j \in 1..Len(rest) : rest[i] = rest[j] => i = j
      /\ \A s \in 1..n : (\E i \in 1..Len(rest) : rest[i] = s)
                            <=> s # slot /\ \E i \in 1..Len(recent) : recent[i] = s
      /\ \A k \in 0..Len(recent) :
           (\A j \in 1..k : recent[Len(recent) - k + j] # slot) =>
               /\ k <= Len(rest)
               /\ \A j \in 1..k : rest[Len(rest) - k + j] = recent[Len(recent) - k + j]
  <2>1. CASE rest = recent /\ \A i \in 1..Len(recent) : recent[i] # slot
    BY <1>0, <2>1
  <2>2. CASE /\ rest \in Seq(1..n) /\ Len(rest) = Len(recent) - 1
             /\ \E p \in 1..Len(recent) :
                    /\ recent[p] = slot
                    /\ \A i \in 1..(Len(recent) - 1) : rest[i] = IF i < p THEN recent[i] ELSE recent[i + 1]
    <3>1. PICK p \in 1..Len(recent) :
                /\ recent[p] = slot
                /\ \A i \in 1..(Len(recent) - 1) : rest[i] = IF i < p THEN recent[i] ELSE recent[i + 1]
      BY <2>2
    <3> HIDE DEF rest
    <3>2. Len(rest) = Len(recent) - 1
      BY <2>2
    <3>3. ASSUME NEW i \in 1..Len(rest), NEW j \in 1..Len(rest), rest[i] = rest[j] PROVE i = j
      <4>1. rest[i] = recent[IF i < p THEN i ELSE i + 1] /\ rest[j] = recent[IF j < p THEN j ELSE j + 1]
        BY <1>0, <3>1, <3>2
      <4>2. (IF i < p THEN i ELSE i + 1) \in 1..Len(recent) /\ (IF j < p THEN j ELSE j + 1) \in 1..Len(recent)
        BY <1>0, <3>2
      <4>3. (IF i < p THEN i ELSE i + 1) = (IF j < p THEN j ELSE j + 1)
        BY <3>3, <4>1, <4>2
      <4> QED
        BY <1>0, <3>2, <4>3
    <3>4. ASSUME NEW i \in 1..Len(rest) PROVE rest[i] # slot /\ \E j \in 1..Len(recent) : recent[j] = rest[i]
      <4>1. rest[i] = recent[IF i < p THEN i ELSE i + 1]
        BY <1>0, <3>1, <3>2
      <4>2. (IF i < p THEN i ELSE i + 1) \in 1..Len(recent) /\ (IF i < p THEN i ELSE i + 1) # p
        BY <1>0, <3>2
      <4> QED
        BY <3>1, <4>1, <4>2
    <3>5. ASSUME NEW j \in 1..Len(recent), recent[j] # slot PROVE \E i \in 1..Len(rest) : rest[i] = recent[j]
      <4>1. CASE j < p
        BY <1>0, <3>1, <3>2, <4>1
      <4>2. CASE j > p
        <5>1. j - 1 \in 1..Len(rest) /\ rest[j - 1] = recent[j]
          BY <1>0, <3>1, <3>2, <4>2
        <5> QED
          BY <5>1
      <4> QED
        BY <1>0, <3>1, <3>5, <4>1, <4>2
    <3>6. ASSUME NEW k \in 0..Len(recent), \A j \in 1..k : recent[Len(recent) - k + j] # slot
          PROVE  /\ k <= Len(rest)
                 /\ \A j \in 1..k : rest[Len(rest) - k + j] = recent[Len(recent) - k + j]
      <4>1. p <= Len(recent) - k
        <5> SUFFICES ASSUME p > Len(recent) - k PROVE FALSE
          BY <1>0
        <5>1. p - (Len(recent) - k) \in 1..k /\ Len(recent) - k + (p - (Len(recent) - k)) = p
          BY <1>0
        <5> QED
          BY <3>1, <3>6, <5>1
      <4>2. k <= Len(rest)
        BY <1>0, <3>1, <3>2, <4>1
      <4>3. ASSUME NEW j \in 1..k PROVE rest[Len(rest) - k + j] = recent[Len(recent) - k + j]
        <5>1. /\ Len(rest) - k + j \in 1..(Len(recent) - 1) /\ ~(Len(rest) - k + j < p)
              /\ Len(rest) - k + j + 1 = Len(recent) - k + j
          BY <1>0, <3>1, <3>2, <4>1
        <5> QED
          BY <3>1, <5>1
      <4> QED
        BY <4>2, <4>3
    <3>7. \A s \in 1..n : (\E i \in 1..Len(rest) : rest[i] = s)
                             <=> s # slot /\ \E i \in 1..Len(recent) : recent[i] = s
      BY <3>4, <3>5
    <3> QED
      BY <2>2, <3>3, <3>6, <3>7
  <2> HIDE DEF rest
  <2> QED
    BY <2>1, <2>2, RemovingFirst DEF rest
<1> HIDE DEF rest
<1>2. PICK now : now = Wanting(recent, slot)
  OBVIOUS
<1>3. /\ now \in Seq(1..n) /\ Len(now) = Len(rest) + 1 /\ Len(rest) \in Nat
      /\ \A i \in 1..Len(rest) : now[i] = rest[i]
      /\ now[Len(rest) + 1] = slot
  BY <1>1, <1>2, AppendProperties, LenProperties DEF Wanting, rest
<1>4. \A i \in 1..Len(rest) : rest[i] \in 1..n /\ rest[i] # slot
  <2>1. \A i \in 1..Len(rest) : rest[i] \in 1..n
    BY <1>1, LenProperties
  <2> QED
    BY <1>1, <2>1
<1>5. ASSUME NEW i \in 1..Len(now), NEW j \in 1..Len(now), now[i] = now[j] PROVE i = j
  <2>1. i \in 1..Len(rest) \/ i = Len(rest) + 1
    BY <1>3
  <2>2. j \in 1..Len(rest) \/ j = Len(rest) + 1
    BY <1>3
  <2>3. CASE i \in 1..Len(rest) /\ j \in 1..Len(rest)
    <3>1. rest[i] = rest[j]
      BY <1>3, <1>5, <2>3
    <3> QED
      BY <1>1, <2>3, <3>1
  <2>4. CASE i = Len(rest) + 1 /\ j = Len(rest) + 1
    BY <2>4
  <2>5. CASE i \in 1..Len(rest) /\ j = Len(rest) + 1
    BY <1>3, <1>4, <1>5, <2>5
  <2>6. CASE i = Len(rest) + 1 /\ j \in 1..Len(rest)
    BY <1>3, <1>4, <1>5, <2>6
  <2> QED
    BY <2>1, <2>2, <2>3, <2>4, <2>5, <2>6
<1>6. ASSUME NEW s \in 1..n
      PROVE  (\E i \in 1..Len(now) : now[i] = s) <=> s = slot \/ \E i \in 1..Len(recent) : recent[i] = s
  <2>1. (\E i \in 1..Len(now) : now[i] = s) <=> s = slot \/ \E i \in 1..Len(rest) : rest[i] = s
    <3>1. 1..Len(now) = 1..Len(rest) \cup {Len(rest) + 1}
      BY <1>3
    <3> QED
      BY <1>3, <3>1
  <2> QED
    BY <1>1, <2>1
<1>7. ASSUME NEW k \in 0..Len(recent), \A j \in 1..k : recent[Len(recent) - k + j] # slot
      PROVE  /\ k + 1 <= Len(now)
             /\ \A j \in 1..k : now[Len(now) - (k + 1) + j] = recent[Len(recent) - k + j]
  <2>1. k <= Len(rest) /\ \A j \in 1..k : rest[Len(rest) - k + j] = recent[Len(recent) - k + j]
    BY <1>1, <1>7
  <2>2. ASSUME NEW j \in 1..k PROVE now[Len(now) - (k + 1) + j] = rest[Len(rest) - k + j]
    <3>1. Len(now) - (k + 1) + j = Len(rest) - k + j /\ Len(rest) - k + j \in 1..Len(rest)
      BY <1>0, <1>3, <2>1
    <3> QED
      BY <1>3, <3>1
  <2>3. k + 1 <= Len(now)
    <3>1. k \in Nat /\ Len(rest) \in Nat /\ Len(now) = Len(rest) + 1 /\ k <= Len(rest)
      BY <1>0, <1>3, <2>1
    <3> QED
      BY <3>1
  <2>4. \A j \in 1..k : now[Len(now) - (k + 1) + j] = recent[Len(recent) - k + j]
    BY <2>1, <2>2
  <2> QED
    BY <2>3, <2>4
<1> QED
  BY <1>2, <1>3, <1>5, <1>6, <1>7 DEF IsWanting

(***************************************************************************)
(* A group, one expert after another                                       *)
(***************************************************************************)

\* What has been touched of a group: each is in the slot it was found in, and
\* those are the last of the order; whatever is new in a slot was missed.
SoFar(c, group, i, now) ==
    LET n == Capacity(c)
        recent == now.cache.recent
    IN  /\ now.cache \in Caches(n) /\ OneSlotEach(now.cache) /\ RecentIsTaken(now.cache)
        /\ now.cache.slab = c.slab /\ now.cache.unread = c.unread
        /\ now.found \in Seq(Expert \X (1..n)) /\ Len(now.found) = i
        /\ \A j \in 1..i : now.found[j][1] = group[j] /\ now.cache.key[now.found[j][2]] = group[j]
        /\ i <= Len(recent)
        /\ \A j \in 1..i : recent[Len(recent) - i + j] = now.found[j][2]
        /\ \A x \in now.misses : \E j \in 1..i : group[j] = x
        /\ \A s \in 1..n : now.cache.key[s] = c.key[s] \/ now.cache.key[s] \in now.misses

\* The slot the next is given is not one of theirs.
LEMMA NextSlotIsNobodys ==
    ASSUME NEW n \in Nat \ {0}, NEW c \in Caches(n), NEW group \in Seq(Expert), Len(group) <= n,
           \A j, k \in 1..Len(group) : group[j] = group[k] => j = k,
           NEW i \in 0..(Len(group) - 1), NEW now, SoFar(c, group, i, now)
    PROVE  /\ SlotFor(now.cache, group[i + 1]) \in 1..n
           /\ \A j \in 1..i : now.found[j][2] # SlotFor(now.cache, group[i + 1])
<1> DEFINE x == group[i + 1]
           slot == SlotFor(now.cache, x)
<1>1. Capacity(c) = n
  BY CapacityIs
<1>2. /\ now.cache \in Caches(n) /\ RecentIsTaken(now.cache)
      /\ now.found \in Seq(Expert \X (1..n)) /\ Len(now.found) = i
      /\ \A j \in 1..i : now.cache.key[now.found[j][2]] = group[j]
      /\ i <= Len(now.cache.recent)
      /\ \A j \in 1..i : now.cache.recent[Len(now.cache.recent) - i + j] = now.found[j][2]
  BY <1>1 DEF SoFar
<1>3. Len(group) \in Nat /\ \A j \in 1..Len(group) : group[j] \in Expert /\ group[j] # 0
  <2>1. 0 \notin Expert
    BY ExpertsAssumption
  <2> QED
    BY <2>1, LenProperties
<1>4. x \in Expert /\ x # 0 /\ \A j \in 1..i : group[j] # x /\ group[j] # 0
  <2>1. i + 1 \in 1..Len(group)
    BY <1>3
  <2>2. ASSUME NEW j \in 1..i PROVE group[j] # x /\ group[j] # 0
    <3>1. j \in 1..Len(group) /\ j # i + 1
      BY <1>3
    <3> QED
      BY <1>3, <2>1, <3>1
  <2> QED
    BY <1>3, <2>1, <2>2
<1>5. /\ slot \in 1..n
      /\ \/ now.cache.key[slot] = x
         \/ now.cache.key[slot] = 0
         \/ n <= Len(now.cache.recent) /\ slot = now.cache.recent[1]
  BY <1>2, <1>4, SlotForIs
<1>6. ASSUME NEW j \in 1..i, now.found[j][2] = slot PROVE FALSE
  <2>1. now.cache.key[slot] = group[j]
    BY <1>2, <1>6
  <2>2. n <= Len(now.cache.recent) /\ slot = now.cache.recent[1]
    BY <1>4, <1>5, <2>1
  <2> DEFINE l == Len(now.cache.recent)
  <2>3. l \in Nat
    BY <1>2, LenProperties DEF Caches
  <2>4. now.cache.recent[l - i + j] = now.cache.recent[1]
    BY <1>2, <1>6, <2>2
  <2>5. l - i + j \in 1..l /\ 1 \in 1..l /\ l - i + j # 1
    BY <1>3, <2>2, <2>3
  <2> QED
    BY <1>2, <2>4, <2>5 DEF RecentIsTaken
<1> QED
  BY <1>5, <1>6

\* One more of a group is touched.
LEMMA TouchingOne ==
    ASSUME NEW n \in Nat \ {0}, NEW c \in Caches(n), NEW group \in Seq(Expert), Len(group) <= n,
           \A j, k \in 1..Len(group) : group[j] = group[k] => j = k,
           NEW i \in 0..(Len(group) - 1), NEW now, SoFar(c, group, i, now)
    PROVE  SoFar(c, group, i + 1, TouchNext(now, group[i + 1]))
<1>1. PICK x, slot, then :
        /\ x = group[i + 1] /\ slot = SlotFor(now.cache, x) /\ then = TouchNext(now, x)
  OBVIOUS
<1>2. Capacity(c) = n
  BY CapacityIs
<1>3. slot \in 1..n /\ \A j \in 1..i : now.found[j][2] # slot
  BY <1>1, NextSlotIsNobodys
<1>4. /\ now.cache \in Caches(n) /\ OneSlotEach(now.cache) /\ RecentIsTaken(now.cache)
      /\ now.cache.slab = c.slab /\ now.cache.unread = c.unread
      /\ now.found \in Seq(Expert \X (1..n)) /\ Len(now.found) = i
      /\ \A j \in 1..i : now.found[j][1] = group[j] /\ now.cache.key[now.found[j][2]] = group[j]
      /\ i <= Len(now.cache.recent)
      /\ \A j \in 1..i : now.cache.recent[Len(now.cache.recent) - i + j] = now.found[j][2]
      /\ \A y \in now.misses : \E j \in 1..i : group[j] = y
      /\ \A s \in 1..n : now.cache.key[s] = c.key[s] \/ now.cache.key[s] \in now.misses
  BY <1>2 DEF SoFar
<1>5. x \in Expert /\ x # 0 /\ i + 1 \in 1..Len(group) /\ Len(group) \in Nat
  <2>1. Len(group) \in Nat /\ i + 1 \in 1..Len(group)
    BY LenProperties
  <2> QED
    BY <1>1, <2>1, ElementOfSeq, ExpertsAssumption
<1>6. /\ then.cache = Touch(now.cache, x)
      /\ then.found = Append(now.found, <<x, slot>>)
      /\ then.misses = IF Resides(now.cache, x) THEN now.misses ELSE now.misses \cup {x}
  BY <1>1 DEF TouchNext
<1>7. PICK key, recent : key = [now.cache.key EXCEPT ![slot] = x] /\ recent = Wanting(now.cache.recent, slot)
  BY ZenonT(40)
<1>8. /\ then.cache = [now.cache EXCEPT !.key = key, !.recent = recent]
      /\ now.cache.key \in [1..n -> Key] /\ now.cache.recent \in Seq(1..n)
      /\ now.cache.slab \in [1..n -> Key] /\ now.cache.unread \in SUBSET Expert
  BY <1>1, <1>4, <1>6, <1>7 DEF Touch, Wanting, Caches
<1>9. /\ recent \in Seq(1..n)
      /\ \A j, k \in 1..Len(recent) : recent[j] = recent[k] => j = k
      /\ \A s \in 1..n : (\E j \in 1..Len(recent) : recent[j] = s)
                            <=> s = slot \/ \E j \in 1..Len(now.cache.recent) : now.cache.recent[j] = s
      /\ i + 1 <= Len(recent)
      /\ \A j \in 1..i : recent[Len(recent) - (i + 1) + j] = now.found[j][2]
      /\ recent[Len(recent)] = slot
  <2>1. \A j, k \in 1..Len(now.cache.recent) : now.cache.recent[j] = now.cache.recent[k] => j = k
    BY <1>4 DEF RecentIsTaken
  <2>2. i \in 0..Len(now.cache.recent)
    BY <1>4, <1>8, LenProperties
  <2>3. PICK old : old = now.cache.recent
    OBVIOUS
  <2>4. \A j \in 1..i : old[Len(old) - i + j] = now.found[j][2]
    BY <1>4, <2>3
  <2>5. \A j \in 1..i : old[Len(old) - i + j] # slot
    BY <1>3, <2>4
  <2>6. /\ recent \in Seq(1..n)
        /\ \A j, k \in 1..Len(recent) : recent[j] = recent[k] => j = k
        /\ \A s \in 1..n : (\E j \in 1..Len(recent) : recent[j] = s)
                              <=> s = slot \/ \E j \in 1..Len(old) : old[j] = s
        /\ i + 1 <= Len(recent)
        /\ \A j \in 1..i : recent[Len(recent) - (i + 1) + j] = old[Len(old) - i + j]
        /\ recent[Len(recent)] = slot
    <3>1. old \in Seq(1..n) /\ recent = Wanting(old, slot) /\ i \in 0..Len(old)
      BY <1>7, <1>8, <2>2, <2>3
    <3>2. \A j, k \in 1..Len(old) : old[j] = old[k] => j = k
      BY <2>1, <2>3
    <3>3. IsWanting(n, old, slot, recent)
      BY <1>3, <3>1, <3>2, WantingIs
    <3> QED
      BY <2>5, <3>1, <3>3 DEF IsWanting
  <2>7. \A j \in 1..i : recent[Len(recent) - (i + 1) + j] = now.found[j][2]
    BY <2>4, <2>6
  <2> QED
    BY <2>3, <2>6, <2>7
<1>10. /\ key \in [1..n -> Key] /\ key[slot] = x
       /\ \A s \in 1..n : s # slot => key[s] = now.cache.key[s]
  BY <1>3, <1>5, <1>7, <1>8 DEF Key
<1>11. /\ then.cache.key = key /\ then.cache.recent = recent
       /\ then.cache.slab = now.cache.slab /\ then.cache.unread = now.cache.unread
       /\ then.cache \in Caches(n)
  BY ZenonT(40), <1>4, <1>8, <1>9, <1>10 DEF Caches
<1>12. \A s \in 1..n : now.cache.key[s] = x => s = slot
  <2> SUFFICES ASSUME NEW s \in 1..n, now.cache.key[s] = x PROVE s = slot
    OBVIOUS
  <2>1. DOMAIN now.cache.key = 1..n
    BY <1>8
  <2>2. Resides(now.cache, x)
    BY <2>1 DEF Resides
  <2>3. now.cache.key[slot] = x
    BY <1>1, <1>4, <1>5, <2>2, SlotForIs
  <2>4. \A t \in 1..n : now.cache.key[s] = now.cache.key[t] /\ now.cache.key[s] # 0 => s = t
    BY <1>4, <2>1 DEF OneSlotEach
  <2> QED
    BY <1>3, <1>5, <2>3, <2>4
<1>13. OneSlotEach(then.cache)
  <2> SUFFICES ASSUME NEW s \in 1..n, NEW t \in 1..n, key[s] = key[t], key[s] # 0 PROVE s = t
    BY <1>10, <1>11 DEF OneSlotEach
  <2>1. DOMAIN now.cache.key = 1..n
    BY <1>8
  <2>2. now.cache.key[s] = now.cache.key[t] /\ now.cache.key[s] # 0 => s = t
    BY <1>4, <2>1 DEF OneSlotEach
  <2>3. CASE s # slot /\ t # slot
    BY <1>10, <2>2, <2>3
  <2>4. CASE s = slot /\ t # slot
    <3>1. now.cache.key[t] = x
      BY <1>10, <2>4
    <3> QED
      BY <1>12, <2>4, <3>1
  <2>5. CASE s # slot /\ t = slot
    <3>1. now.cache.key[s] = x
      BY <1>10, <2>5
    <3> QED
      BY <1>12, <2>5, <3>1
  <2> QED
    BY <2>3, <2>4, <2>5
<1>14. RecentIsTaken(then.cache)
  <2> SUFFICES ASSUME NEW s \in 1..n PROVE key[s] # 0 <=> \E j \in 1..Len(recent) : recent[j] = s
    BY SMTT(30), <1>9, <1>10, <1>11 DEF RecentIsTaken
  <2>1. DOMAIN now.cache.key = 1..n
    BY <1>8
  <2>2. now.cache.key[s] # 0 <=> \E j \in 1..Len(now.cache.recent) : now.cache.recent[j] = s
    BY <1>4, <2>1 DEF RecentIsTaken
  <2> QED
    BY <1>5, <1>9, <1>10, <2>2
<1>15. /\ then.found \in Seq(Expert \X (1..n)) /\ Len(then.found) = i + 1
       /\ \A j \in 1..i : then.found[j] = now.found[j]
       /\ then.found[i + 1] = <<x, slot>>
  <2>1. <<x, slot>> \in Expert \X (1..n)
    BY <1>3, <1>5
  <2> QED
    BY <1>4, <1>6, <2>1, AppendProperties
<1>16. ASSUME NEW j \in 1..(i + 1)
       PROVE  /\ then.found[j][1] = group[j] /\ key[then.found[j][2]] = group[j]
              /\ recent[Len(recent) - (i + 1) + j] = then.found[j][2]
  <2>1. CASE j = i + 1
    <3>1. Len(recent) - (i + 1) + j = Len(recent)
      BY <1>9, <2>1, LenProperties
    <3>2. then.found[j] = <<x, slot>> /\ x = group[j]
      BY <1>1, <1>15, <2>1
    <3>3. then.found[j][1] = x /\ then.found[j][2] = slot
      BY <3>2
    <3>4. key[slot] = x /\ recent[Len(recent) - (i + 1) + j] = slot
      BY <1>9, <1>10, <3>1
    <3> QED
      BY <3>2, <3>3, <3>4
  <2>2. CASE j # i + 1
    <3>1. j \in 1..i
      BY <2>2
    <3>2. now.found[j][2] \in 1..n
      BY <1>4, <3>1, ElementOfSeq
    <3>3. key[now.found[j][2]] = now.cache.key[now.found[j][2]]
      BY <1>3, <1>10, <3>1, <3>2
    <3>4. now.found[j][1] = group[j] /\ now.cache.key[now.found[j][2]] = group[j]
      BY <1>4, <3>1
    <3>5. recent[Len(recent) - (i + 1) + j] = now.found[j][2]
      BY <1>9, <3>1
    <3> QED
      BY <1>15, <3>1, <3>3, <3>4, <3>5
  <2> QED
    BY <2>1, <2>2
<1>17. ASSUME NEW y \in then.misses PROVE \E j \in 1..(i + 1) : group[j] = y
  <2>1. y = x \/ y \in now.misses
    BY <1>6
  <2>2. i + 1 \in 1..(i + 1) /\ 1..i \subseteq 1..(i + 1)
    OBVIOUS
  <2> QED
    BY <1>1, <1>4, <2>1, <2>2
<1>18. ASSUME NEW s \in 1..n PROVE key[s] = c.key[s] \/ key[s] \in then.misses
  <2>1. CASE s # slot
    BY ZenonT(40), <1>4, <1>6, <1>10, <2>1
  <2>2. CASE s = slot /\ ~Resides(now.cache, x)
    BY <1>6, <1>10, <2>2
  <2>3. CASE s = slot /\ Resides(now.cache, x)
    <3>1. now.cache.key[slot] = x
      BY <1>1, <1>4, <1>5, <2>3, SlotForIs
    <3> QED
      BY <1>3, <1>4, <1>6, <1>10, <2>3, <3>1
  <2> QED
    BY <2>1, <2>2, <2>3
<1>19. SoFar(c, group, i + 1, then)
  BY <1>2, <1>4, <1>9, <1>11, <1>13, <1>14, <1>15, <1>16, <1>17, <1>18 DEF SoFar
<1> QED
  BY <1>1, <1>19

(***************************************************************************)
(* The whole group. That there is such a function is shown for the first   *)
(* so many, each from the one before.                                      *)
(***************************************************************************)
First(cache) == [cache |-> cache, found |-> <<>>, misses |-> {}]
IsTouching(f, cache, group, n) ==
    f = [k \in 0..n |-> IF k = 0 THEN First(cache) ELSE TouchNext(f[k - 1], group[k])]

LEMMA HasTouching == ASSUME NEW cache, NEW group, NEW n \in Nat PROVE \E f : IsTouching(f, cache, group, n)
<1> DEFINE bad == {k \in Nat : \A f : ~IsTouching(f, cache, group, k)}
<1> SUFFICES ASSUME bad # {} PROVE FALSE
  OBVIOUS
<1>1. PICK k \in bad : \A l \in bad : k <= l
  <2>1. bad \in SUBSET Nat
    OBVIOUS
  <2> HIDE DEF bad
  <2> QED
    BY <2>1, HasLeast
<1>2. k # 0
  <2> SUFFICES ASSUME k = 0 PROVE FALSE
    OBVIOUS
  <2> DEFINE f == [j \in 0..0 |-> First(cache)]
  <2>1. IsTouching(f, cache, group, 0)
    BY DEF IsTouching
  <2> QED
    BY <1>1, <2>1
<1>3. k - 1 \in Nat /\ k - 1 \notin bad
  BY <1>1, <1>2
<1>4. PICK f : IsTouching(f, cache, group, k - 1)
  BY <1>3
<1> DEFINE g == [j \in 0..k |-> IF j = k THEN TouchNext(f[k - 1], group[k]) ELSE f[j]]
<1>5. ASSUME NEW j \in 0..k PROVE g[j] = IF j = 0 THEN First(cache) ELSE TouchNext(g[j - 1], group[j])
  <2>1. CASE j = k
    <3>1. g[j - 1] = f[k - 1] /\ j # 0
      BY <1>2, <1>3, <2>1
    <3> QED
      BY <2>1, <3>1
  <2>2. CASE j # k
    <3>1. j \in 0..(k - 1)
      BY <1>3, <2>2
    <3>2. f[j] = IF j = 0 THEN First(cache) ELSE TouchNext(f[j - 1], group[j])
      BY <1>4, <3>1 DEF IsTouching
    <3>3. g[j] = f[j] /\ (j # 0 => g[j - 1] = f[j - 1])
      BY <1>3, <2>2, <3>1
    <3> QED
      BY <3>2, <3>3
  <2> QED
    BY <2>1, <2>2
<1>6. IsTouching(g, cache, group, k)
  <2>1. g = [j \in 0..k |-> g[j]]
    OBVIOUS
  <2> HIDE DEF g
  <2> QED
    BY <1>5, <2>1 DEF IsTouching
<1> QED
  BY <1>1, <1>6

\* A group no larger than the cache: every one of it is found where it is, in
\* the cache that has touched them all.
LEMMA TouchedIs ==
    ASSUME NEW n \in Nat \ {0}, NEW c \in Caches(n), OneSlotEach(c), RecentIsTaken(c),
           NEW group \in Seq(Expert), Len(group) <= n,
           \A j, k \in 1..Len(group) : group[j] = group[k] => j = k
    PROVE  SoFar(c, group, Len(group), Touched(c, group))
<1>1. Len(group) \in Nat
  BY LenProperties
<1>2. PICK f : IsTouching(f, c, group, Len(group)) /\ Touched(c, group) = f[Len(group)]
  <2> DEFINE f == CHOOSE f : IsTouching(f, c, group, Len(group))
  <2>1. IsTouching(f, c, group, Len(group))
    BY <1>1, HasTouching
  <2>2. Touched(c, group) = f[Len(group)]
    BY DEF Touched, IsTouching, First
  <2> QED
    BY <2>1, <2>2
<1> DEFINE bad == {k \in 0..Len(group) : ~SoFar(c, group, k, f[k])}
<1> SUFFICES ASSUME bad # {} PROVE FALSE
  BY <1>1, <1>2
<1>3. PICK k \in bad : \A l \in bad : k <= l
  <2>1. bad \in SUBSET Nat
    BY <1>1
  <2> HIDE DEF bad
  <2> QED
    BY <2>1, HasLeast
<1>4. SoFar(c, group, 0, First(c))
  <2>1. Capacity(c) = n
    BY CapacityIs
  <2>2. Len(c.recent) \in Nat
    BY LenProperties DEF Caches
  <2>3. 1..0 = {} /\ Len(<<>>) = 0 /\ <<>> \in Seq(Expert \X (1..n))
    OBVIOUS
  <2>4. First(c).cache = c /\ First(c).found = <<>> /\ First(c).misses = {}
    BY DEF First
  <2>5. PICK u : u = First(c)
    OBVIOUS
  <2>6. /\ u.cache \in Caches(n) /\ OneSlotEach(u.cache) /\ RecentIsTaken(u.cache)
        /\ u.cache.slab = c.slab /\ u.cache.unread = c.unread /\ u.cache.key = c.key
        /\ u.found \in Seq(Expert \X (1..n)) /\ Len(u.found) = 0
        /\ 0 <= Len(u.cache.recent) /\ u.misses = {}
    <3>1. u.cache = c /\ u.found = <<>> /\ u.misses = {}
      BY <2>4, <2>5
    <3> QED
      BY <2>2, <2>3, <3>1
  <2>7. \A j : j \notin 1..0
    BY <2>3
  <2>8. SoFar(c, group, 0, u)
    BY <2>1, <2>6, <2>7, Zenon DEF SoFar
  <2> QED
    BY <2>5, <2>8
<1>5. k # 0
  BY <1>1, <1>2, <1>3, <1>4 DEF IsTouching
<1>6. k - 1 \in 0..(Len(group) - 1) /\ f[k] = TouchNext(f[k - 1], group[k]) /\ k - 1 \notin bad
  BY <1>1, <1>2, <1>3, <1>5 DEF IsTouching
<1>7. SoFar(c, group, k - 1, f[k - 1])
  BY <1>1, <1>6
<1>8. SoFar(c, group, (k - 1) + 1, TouchNext(f[k - 1], group[(k - 1) + 1]))
  BY <1>6, <1>7, TouchingOne
<1> QED
  BY <1>1, <1>3, <1>6, <1>8

(***************************************************************************)
(* A group that is read, or some of it                                     *)
(***************************************************************************)
Kept(c) == OneSlotEach(c) /\ RecentIsTaken(c) /\ Honest(c)
Distinct(group) == \A j, k \in 1..Len(group) : group[j] = group[k] => j = k

\* What a group is read into: `read` of what was missed is there, of `part` a
\* part, and what is not read is remembered.
ReadInto(c, group, read, part) ==
    LET touched == Touched(c, group)
    IN  [Filled(touched.cache, read, part) EXCEPT !.unread = @ \cup (touched.misses \ read)]

IsRead(c, group, then) ==
    /\ Kept(then)
    /\ \A x \in c.unread : x \in then.unread \/ \E j \in 1..Len(group) : group[j] = x
    /\ \A j \in 1..Len(group) : then.key[Touched(c, group).found[j][2]] = group[j]

\* However much of a group is read, the cache is kept as it should be, and
\* nothing is forgotten of what was not read but what was wanted now.
LEMMA GroupIsRead ==
    ASSUME NEW n \in Nat \ {0}, NEW c \in Caches(n), Kept(c), NEW group \in Seq(Expert), Len(group) <= n,
           Distinct(group), NEW read \in SUBSET Touched(c, group).misses,
           NEW part \in SUBSET (Touched(c, group).misses \ read)
    PROVE  ReadInto(c, group, read, part) \in Caches(n) /\ IsRead(c, group, ReadInto(c, group, read, part))
<1>1. PICK touched, then : touched = Touched(c, group) /\ then = ReadInto(c, group, read, part)
  OBVIOUS
<1>2. SoFar(c, group, Len(group), touched)
  BY <1>1, TouchedIs DEF Kept, Distinct
<1>3. Capacity(c) = n
  BY CapacityIs
<1>4. /\ touched.cache \in Caches(n) /\ OneSlotEach(touched.cache) /\ RecentIsTaken(touched.cache)
      /\ touched.cache.slab = c.slab /\ touched.cache.unread = c.unread
      /\ \A j \in 1..Len(group) : touched.cache.key[touched.found[j][2]] = group[j]
      /\ \A x \in touched.misses : \E j \in 1..Len(group) : group[j] = x
      /\ \A s \in 1..n : touched.cache.key[s] = c.key[s] \/ touched.cache.key[s] \in touched.misses
  BY <1>2, <1>3 DEF SoFar
<1>5. touched.misses \subseteq Expert /\ read \subseteq touched.misses /\ part \subseteq touched.misses \ read
  BY <1>1, <1>4, ElementOfSeq
<1> DEFINE key == touched.cache.key
           slab == [s \in 1..n |-> IF key[s] \in read THEN key[s] ELSE IF key[s] \in part THEN 0 ELSE c.slab[s]]
           unread == (c.unread \ read) \cup (touched.misses \ read)
<1>6. key \in [1..n -> Key] /\ c.slab \in [1..n -> Key] /\ c.unread \subseteq Expert /\ c.key \in [1..n -> Key]
  BY <1>4 DEF Caches
<1>7. then = [touched.cache EXCEPT !.slab = slab, !.unread = unread]
  BY ZenonT(40), <1>1, <1>4, <1>6 DEF ReadInto, Filled, Caches
<1>8. slab \in [1..n -> Key] /\ unread \in SUBSET Expert
  BY <1>5, <1>6 DEF Key
<1>9. ASSUME NEW s \in 1..n, key[s] # 0 PROVE slab[s] = key[s] \/ key[s] \in unread
  <2>1. CASE key[s] \in touched.misses
    BY <2>1
  <2>2. CASE key[s] \notin touched.misses
    <3>1. key[s] = c.key[s] /\ DOMAIN c.key = 1..n
      BY <1>4, <1>6, <2>2
    <3>2. c.slab[s] = c.key[s] \/ c.key[s] \in c.unread
      BY <1>9, <3>1 DEF Kept, Honest
    <3> QED
      BY <1>5, <2>2, <3>1, <3>2
  <2> QED
    BY <2>1, <2>2
<1>10. PICK k, sl, un : k = key /\ sl = slab /\ un = unread
  OBVIOUS
<1> HIDE DEF key, slab, unread
<1>11. /\ then \in Caches(n) /\ then.key = k /\ then.recent = touched.cache.recent
       /\ then.slab = sl /\ then.unread = un
  BY <1>4, <1>7, <1>8, <1>10 DEF Caches, key
<1>12. Kept(then)
  <2>1. OneSlotEach(then) /\ RecentIsTaken(then)
    BY <1>4, <1>10, <1>11 DEF OneSlotEach, RecentIsTaken, key
  <2>2. Honest(then)
    BY <1>6, <1>9, <1>10, <1>11 DEF Honest
  <2> QED
    BY <2>1, <2>2 DEF Kept
<1>13. ASSUME NEW x \in c.unread PROVE x \in un \/ \E j \in 1..Len(group) : group[j] = x
  BY <1>4, <1>5, <1>10 DEF unread
<1>14. \A j \in 1..Len(group) : k[touched.found[j][2]] = group[j]
  BY <1>4, <1>10 DEF key
<1> QED
  BY <1>1, <1>11, <1>12, <1>13, <1>14 DEF IsRead

(***************************************************************************)
(* The pass                                                                *)
(***************************************************************************)

\* What has been run, and what is still to be, is what was chosen, in order.
Goes(p) ==
    /\ p.chosen \in SUBSET Expert /\ p.ran \in Seq(Expert \X Key) /\ p.todo \in Seq(Expert)
    /\ Len(p.ran) + Len(p.todo) = Len(InOrder(p.chosen))
    /\ \A i \in 1..Len(p.ran) : p.ran[i][1] = InOrder(p.chosen)[i]
    /\ \A i \in 1..Len(p.todo) : p.todo[i] = InOrder(p.chosen)[Len(p.ran) + i]

\* What is chosen is put in order, each once.
LEMMA ChosenInOrder ==
    ASSUME NEW chosen \in SUBSET Expert
    PROVE  /\ InOrder(chosen) \in Seq(chosen) /\ InOrder(chosen) \in Seq(Expert)
           /\ Len(InOrder(chosen)) \in Nat
           /\ Ascends(InOrder(chosen)) /\ DOMAIN InOrder(chosen) = 1..Len(InOrder(chosen))
           /\ \A x \in chosen : \E i \in 1..Len(InOrder(chosen)) : InOrder(chosen)[i] = x
           /\ Distinct(InOrder(chosen))
<1>1. chosen \in SUBSET Nat /\ IsFiniteSet(chosen)
  BY ExpertsAssumption, NoLarger
<1>2. InOrder(chosen) \in Seq(chosen)
  BY <1>1, OrderIsAll
<1>3. InOrder(chosen) \in Seq(Expert)
  BY <1>2, SeqMonotonic
<1> QED
  BY <1>1, <1>2, <1>3, OrderIsAll, LenProperties DEF Distinct

\* A pass goes on: the next `k` have been run.
LEMMA GoesOn ==
    ASSUME NEW p, NEW q, Goes(p), NEW k \in 0..Len(p.todo), NEW new \in Seq(Expert \X Key), Len(new) = k,
           \A i \in 1..k : new[i][1] = p.todo[i],
           q.chosen = p.chosen, q.ran = p.ran \o new, q.todo \in Seq(Expert), Len(q.todo) = Len(p.todo) - k,
           \A i \in 1..Len(q.todo) : q.todo[i] = p.todo[k + i]
    PROVE  Goes(q)
<1>1. PICK ran, todo, whole : ran = p.ran /\ todo = p.todo /\ whole = InOrder(p.chosen)
  OBVIOUS
<1>2. /\ p.chosen \in SUBSET Expert /\ ran \in Seq(Expert \X Key) /\ todo \in Seq(Expert)
      /\ Len(ran) \in Nat /\ Len(todo) \in Nat /\ Len(whole) \in Nat
      /\ Len(ran) + Len(todo) = Len(whole)
      /\ \A i \in 1..Len(ran) : ran[i][1] = whole[i]
      /\ \A i \in 1..Len(todo) : todo[i] = whole[Len(ran) + i]
  BY <1>1, ChosenInOrder, LenProperties DEF Goes
<1>a. k \in Nat /\ k <= Len(todo) /\ Len(q.todo) = Len(todo) - k
  <2>1. PICK n : n = Len(todo) /\ n \in Nat
    BY <1>2
  <2>2. k \in 0..n /\ Len(q.todo) = n - k
    BY <1>1, <2>1
  <2> QED
    BY <2>1, <2>2
<1>3. /\ q.ran \in Seq(Expert \X Key) /\ Len(q.ran) = Len(ran) + k
      /\ \A i \in 1..(Len(ran) + k) : q.ran[i] = IF i <= Len(ran) THEN ran[i] ELSE new[i - Len(ran)]
  <2>1. q.ran = ran \o new
    BY <1>1
  <2>2. /\ ran \o new \in Seq(Expert \X Key) /\ Len(ran \o new) = Len(ran) + Len(new)
        /\ \A i \in 1..(Len(ran) + Len(new)) :
            (ran \o new)[i] = IF i <= Len(ran) THEN ran[i] ELSE new[i - Len(ran)]
    <3>1. PICK T : T = Expert \X Key
      OBVIOUS
    <3>2. ran \in Seq(T) /\ new \in Seq(T)
      BY <1>2, <3>1
    <3>3. /\ ran \o new \in Seq(T) /\ Len(ran \o new) = Len(ran) + Len(new)
          /\ \A i \in 1..(Len(ran) + Len(new)) :
              (ran \o new)[i] = IF i <= Len(ran) THEN ran[i] ELSE new[i - Len(ran)]
      BY <3>2, ConcatProperties
    <3> QED
      BY <3>1, <3>3
  <2> QED
    BY <2>1, <2>2
<1>4. ASSUME NEW i \in 1..Len(q.ran) PROVE q.ran[i][1] = whole[i]
  <2>1. CASE i <= Len(ran)
    BY SMTT(30), <1>2, <1>3, <2>1
  <2>2. CASE i > Len(ran)
    <3>1. i - Len(ran) \in 1..k /\ i - Len(ran) \in 1..Len(todo) /\ Len(ran) + (i - Len(ran)) = i
      BY SMTT(30), <1>1, <1>2, <1>3, <2>2
    <3>2. q.ran[i] = new[i - Len(ran)] /\ new[i - Len(ran)][1] = todo[i - Len(ran)]
      BY SMTT(30), <1>1, <1>2, <1>3, <2>2, <3>1
    <3> QED
      BY <1>2, <3>1, <3>2
  <2> QED
    BY SMTT(30), <1>2, <1>3, <2>1, <2>2
<1>5. ASSUME NEW i \in 1..Len(q.todo) PROVE q.todo[i] = whole[Len(q.ran) + i]
  <2>1. k + i \in 1..Len(todo) /\ Len(ran) + (k + i) = Len(q.ran) + i
    BY SMTT(30), <1>2, <1>a, <1>3
  <2> QED
    BY ZenonT(40), <1>1, <1>2, <2>1
<1>6. Len(q.ran) + Len(q.todo) = Len(whole)
  <2>1. Len(q.ran) = Len(ran) + k /\ Len(q.todo) = Len(todo) - k
    BY <1>3, <1>a
  <2>2. Len(ran) \in Nat /\ Len(todo) \in Nat /\ k \in Nat /\ Len(ran) + Len(todo) = Len(whole)
    BY <1>2, <1>a
  <2>3. PICK l, m, w : l = Len(ran) /\ m = Len(todo) /\ w = Len(whole)
    OBVIOUS
  <2>4. l \in Nat /\ m \in Nat /\ k \in Nat /\ l + m = w
    BY <2>2, <2>3
  <2>5. (l + k) + (m - k) = w
    BY <2>4
  <2> QED
    BY <2>1, <2>3, <2>5, Zenon
<1> QED
  BY ZenonT(40), <1>1, <1>2, <1>3, <1>4, <1>5, <1>6 DEF Goes

(***************************************************************************)
(* The invariant of the caches and the pass                                *)
(***************************************************************************)
Cache == UNION {Caches(n) : n \in Nat}
Pass == [of : Models \cup {Unknown}, chosen : SUBSET Expert, todo : Seq(Expert), ran : Seq(Expert \X Key)]
Fitting(c) == c \in Cache /\ Kept(c) /\ 2 * Capacity(c) * ExpertBytes <= Total

\* Only who is in memory has a cache, in half of what there is.
CachesInv ==
    /\ caches \in [Models -> Cache]
    /\ \A m \in Models : /\ Fitting(caches[m])
                         /\ Capacity(caches[m]) > 0 => \E r \in residents : r.id = m

\* A pass is of a model with a cache, and goes on in order; what it has run as
\* something else was not read.
PassInv ==
    /\ pass \in Pass /\ Goes(pass)
    /\ pass.chosen # {} => pass.of \in Models /\ Capacity(caches[pass.of]) > 0
    /\ \A i \in 1..Len(pass.ran) :
        pass.ran[i][1] # pass.ran[i][2] => pass.ran[i][1] \in caches[pass.of].unread

ExpertsInv == CachesInv /\ PassInv

\* A cache that is made has nothing in it.
LEMMA EmptyIs == ASSUME NEW n \in Nat PROVE Empty(n) \in Caches(n) /\ Capacity(Empty(n)) = n /\ Kept(Empty(n))
<1>1. PICK none : none = [s \in 1..n |-> 0]
  OBVIOUS
<1>2. none \in [1..n -> Key] /\ \A s \in 1..n : none[s] = 0
  BY <1>1 DEF Key
<1>3. Empty(n) = [key |-> none, recent |-> <<>>, slab |-> none, unread |-> {}]
  BY <1>1 DEF Empty
<1>4. <<>> \in Seq(1..n) /\ Len(<<>>) = 0 /\ 1..0 = {}
  OBVIOUS
<1>5. Empty(n) \in Caches(n)
  BY <1>2, <1>3, <1>4 DEF Caches
<1>6. OneSlotEach(Empty(n)) /\ Honest(Empty(n))
  BY <1>2, <1>3 DEF OneSlotEach, Honest
<1>7. RecentIsTaken(Empty(n))
  BY <1>2, <1>3, <1>4 DEF RecentIsTaken
<1> QED
  BY <1>5, <1>6, <1>7, CapacityIs DEF Kept

\* A cache has a capacity, and is one of so many slots.
LEMMA CacheIs == ASSUME NEW c \in Cache PROVE Capacity(c) \in Nat /\ c \in Caches(Capacity(c))
BY CapacityIs DEF Cache

\* When nothing is chosen there is nothing to run.
LEMMA NothingChosen == ASSUME PassInv, pass.chosen = {} PROVE Len(pass.ran) = 0 /\ Len(pass.todo) = 0
<1>1. Len(InOrder({})) = 0
  <2>1. {} \in SUBSET Nat /\ IsFiniteSet({}) /\ Cardinality({}) = 0
    BY FS_EmptySet
  <2> QED
    BY <2>1, OrderIsAll
<1>2. PICK a, b : a = Len(pass.ran) /\ b = Len(pass.todo)
  OBVIOUS
<1>3. a \in Nat /\ b \in Nat /\ a + b = 0
  BY <1>1, <1>2, LenProperties DEF PassInv, Goes
<1>4. a = 0 /\ b = 0
  BY <1>3
<1> QED
  BY <1>2, <1>4

\* While neither the caches nor the pass change, nor who is in memory.
LEMMA NothingOfTheirs ==
    ASSUME ExpertsInv, UNCHANGED cacheVars, \A r \in residents : r \in residents'
    PROVE  ExpertsInv'
BY DEF ExpertsInv, CachesInv, PassInv, cacheVars, Fitting

\* Half the room in slots is within half of what there is.
LEMMA SlotsFit ==
    ASSUME NEW room \in 0..Total, NEW k \in Nat, k <= SlotsIn(room)
    PROVE  2 * k * ExpertBytes <= Total
<1>1. PICK b : b = ExpertBytes
  OBVIOUS
<1>2. b \in Nat \ {0} /\ Total \in Nat /\ room \in Nat /\ room <= Total
  BY <1>1, ExpertsAssumption, AdmissionAssumption
<1>3. PICK h : h = room \div 2
  OBVIOUS
<1>4. h \in Nat /\ 2 * h <= room
  BY <1>2, <1>3
<1>5. PICK q : q = h \div b
  OBVIOUS
<1>6. q \in Nat /\ q * b <= h
  BY <1>2, <1>4, <1>5
<1>7. k <= q
  BY <1>1, <1>3, <1>5 DEF SlotsIn
<1>8. k * b <= q * b
  BY <1>2, <1>6, <1>7
<1>9. k * b \in Nat /\ q * b \in Nat
  BY <1>2, <1>6
<1>10. 2 * k * b = 2 * (k * b)
  BY <1>2
<1> QED
  BY <1>1, <1>2, <1>4, <1>6, <1>8, <1>9, <1>10

\* What a load is given for a cache fits.
LEMMA WantedFits == ASSUME NEW took, NEW room \in 0..Total, NEW c \in Wanted(took, room) PROVE Fitting(c)
<1>1. PICK k \in Nat : c = Empty(k) /\ k <= SlotsIn(room)
  <2>1. SlotsIn(room) \in Nat
    <3>1. room \in Nat /\ ExpertBytes \in Nat \ {0}
      BY ExpertsAssumption, AdmissionAssumption
    <3>2. room \div 2 \in Nat
      BY <3>1
    <3> QED
      BY <3>1, <3>2 DEF SlotsIn
  <2>2. Cardinality(Expert) \in Nat
    BY ExpertsAssumption, FS_CardinalityType
  <2>3. CASE c = NoCache
    BY <2>1, <2>3 DEF NoCache
  <2>4. CASE c = Empty(Min({SlotsIn(room), Cardinality(Expert)}))
    <3> DEFINE two == {SlotsIn(room), Cardinality(Expert)}
    <3>1. two \in SUBSET Nat /\ two # {} /\ SlotsIn(room) \in two
      BY <2>1, <2>2
    <3> HIDE DEF two
    <3>2. Min(two) \in Nat /\ Min(two) <= SlotsIn(room)
      BY <3>1, MinIsIn
    <3> QED
      BY <2>4, <3>2 DEF two
  <2> QED
    BY <2>3, <2>4 DEF Wanted
<1>2. c \in Caches(k) /\ Capacity(c) = k /\ Kept(c)
  BY <1>1, EmptyIs
<1>3. 2 * k * ExpertBytes <= Total
  BY <1>1, SlotsFit
<1> QED
  BY <1>2, <1>3 DEF Fitting, Cache

\* One cache is another now.
LEMMA OneCacheChanges ==
    ASSUME CachesInv, NEW m \in Models, NEW c, Fitting(c), caches' = [caches EXCEPT ![m] = c],
           \A r \in residents : r.id # m => r \in residents',
           Capacity(c) > 0 => \E r \in residents' : r.id = m
    PROVE  CachesInv'
<1>1. caches' \in [Models -> Cache] /\ caches'[m] = c /\ \A x \in Models \ {m} : caches'[x] = caches[x]
  BY DEF CachesInv, Fitting
<1>2. ASSUME NEW x \in Models
      PROVE  Fitting(caches'[x]) /\ (Capacity(caches'[x]) > 0 => \E r \in residents' : r.id = x)
  <2>1. CASE x = m
    BY <1>1, <2>1
  <2>2. CASE x # m
    <3>1. Fitting(caches[x]) /\ (Capacity(caches[x]) > 0 => \E r \in residents : r.id = x)
      BY DEF CachesInv
    <3> QED
      BY <1>1, <2>2, <3>1
  <2> QED
    BY <2>1, <2>2
<1> QED
  BY <1>1, <1>2 DEF CachesInv, Fitting

\* A pass does not change, nor the cache it is read through.
LEMMA PassStays ==
    ASSUME PassInv, UNCHANGED pass, pass.chosen # {} => caches'[pass.of] = caches[pass.of]
    PROVE  PassInv'
<1>1. CASE pass.chosen # {}
  BY <1>1 DEF PassInv, Goes
<1>2. CASE pass.chosen = {}
  <2>1. Len(pass.ran) = 0
    BY <1>2, NothingChosen
  <2>2. 1..0 = {}
    OBVIOUS
  <2> QED
    BY <1>2, <2>1, <2>2 DEF PassInv, Goes
<1> QED
  BY <1>1, <1>2

\* No pass has been run.
LEMMA AtRestGoes == Goes(AtRest) /\ AtRest \in Pass
<1>1. Len(InOrder({})) = 0
  <2>1. {} \in SUBSET Nat /\ IsFiniteSet({}) /\ Cardinality({}) = 0
    BY FS_EmptySet
  <2> QED
    BY <2>1, OrderIsAll
<1>2. AtRest.of = Unknown /\ AtRest.chosen = {} /\ AtRest.todo = <<>> /\ AtRest.ran = <<>>
  BY DEF AtRest
<1>3. <<>> \in Seq(Expert \X Key) /\ <<>> \in Seq(Expert) /\ Len(<<>>) = 0 /\ 1..0 = {}
  BY EmptySeq
<1>4. PICK p : p = AtRest
  OBVIOUS
<1>5. Goes(p)
  <2>1. p.chosen = {} /\ p.todo = <<>> /\ p.ran = <<>>
    BY <1>2, <1>4
  <2>2. Len(p.ran) = 0 /\ Len(p.todo) = 0 /\ 1..Len(p.ran) = {} /\ 1..Len(p.todo) = {}
    BY <1>3, <2>1
  <2>3. p.chosen \in SUBSET Expert /\ p.ran \in Seq(Expert \X Key) /\ p.todo \in Seq(Expert)
    BY <1>3, <2>1
  <2>4. Len(p.ran) + Len(p.todo) = Len(InOrder(p.chosen))
    BY <1>1, <2>1, <2>2
  <2> QED
    BY <2>2, <2>3, <2>4 DEF Goes
<1>6. AtRest \in Pass
  BY <1>3 DEF AtRest, Pass
<1> QED
  BY <1>4, <1>5, <1>6

\* A cache of none fits.
LEMMA NoCacheFits == Fitting(NoCache) /\ ~(Capacity(NoCache) > 0)
<1>1. NoCache \in Caches(0) /\ Capacity(NoCache) = 0 /\ Kept(NoCache)
  BY EmptyIs DEF NoCache
<1>2. 2 * 0 * ExpertBytes <= Total
  BY ExpertsAssumption, AdmissionAssumption
<1> QED
  BY <1>1, <1>2 DEF Fitting, Cache

\* At first there is nothing.
LEMMA ExpertsInit == MemoryInit => ExpertsInv
<1> SUFFICES ASSUME MemoryInit PROVE ExpertsInv
  OBVIOUS
<1>1. caches = [m \in Models |-> NoCache] /\ pass = AtRest
  BY DEF MemoryInit
<1>2. CachesInv
  BY <1>1, NoCacheFits DEF CachesInv, Fitting
<1>3. PassInv
  <2>1. AtRest.chosen = {} /\ Len(AtRest.ran) = 0 /\ 1..0 = {}
    BY DEF AtRest
  <2> QED
    BY <1>1, <2>1, AtRestGoes DEF PassInv
<1> QED
  BY <1>2, <1>3 DEF ExpertsInv

\* A load is given its cache: no pass is of what is being loaded.
LEMMA LoadKeepsExperts ==
    ASSUME AdmissionType, ExpertsInv, NEW took \in Bytes, LoadWith(took)
    PROVE  ExpertsInv'
<1>1. PICK m, room : m = asking["load"].what /\ room = Left(asking["load"].seen)
  OBVIOUS
<1>2. PICK c \in Wanted(took, room) : caches' = [caches EXCEPT ![m] = c]
  BY <1>1 DEF LoadWith
<1>3. EndLoad(took) /\ UNCHANGED pass
  BY DEF LoadWith
<1>4. m \in Models /\ \A r \in residents : r.id # m
  BY <1>1, <1>3 DEF EndLoad, AdmissionType
<1>5. Fitting(c)
  <2>1. asking["load"] \in Asking
    BY DEF AdmissionType, Askers
  <2>2. asking["load"].seen \in Nat
    BY <2>1 DEF Asking
  <2>3. room \in 0..Total
    BY <1>1, <2>2, LeftType
  <2> QED
    BY <2>3, WantedFits
<1>6. PICK n : residents' = residents \cup {[id |-> m, commit |-> n]}
  BY <1>1, <1>3, EndLoadType
<1>7. CachesInv'
  <2>1. \E r \in residents' : r.id = m
    <3>1. PICK new : new = [id |-> m, commit |-> n]
      OBVIOUS
    <3>2. new \in residents' /\ new.id = m
      BY <1>6, <3>1
    <3> QED
      BY <3>2
  <2> QED
    BY <1>2, <1>4, <1>5, <1>6, <2>1, OneCacheChanges DEF ExpertsInv
<1>8. PassInv'
  <2>1. ASSUME pass.chosen # {} PROVE caches'[pass.of] = caches[pass.of]
    <3>1. pass.of \in Models /\ \E r \in residents : r.id = pass.of
      BY <2>1 DEF ExpertsInv, PassInv, CachesInv
    <3>2. pass.of # m
      BY <1>4, <3>1
    <3> QED
      BY <1>2, <3>1, <3>2 DEF ExpertsInv, CachesInv
  <2> QED
    BY <1>3, <2>1, PassStays DEF ExpertsInv
<1> QED
  BY <1>7, <1>8 DEF ExpertsInv

\* What is unloaded takes its cache with it, and the pass is forgotten.
LEMMA UnloadKeepsExperts ==
    ASSUME AdmissionType, ExpertsInv, NEW r \in residents, UnloadWith(r)
    PROVE  ExpertsInv'
<1>1. /\ caches' = [caches EXCEPT ![r.id] = NoCache] /\ pass' = AtRest
      /\ residents' = residents \ {r} /\ r.id \in Models
  BY DEF UnloadWith, Unload, AdmissionType
<1>2. CachesInv'
  <2>1. \A s \in residents : s.id # r.id => s \in residents'
    BY <1>1
  <2> QED
    BY <1>1, <2>1, NoCacheFits, OneCacheChanges DEF ExpertsInv
<1>3. PassInv'
  <2>1. AtRest.chosen = {} /\ Len(AtRest.ran) = 0 /\ 1..0 = {}
    BY DEF AtRest
  <2>2. Goes(pass') /\ pass' \in Pass /\ pass'.chosen = {} /\ 1..Len(pass'.ran) = {}
    BY <1>1, <2>1, AtRestGoes
  <2> QED
    BY <2>2 DEF PassInv, Goes
<1> QED
  BY <1>2, <1>3 DEF ExpertsInv

\* A pass begins with all that was chosen to do.
LEMMA ChooseKeepsExperts ==
    ASSUME ExpertsInv, NEW m \in Models, NEW chosen \in SUBSET Expert, Choose(m, chosen)
    PROVE  ExpertsInv'
<1>1. /\ pass' = [of |-> m, chosen |-> chosen, todo |-> InOrder(chosen), ran |-> <<>>]
      /\ UNCHANGED <<residents, caches>> /\ Capacity(caches[m]) > 0
  BY DEF Choose, vars
<1>2. CachesInv'
  BY <1>1 DEF ExpertsInv, CachesInv, Fitting
<1>3. /\ pass'.of = m /\ pass'.chosen = chosen /\ pass'.todo = InOrder(chosen) /\ pass'.ran = <<>>
  BY <1>1
<1>4. <<>> \in Seq(Expert \X Key) /\ Len(<<>>) = 0 /\ 1..0 = {}
  BY EmptySeq
<1>5. InOrder(chosen) \in Seq(Expert) /\ Len(InOrder(chosen)) \in Nat
  BY ChosenInOrder
<1>6. PICK p : p = pass'
  OBVIOUS
<1>7. Goes(p)
  <2>1. p.chosen = chosen /\ p.todo = InOrder(chosen) /\ p.ran = <<>>
    BY <1>3, <1>6
  <2>2. Len(p.ran) = 0 /\ 1..Len(p.ran) = {} /\ Len(p.todo) = Len(InOrder(p.chosen))
    BY <1>4, <2>1
  <2>3. p.ran \in Seq(Expert \X Key) /\ p.todo \in Seq(Expert)
    BY <1>4, <1>5, <2>1
  <2>4. Len(p.ran) + Len(p.todo) = Len(InOrder(p.chosen))
    BY <1>5, <2>1, <2>2
  <2>5. \A i \in 1..Len(p.todo) : p.todo[i] = InOrder(p.chosen)[Len(p.ran) + i]
    BY <1>5, <2>1, <2>2
  <2> QED
    BY <2>1, <2>2, <2>3, <2>4, <2>5 DEF Goes
<1>8. p \in Pass
  BY <1>1, <1>4, <1>5, <1>6 DEF Pass
<1>9. PassInv'
  BY <1>1, <1>3, <1>4, <1>6, <1>7, <1>8 DEF PassInv, Goes
<1> QED
  BY <1>2, <1>9 DEF ExpertsInv

(***************************************************************************)
(* A group of a pass                                                       *)
(***************************************************************************)

\* A pass with something to do is read through a cache, a group at a time
\* that is not larger, of what has not been run.
LEMMA GroupIs ==
    ASSUME ExpertsInv, pass.todo # <<>>
    PROVE  /\ pass.of \in Models
           /\ \E n \in Nat \ {0} :
                /\ n = Capacity(caches[pass.of]) /\ caches[pass.of] \in Caches(n) /\ Kept(caches[pass.of])
                /\ Len(Group) <= n
           /\ Group \in Seq(Expert) /\ Len(Group) \in 0..Len(pass.todo) /\ Distinct(Group)
           /\ \A j \in 1..Len(Group) : Group[j] = pass.todo[j]
           /\ After(Group) \in Seq(Expert) /\ Len(After(Group)) = Len(pass.todo) - Len(Group)
           /\ \A j \in 1..Len(After(Group)) : After(Group)[j] = pass.todo[Len(Group) + j]
           /\ \A i \in 1..Len(pass.ran), j \in 1..Len(Group) : pass.ran[i][1] # Group[j]
<1>1. PICK ran, todo, whole, c :
        ran = pass.ran /\ todo = pass.todo /\ whole = InOrder(pass.chosen) /\ c = caches[pass.of]
  OBVIOUS
<1>2. /\ pass.chosen \in SUBSET Expert /\ todo \in Seq(Expert)
      /\ Len(ran) \in Nat /\ Len(todo) \in Nat /\ Len(whole) \in Nat
      /\ Len(ran) + Len(todo) = Len(whole)
      /\ \A i \in 1..Len(ran) : ran[i][1] = whole[i]
      /\ \A i \in 1..Len(todo) : todo[i] = whole[Len(ran) + i]
      /\ Distinct(whole)
  BY <1>1, ChosenInOrder, LenProperties DEF ExpertsInv, PassInv, Goes
<1>3. Len(todo) # 0
  BY <1>1, <1>2, EmptySeq
<1>4. pass.of \in Models /\ Capacity(c) > 0
  BY <1>1, <1>3, NothingChosen DEF ExpertsInv, PassInv
<1>5. c \in Cache /\ Kept(c)
  BY <1>1, <1>4 DEF ExpertsInv, CachesInv, Fitting
<1>6. PICK n : n = Capacity(c)
  OBVIOUS
<1>7. n \in Nat \ {0} /\ c \in Caches(n)
  BY <1>4, <1>5, <1>6, CacheIs
<1>8. PICK k : k = Min({n, Len(todo)})
  OBVIOUS
<1>9. k \in Nat /\ k <= n /\ k <= Len(todo)
  <2> DEFINE two == {n, Len(todo)}
  <2>1. two \in SUBSET Nat /\ two # {} /\ n \in two /\ Len(todo) \in two
    BY <1>2, <1>7
  <2> HIDE DEF two
  <2>2. Min(two) \in Nat /\ Min(two) <= n /\ Min(two) <= Len(todo)
    BY <2>1, MinIsIn
  <2> QED
    BY <1>8, <2>2 DEF two
<1>10. PICK group, after : group = SubSeq(todo, 1, k) /\ after = SubSeq(todo, k + 1, Len(todo))
  OBVIOUS
<1>11. \A i \in 1..Len(todo) : todo[i] \in Expert
  BY <1>2, ElementOfSeq
<1>12. group \in Seq(Expert) /\ Len(group) = k /\ \A j \in 1..k : group[j] = todo[j]
  <2>1. 1 \in Int /\ k \in Int /\ \A i \in 1..k : todo[i] \in Expert
    BY <1>2, <1>9, <1>11
  <2>2. /\ group \in Seq(Expert) /\ Len(group) = IF 1 <= k THEN k - 1 + 1 ELSE 0
        /\ \A i \in 1..k - 1 + 1 : group[i] = todo[1 + i - 1]
    BY <1>10, <2>1, SubSeqProperties
  <2> QED
    BY <1>9, <2>2
<1>13. after \in Seq(Expert) /\ Len(after) = Len(todo) - k /\ \A j \in 1..(Len(todo) - k) : after[j] = todo[k + j]
  <2>1. k + 1 \in Int /\ Len(todo) \in Int /\ \A i \in (k + 1)..Len(todo) : todo[i] \in Expert
    BY <1>2, <1>9, <1>11
  <2>2. /\ after \in Seq(Expert) /\ Len(after) = IF k + 1 <= Len(todo) THEN Len(todo) - (k + 1) + 1 ELSE 0
        /\ \A i \in 1..Len(todo) - (k + 1) + 1 : after[i] = todo[(k + 1) + i - 1]
    BY <1>10, <2>1, SubSeqProperties
  <2> QED
    BY <1>2, <1>9, <2>2
<1>14. Group = group /\ After(group) = after
  BY <1>1, <1>6, <1>8, <1>10, <1>12 DEF Group, After
<1>15. ASSUME NEW i \in 1..Len(group), NEW j \in 1..Len(group), group[i] = group[j] PROVE i = j
  <2>1. i \in 1..Len(todo) /\ j \in 1..Len(todo)
    BY <1>2, <1>9, <1>12
  <2>2. /\ Len(ran) + i \in 1..Len(whole) /\ Len(ran) + j \in 1..Len(whole)
        /\ whole[Len(ran) + i] = whole[Len(ran) + j]
    BY SMTT(30), <1>2, <1>12, <1>15, <2>1
  <2>3. Len(ran) + i = Len(ran) + j
    BY <1>2, <2>2 DEF Distinct
  <2> QED
    BY <1>2, <2>1, <2>3
<1>16. ASSUME NEW i \in 1..Len(ran), NEW j \in 1..Len(group), ran[i][1] = group[j] PROVE FALSE
  <2>1. j \in 1..Len(todo)
    BY <1>2, <1>9, <1>12
  <2>2. /\ i \in 1..Len(whole) /\ Len(ran) + j \in 1..Len(whole) /\ i # Len(ran) + j
    BY <1>2, <2>1
  <2>3. whole[i] = whole[Len(ran) + j]
    BY SMTT(30), <1>2, <1>12, <1>16, <2>1
  <2> QED
    BY <1>2, <2>2, <2>3 DEF Distinct
<1>17. Distinct(group)
  BY <1>15 DEF Distinct
<1>18. Len(group) <= n /\ Len(group) \in 0..Len(todo)
  BY <1>2, <1>9, <1>12
<1> QED
  BY <1>1, <1>4, <1>5, <1>6, <1>7, <1>12, <1>13, <1>14, <1>16, <1>17, <1>18, Zenon

\* However much of the group is read, what had been run stays as it was, and
\* a slab of the group has its expert, or one that was not read.
LEMMA ReadingKeepsExperts ==
    ASSUME ExpertsInv, pass.todo # <<>>, UNCHANGED residents,
           NEW read \in SUBSET Touched(caches[pass.of], Group).misses,
           NEW part \in SUBSET (Touched(caches[pass.of], Group).misses \ read),
           caches' = [caches EXCEPT ![pass.of] = ReadInto(caches[pass.of], Group, read, part)]
    PROVE  /\ CachesInv' /\ Capacity(caches'[pass.of]) > 0
           /\ \A i \in 1..Len(pass.ran) :
                pass.ran[i][1] # pass.ran[i][2] => pass.ran[i][1] \in caches'[pass.of].unread
           /\ \E n \in Nat \ {0} :
                /\ n = Capacity(caches[pass.of]) /\ caches'[pass.of] \in Caches(n) /\ Kept(caches'[pass.of])
                /\ SoFar(caches[pass.of], Group, Len(Group), Touched(caches[pass.of], Group))
                /\ \A j \in 1..Len(Group) :
                    caches'[pass.of].key[Touched(caches[pass.of], Group).found[j][2]] = Group[j]
<1>1. PICK c, group, touched :
        c = caches[pass.of] /\ group = Group /\ touched = Touched(c, group)
  OBVIOUS
<1>2. PICK n \in Nat \ {0} : n = Capacity(c) /\ c \in Caches(n) /\ Kept(c) /\ Len(group) <= n
  BY <1>1, GroupIs
<1>3. group \in Seq(Expert) /\ Distinct(group) /\ pass.of \in Models
  BY <1>1, GroupIs
<1>4. read \in SUBSET Touched(c, group).misses /\ part \in SUBSET (Touched(c, group).misses \ read)
  BY <1>1
<1>a. PICK then : then = ReadInto(c, group, read, part)
  OBVIOUS
<1>5. /\ then \in Caches(n) /\ then = ReadInto(c, group, read, part) /\ Kept(then)
      /\ \A x \in c.unread : x \in then.unread \/ \E j \in 1..Len(group) : group[j] = x
      /\ \A j \in 1..Len(group) : then.key[Touched(c, group).found[j][2]] = group[j]
  <2>1. n \in Nat \ {0} /\ c \in Caches(n) /\ Kept(c) /\ group \in Seq(Expert) /\ Len(group) <= n /\ Distinct(group)
    BY <1>2, <1>3
  <2>2. then \in Caches(n) /\ IsRead(c, group, then)
    BY <1>4, <1>a, <2>1, GroupIsRead
  <2> QED
    BY <1>a, <2>2 DEF IsRead
<1>6. Capacity(then) = n
  BY <1>5, CapacityIs
<1>7. caches' = [caches EXCEPT ![pass.of] = then] /\ caches'[pass.of] = then
  BY <1>1, <1>3, <1>5 DEF ExpertsInv, CachesInv
<1>8. CachesInv'
  <2>1. Fitting(c) /\ (Capacity(c) > 0 => \E r \in residents : r.id = pass.of)
    BY <1>1, <1>3 DEF ExpertsInv, CachesInv
  <2>2. Fitting(then) /\ (Capacity(then) > 0 => \E r \in residents : r.id = pass.of)
    BY <1>2, <1>5, <1>6, <2>1 DEF Fitting, Cache
  <2> QED
    BY <1>3, <1>7, <2>2, OneCacheChanges DEF ExpertsInv
<1>9. ASSUME NEW i \in 1..Len(pass.ran), pass.ran[i][1] # pass.ran[i][2] PROVE pass.ran[i][1] \in then.unread
  <2>1. pass.ran[i][1] \in c.unread
    BY <1>1, <1>9 DEF ExpertsInv, PassInv
  <2>2. \A j \in 1..Len(group) : pass.ran[i][1] # group[j]
    BY <1>1, GroupIs
  <2> QED
    BY <1>5, <2>1, <2>2
<1>10. SoFar(c, group, Len(group), touched)
  BY <1>1, <1>2, <1>3, TouchedIs DEF Kept, Distinct
<1>11. Capacity(then) > 0
  BY <1>2, <1>6
<1> QED
  BY <1>1, <1>2, <1>5, <1>7, <1>8, <1>9, <1>10, <1>11

\* What of a group was run: each once, as itself or as what could not be read.
LEMMA GroupIsRun ==
    ASSUME NEW n \in Nat \ {0}, NEW c \in Caches(n), Kept(c), NEW group \in Seq(Expert), NEW found,
           found \in Seq(Expert \X (1..n)), Len(found) = Len(group),
           \A j \in 1..Len(group) : found[j][1] = group[j] /\ c.key[found[j][2]] = group[j]
    PROVE  /\ Ran(c, found) \in Seq(Expert \X Key) /\ Len(Ran(c, found)) = Len(group)
           /\ \A j \in 1..Len(group) :
                /\ Ran(c, found)[j][1] = group[j]
                /\ Ran(c, found)[j][2] # group[j] => group[j] \in c.unread
<1>1. PICK k : k = Len(group) /\ k \in Nat
  BY LenProperties
<1>2. DOMAIN found = 1..k
  <2>1. PICK T : T = Expert \X (1..n)
    OBVIOUS
  <2>2. found \in Seq(T)
    BY <2>1
  <2> QED
    BY <1>1, <2>2, LenProperties
<1>3. PICK ran : ran = Ran(c, found)
  OBVIOUS
<1>4. ran = [j \in 1..k |-> <<found[j][1], c.slab[found[j][2]]>>]
  BY <1>2, <1>3 DEF Ran
<1>5. c.slab \in [1..n -> Key] /\ DOMAIN c.key = 1..n
  BY CapacityIs DEF Caches
<1>6. ASSUME NEW j \in 1..k
      PROVE  /\ ran[j] \in Expert \X Key /\ ran[j][1] = group[j]
             /\ ran[j][2] # group[j] => group[j] \in c.unread
  <2>1. found[j][2] \in 1..n
    <3>1. found[j] \in Expert \X (1..n)
      BY <1>1, <1>6, ElementOfSeq
    <3> QED
      BY <3>1
  <2>2. group[j] \in Expert /\ found[j][1] = group[j] /\ c.key[found[j][2]] = group[j]
    BY <1>1, <1>6, ElementOfSeq
  <2>3. ran[j] = <<group[j], c.slab[found[j][2]]>> /\ c.slab[found[j][2]] \in Key
    BY <1>4, <1>5, <1>6, <2>1, <2>2
  <2>4. group[j] # 0
    BY <2>2, ExpertsAssumption
  <2>5. c.slab[found[j][2]] = group[j] \/ group[j] \in c.unread
    BY <1>5, <2>1, <2>2, <2>4 DEF Kept, Honest
  <2> QED
    BY <2>2, <2>3, <2>5
<1>7. ran \in Seq(Expert \X Key) /\ Len(ran) = k
  <2>1. PICK T : T = Expert \X Key
    OBVIOUS
  <2>2. ran \in [1..k -> T]
    BY <1>4, <1>6, <2>1
  <2>3. ran \in Seq(T)
    BY <1>1, <2>2, SeqDef
  <2> QED
    BY <1>1, <2>1, <2>2, <2>3, LenProperties
<1> QED
  BY <1>1, <1>3, <1>6, <1>7

\* The mapping has what was left of the pass as itself.
LEMMA MappedIs ==
    ASSUME NEW todo \in Seq(Expert)
    PROVE  /\ Mapped(todo) \in Seq(Expert \X Key) /\ Len(Mapped(todo)) = Len(todo)
           /\ \A j \in 1..Len(todo) : Mapped(todo)[j][1] = todo[j] /\ Mapped(todo)[j][2] = todo[j]
<1>1. PICK k : k = Len(todo) /\ k \in Nat /\ DOMAIN todo = 1..k
  BY LenProperties
<1>2. PICK ran : ran = Mapped(todo)
  OBVIOUS
<1>3. ran = [j \in 1..k |-> <<todo[j], todo[j]>>]
  BY <1>1, <1>2 DEF Mapped
<1>4. PICK T : T = Expert \X Key
  OBVIOUS
<1>5. \A j \in 1..k : todo[j] \in Expert /\ todo[j] \in Key
  BY <1>1, ElementOfSeq DEF Key
<1>6. ran \in [1..k -> T]
  BY <1>3, <1>4, <1>5
<1>7. ran \in Seq(T) /\ Len(ran) = k
  <2>1. ran \in Seq(T)
    BY <1>1, <1>6, SeqDef
  <2> QED
    BY <1>1, <1>6, <2>1, LenProperties
<1> QED
  BY <1>1, <1>2, <1>3, <1>4, <1>7

\* A pass has gone on by what is new, through a cache that is kept.
LEMMA PassGoesOn ==
    ASSUME ExpertsInv, pass.todo # <<>>, NEW k \in 0..Len(pass.todo), NEW new, NEW todo,
           new \in Seq(Expert \X Key), Len(new) = k,
           \A j \in 1..k : new[j][1] = pass.todo[j],
           todo \in Seq(Expert), Len(todo) = Len(pass.todo) - k,
           \A j \in 1..Len(todo) : todo[j] = pass.todo[k + j],
           pass' = [pass EXCEPT !.todo = todo, !.ran = pass.ran \o new],
           Capacity(caches'[pass.of]) > 0,
           \A i \in 1..Len(pass.ran) :
                pass.ran[i][1] # pass.ran[i][2] => pass.ran[i][1] \in caches'[pass.of].unread,
           \A j \in 1..k : new[j][1] # new[j][2] => new[j][1] \in caches'[pass.of].unread
    PROVE  PassInv'
<1>1. PICK p, q, ran, unread :
        p = pass /\ q = pass' /\ ran = pass.ran /\ unread = caches'[pass.of].unread
  OBVIOUS
<1>2. p \in Pass /\ Goes(p) /\ p.of \in Models
  BY <1>1, GroupIs DEF ExpertsInv, PassInv
<1>3. q.of = p.of /\ q.chosen = p.chosen /\ q.todo = todo /\ q.ran = p.ran \o new
  BY <1>1, <1>2 DEF Pass
<1>4. Goes(q)
  <2>1. k \in 0..Len(p.todo) /\ Len(q.todo) = Len(p.todo) - k /\ q.todo \in Seq(Expert)
    BY <1>1, <1>3
  <2>2. \A j \in 1..Len(q.todo) : q.todo[j] = p.todo[k + j]
    BY <1>1, <1>3
  <2>3. \A j \in 1..k : new[j][1] = p.todo[j]
    BY <1>1
  <2> QED
    BY ZenonT(40), <1>2, <1>3, <2>1, <2>2, <2>3, GoesOn
<1>5. q.ran \in Seq(Expert \X Key)
  BY <1>4 DEF Goes
<1>6. q \in Pass
  BY <1>1, <1>2, <1>3, <1>5 DEF Pass
<1>7. ran \in Seq(Expert \X Key) /\ Len(ran) \in Nat
  BY <1>1, <1>2, LenProperties DEF Goes
<1>8. ASSUME NEW i \in 1..Len(q.ran), q.ran[i][1] # q.ran[i][2] PROVE q.ran[i][1] \in unread
  <2>1. PICK T : T = Expert \X Key
    OBVIOUS
  <2>2. ran \in Seq(T) /\ new \in Seq(T)
    BY <1>7, <2>1
  <2>3. /\ Len(ran \o new) = Len(ran) + Len(new)
        /\ \A j \in 1..(Len(ran) + Len(new)) : (ran \o new)[j] = IF j <= Len(ran) THEN ran[j] ELSE new[j - Len(ran)]
    BY ZenonT(40), <2>2, ConcatProperties
  <2>4. i \in 1..(Len(ran) + k) /\ q.ran[i] = IF i <= Len(ran) THEN ran[i] ELSE new[i - Len(ran)]
    BY <1>1, <1>3, <2>3
  <2>5. k \in Nat
    BY <1>1, <1>2, LenProperties DEF Goes
  <2>6. CASE i <= Len(ran)
    <3>1. i \in 1..Len(ran)
      BY <1>7, <2>4, <2>5, <2>6
    <3> QED
      BY SMTT(30), <1>1, <1>8, <2>4, <2>6, <3>1
  <2>7. CASE ~(i <= Len(ran))
    <3>1. i - Len(ran) \in 1..k
      BY SMTT(30), <1>7, <2>4, <2>5, <2>7
    <3> QED
      BY SMTT(30), <1>1, <1>8, <2>4, <2>7, <3>1
  <2> QED
    BY <2>6, <2>7
<1>9. Capacity(caches'[q.of]) > 0
  BY <1>1, <1>3
<1>10. unread = caches'[q.of].unread
  BY <1>1, <1>3
<1> QED
  BY SMTT(30), <1>1, <1>2, <1>3, <1>4, <1>6, <1>8, <1>9, <1>10 DEF PassInv, Goes

\* Every miss of a group is read, and the group is run.
LEMMA RunKeepsExperts == ASSUME ExpertsInv, RunGroup PROVE ExpertsInv'
<1>1. PICK c, group, touched, now :
        /\ c = caches[pass.of] /\ group = Group /\ touched = Touched(c, group)
        /\ now = Filled(touched.cache, touched.misses, {})
  OBVIOUS
<1>2. /\ pass.todo # <<>> /\ UNCHANGED residents
      /\ caches' = [caches EXCEPT ![pass.of] = now]
      /\ pass' = [pass EXCEPT !.todo = After(group), !.ran = pass.ran \o Ran(now, touched.found)]
  BY <1>1 DEF RunGroup, vars, ExpertsInv, PassInv, Pass
<1>3. pass.of \in Models /\ group \in Seq(Expert) /\ Len(group) \in 0..Len(pass.todo) /\ Distinct(group)
  BY <1>1, <1>2, GroupIs
<1>4. PICK n \in Nat \ {0} : n = Capacity(c) /\ c \in Caches(n) /\ Kept(c) /\ Len(group) <= n
  BY <1>1, <1>2, GroupIs
<1>5. now = ReadInto(c, group, touched.misses, {})
  <2>1. SoFar(c, group, Len(group), touched)
    BY <1>1, <1>3, <1>4, TouchedIs DEF Kept, Distinct
  <2>2. touched.cache \in Caches(n)
    BY <1>4, <2>1 DEF SoFar
  <2>3. ReadInto(c, group, touched.misses, {}) = [now EXCEPT !.unread = @ \cup (touched.misses \ touched.misses)]
    BY SMTT(30), <1>1 DEF ReadInto
  <2>4. PICK key, recent, slab, unread : now = [key |-> key, recent |-> recent, slab |-> slab, unread |-> unread]
    BY <1>1, <2>2 DEF Caches, Filled
  <2>5. unread \cup (touched.misses \ touched.misses) = unread
    OBVIOUS
  <2> QED
    BY <2>3, <2>4, <2>5
<1>6. PICK read, part : read = touched.misses /\ part = {}
  OBVIOUS
<1>7. /\ read \in SUBSET Touched(caches[pass.of], Group).misses
      /\ part \in SUBSET (Touched(caches[pass.of], Group).misses \ read)
      /\ caches' = [caches EXCEPT ![pass.of] = ReadInto(caches[pass.of], Group, read, part)]
  BY ZenonT(40), <1>1, <1>2, <1>5, <1>6
<1>8. /\ CachesInv' /\ Capacity(caches'[pass.of]) > 0
      /\ \A i \in 1..Len(pass.ran) :
            pass.ran[i][1] # pass.ran[i][2] => pass.ran[i][1] \in caches'[pass.of].unread
      /\ \E l \in Nat \ {0} :
            /\ l = Capacity(caches[pass.of]) /\ caches'[pass.of] \in Caches(l) /\ Kept(caches'[pass.of])
            /\ SoFar(caches[pass.of], Group, Len(Group), Touched(caches[pass.of], Group))
            /\ \A j \in 1..Len(Group) :
                caches'[pass.of].key[Touched(caches[pass.of], Group).found[j][2]] = Group[j]
  BY ZenonT(40), <1>2, <1>7, ReadingKeepsExperts
<1>9. caches'[pass.of] = now
  BY <1>2, <1>3 DEF ExpertsInv, CachesInv
<1>10. /\ now \in Caches(n) /\ Kept(now) /\ SoFar(c, group, Len(group), touched)
       /\ \A j \in 1..Len(group) : now.key[touched.found[j][2]] = group[j]
  BY <1>1, <1>4, <1>8, <1>9
<1>11. /\ touched.found \in Seq(Expert \X (1..n)) /\ Len(touched.found) = Len(group)
       /\ \A j \in 1..Len(group) : touched.found[j][1] = group[j]
  BY <1>4, <1>10 DEF SoFar
<1>12. PICK new, todo, found : new = Ran(now, found) /\ todo = After(group) /\ found = touched.found
  OBVIOUS
<1>13. /\ new \in Seq(Expert \X Key) /\ Len(new) = Len(group)
       /\ \A j \in 1..Len(group) : new[j][1] = group[j] /\ (new[j][2] # group[j] => group[j] \in now.unread)
  <2>1. /\ found \in Seq(Expert \X (1..n)) /\ Len(found) = Len(group)
        /\ \A j \in 1..Len(group) : found[j][1] = group[j] /\ now.key[found[j][2]] = group[j]
    BY <1>10, <1>11, <1>12
  <2>2. n \in Nat \ {0} /\ now \in Caches(n) /\ Kept(now) /\ group \in Seq(Expert)
    BY <1>3, <1>4, <1>10
  <2>3. /\ Ran(now, found) \in Seq(Expert \X Key) /\ Len(Ran(now, found)) = Len(group)
        /\ \A j \in 1..Len(group) :
            /\ Ran(now, found)[j][1] = group[j]
            /\ Ran(now, found)[j][2] # group[j] => group[j] \in now.unread
    BY ZenonT(40), <2>1, <2>2, GroupIsRun
  <2> QED
    BY <1>12, <2>3
<1>14. /\ todo \in Seq(Expert) /\ Len(todo) = Len(pass.todo) - Len(group)
       /\ \A j \in 1..Len(todo) : todo[j] = pass.todo[Len(group) + j]
       /\ \A j \in 1..Len(group) : group[j] = pass.todo[j]
  BY <1>1, <1>2, <1>12, GroupIs
<1>15. PassInv'
  <2>1. pass' = [pass EXCEPT !.todo = todo, !.ran = pass.ran \o new]
    BY <1>2, <1>12
  <2>a. PICK k \in 0..Len(pass.todo) : k = Len(group)
    BY <1>3
  <2>2. new \in Seq(Expert \X Key) /\ Len(new) = k /\ \A j \in 1..k : new[j][1] = pass.todo[j]
    BY <1>13, <1>14, <2>a
  <2>3. \A j \in 1..k : new[j][1] # new[j][2] => new[j][1] \in caches'[pass.of].unread
    BY <1>9, <1>13, <2>a
  <2>5. /\ todo \in Seq(Expert) /\ Len(todo) = Len(pass.todo) - k
        /\ \A j \in 1..Len(todo) : todo[j] = pass.todo[k + j]
    BY <1>14, <2>a
  <2> QED
    BY ZenonT(40), <1>2, <1>8, <2>1, <2>2, <2>3, <2>5, PassGoesOn
<1> QED
  BY <1>8, <1>15 DEF ExpertsInv

\* A read fails, and the rest is run from the mapping.
LEMMA FailKeepsExperts == ASSUME ExpertsInv, ReadFails PROVE ExpertsInv'
<1>1. PICK c, group, touched : c = caches[pass.of] /\ group = Group /\ touched = Touched(c, group)
  OBVIOUS
<1>a. PICK read \in SUBSET touched.misses : \E part \in SUBSET (touched.misses \ read) :
        caches' = [caches EXCEPT ![pass.of] = ReadInto(c, group, read, part)]
  BY ZenonT(40), <1>1 DEF ReadFails, ReadInto
<1>2. PICK part \in SUBSET (touched.misses \ read) :
        caches' = [caches EXCEPT ![pass.of] = ReadInto(c, group, read, part)]
  BY <1>a
<1>3. /\ pass.todo # <<>> /\ UNCHANGED residents
      /\ pass' = [pass EXCEPT !.todo = <<>>, !.ran = pass.ran \o Mapped(pass.todo)]
  BY DEF ReadFails, vars, ExpertsInv, PassInv, Pass
<1>4. /\ read \in SUBSET Touched(caches[pass.of], Group).misses
      /\ part \in SUBSET (Touched(caches[pass.of], Group).misses \ read)
      /\ caches' = [caches EXCEPT ![pass.of] = ReadInto(caches[pass.of], Group, read, part)]
  BY <1>1, <1>2
<1>5. /\ CachesInv' /\ Capacity(caches'[pass.of]) > 0
      /\ \A i \in 1..Len(pass.ran) :
            pass.ran[i][1] # pass.ran[i][2] => pass.ran[i][1] \in caches'[pass.of].unread
  BY <1>3, <1>4, ReadingKeepsExperts
<1>6. PICK new : new = Mapped(pass.todo)
  OBVIOUS
<1>7. PICK k : k = Len(pass.todo) /\ k \in Nat /\ pass.todo \in Seq(Expert)
  BY LenProperties DEF ExpertsInv, PassInv, Goes
<1>8. /\ new \in Seq(Expert \X Key) /\ Len(new) = k
      /\ \A j \in 1..k : new[j][1] = pass.todo[j] /\ new[j][2] = pass.todo[j]
  BY <1>6, <1>7, MappedIs
<1>9. PICK todo : todo = <<>>
  OBVIOUS
<1>10. todo \in Seq(Expert) /\ Len(todo) = 0 /\ k \in 0..Len(pass.todo) /\ 1..0 = {} /\ Len(todo) = Len(pass.todo) - k
  BY <1>7, <1>9, EmptySeq
<1>11. PassInv'
  <2>1. pass' = [pass EXCEPT !.todo = todo, !.ran = pass.ran \o new]
    BY <1>3, <1>6, <1>9
  <2>2. \A j \in 1..Len(todo) : todo[j] = pass.todo[k + j]
    BY <1>10
  <2>3. \A j \in 1..k : new[j][1] = pass.todo[j]
    BY <1>8
  <2>4. \A j \in 1..k : new[j][1] # new[j][2] => new[j][1] \in caches'[pass.of].unread
    BY <1>8
  <2> QED
    BY <1>3, <1>5, <1>8, <1>10, <2>1, <2>2, <2>3, <2>4, PassGoesOn
<1> QED
  BY <1>5, <1>11 DEF ExpertsInv

(***************************************************************************)
(* Every step, and what is so of every state                               *)
(***************************************************************************)

\* Every step keeps the caches and the pass.
LEMMA ExpertsNext == AdmissionType /\ ExpertsInv /\ [MemoryNext]_memoryVars => ExpertsInv'
<1> SUFFICES ASSUME AdmissionType, ExpertsInv, [MemoryNext]_memoryVars PROVE ExpertsInv'
  OBVIOUS
<1>1. ASSUME NEW a \in Askers, ReadReserved(a) \/ ReadGuests(a), UNCHANGED cacheVars PROVE ExpertsInv'
  BY <1>1, NothingOfTheirs DEF ReadReserved, ReadGuests
<1>2. ASSUME NEW m \in Models, StartLoad(m), UNCHANGED cacheVars PROVE ExpertsInv'
  BY <1>2, NothingOfTheirs DEF StartLoad, Begin
<1>3. ASSUME NEW need \in Needs, DecideLoad(need), UNCHANGED cacheVars PROVE ExpertsInv'
  BY <1>3, NothingOfTheirs DEF DecideLoad
<1>4. ASSUME NEW took \in Bytes, LoadWith(took) PROVE ExpertsInv'
  BY <1>4, LoadKeepsExperts
<1>5. ASSUME FailLoad, UNCHANGED cacheVars PROVE ExpertsInv'
  BY <1>5, NothingOfTheirs DEF FailLoad
<1>6. ASSUME NEW r \in residents, UnloadWith(r) PROVE ExpertsInv'
  BY <1>6, UnloadKeepsExperts
<1>7. ASSUME NEW bytes \in RunSizes, StartReserve(bytes), UNCHANGED cacheVars PROVE ExpertsInv'
  BY <1>7, NothingOfTheirs DEF StartReserve, Begin
<1>8. ASSUME DecideReserve \/ Release, UNCHANGED cacheVars PROVE ExpertsInv'
  BY <1>8, NothingOfTheirs DEF DecideReserve, Release
<1>9. ASSUME NEW bytes \in GuestSizes, StartLodge(bytes) \/ Resize(bytes), UNCHANGED cacheVars PROVE ExpertsInv'
  BY <1>9, NothingOfTheirs DEF StartLodge, Begin, Resize
<1>10. ASSUME DecideLodge \/ LetGo, UNCHANGED cacheVars PROVE ExpertsInv'
  BY <1>10, NothingOfTheirs DEF DecideLodge, LetGo
<1>11. ASSUME NEW m \in Models, NEW layer \in Layers, NEW chosen \in SUBSET layer \ {{}}, Choose(m, chosen)
       PROVE  ExpertsInv'
  <2>1. chosen \in SUBSET Expert
    BY DEF Expert
  <2> QED
    BY <1>11, <2>1, ChooseKeepsExperts
<1>12. CASE RunGroup
  BY <1>12, RunKeepsExperts
<1>13. CASE ReadFails
  BY <1>13, FailKeepsExperts
<1>14. CASE UNCHANGED memoryVars
  BY <1>14, NothingOfTheirs DEF memoryVars, vars
<1> QED
  BY <1>1, <1>2, <1>3, <1>4, <1>5, <1>6, <1>7, <1>8, <1>9, <1>10, <1>11, <1>12, <1>13, <1>14 DEF MemoryNext

\* With the types of the memory, that is inductive.
LEMMA ExpertsInvariant == MemorySpec => [](AdmissionType /\ ExpertsInv)
<1>1. MemoryInit => AdmissionType /\ ExpertsInv
  BY AdmissionTypeInit, ExpertsInit DEF MemoryInit
<1>2. AdmissionType /\ ExpertsInv /\ [MemoryNext]_memoryVars => (AdmissionType /\ ExpertsInv)'
  BY MemoryStepIsAdmission, AdmissionTypeNext, ExpertsNext
<1> QED
  BY <1>1, <1>2, PTL DEF MemorySpec

\* A pass that is over has run what was chosen, each once and in the order of
\* the layer, whatever failed to be read; and each as itself, but for one that a
\* read which failed has left in a slot (`Moe::run` and `mix`;
\* `Resident::with`, whose groups evict nothing of their own).
THEOREM ChosenExpertsAreRun == MemorySpec => []ExpertsAreTheirs
<1>1. ExpertsInv => ExpertsAreTheirs
  <2> SUFFICES ASSUME ExpertsInv, pass.todo = <<>>
               PROVE  /\ {run[1] : run \in ToSet(pass.ran)} = pass.chosen
                      /\ \A i, j \in DOMAIN pass.ran : i < j => pass.ran[i][1] < pass.ran[j][1]
                      /\ \A run \in ToSet(pass.ran) : run[1] # run[2] => run[1] \in caches[pass.of].unread
    BY DEF ExpertsAreTheirs
  <2>1. PICK ran, chosen, whole : ran = pass.ran /\ chosen = pass.chosen /\ whole = InOrder(pass.chosen)
    OBVIOUS
  <2>2. /\ chosen \in SUBSET Expert /\ ran \in Seq(Expert \X Key)
        /\ Len(ran) + Len(pass.todo) = Len(whole)
        /\ \A i \in 1..Len(ran) : ran[i][1] = whole[i]
    BY <2>1 DEF ExpertsInv, PassInv, Goes
  <2>3. PICK k : k = Len(ran) /\ k \in Nat /\ DOMAIN ran = 1..k
    <3>1. PICK T : T = Expert \X Key
      OBVIOUS
    <3> QED
      BY <2>2, <3>1, LenProperties
  <2>4. Len(whole) = k
    <3>1. Len(pass.todo) = 0
      BY EmptySeq
    <3> QED
      BY <2>2, <2>3, <3>1
  <2>5. /\ whole \in Seq(chosen) /\ Ascends(whole) /\ DOMAIN whole = 1..k
        /\ \A x \in chosen : \E i \in 1..k : whole[i] = x
    BY <2>1, <2>2, <2>4, ChosenInOrder
  <2>6. \A i \in 1..k : ran[i][1] = whole[i] /\ whole[i] \in chosen
    BY <2>2, <2>3, <2>4, <2>5, ElementOfSeq
  <2>7. ToSet(ran) = {ran[i] : i \in 1..k}
    BY <2>3 DEF ToSet
  <2>8. {run[1] : run \in ToSet(ran)} = chosen
    <3>1. ASSUME NEW x \in chosen PROVE x \in {run[1] : run \in ToSet(ran)}
      <4>1. PICK i \in 1..k : whole[i] = x
        BY <2>5
      <4>2. ran[i] \in ToSet(ran) /\ ran[i][1] = x
        BY <2>6, <2>7, <4>1
      <4> QED
        BY <4>2
    <3>2. ASSUME NEW run \in ToSet(ran) PROVE run[1] \in chosen
      BY <2>6, <2>7
    <3> QED
      BY <3>1, <3>2
  <2>9. \A i, j \in DOMAIN ran : i < j => ran[i][1] < ran[j][1]
    BY <2>3, <2>5, <2>6 DEF Ascends
  <2>10. \A run \in ToSet(ran) : run[1] # run[2] => run[1] \in caches[pass.of].unread
    BY <2>1, <2>3, <2>7 DEF ExpertsInv, PassInv
  <2> QED
    BY <2>1, <2>8, <2>9, <2>10
<1> QED
  BY <1>1, ExpertsInvariant, PTL

\* Every variable has its type; what is in a cache's order is what has an
\* expert, each once, and no cache takes more than half of what there is
\* (`Resident::wanted`, `Slots` and `Cache::touch`).
THEOREM CachesAreTyped == MemorySpec => []MemoryTypeOK
<1>1. TypeOK /\ ExpertsInv => MemoryTypeOK
  <2> SUFFICES ASSUME TypeOK, ExpertsInv PROVE MemoryTypeOK
    OBVIOUS
  <2>1. ASSUME NEW m \in Models
        PROVE  LET cache == caches[m]
               IN  /\ cache.key \in [1..Capacity(cache) -> Expert \cup {0}]
                   /\ ToSet(cache.recent) = {s \in DOMAIN cache.key : cache.key[s] # 0}
                   /\ IsInjective(cache.recent)
                   /\ cache.unread \subseteq Expert
                   /\ 2 * Capacity(cache) * ExpertBytes <= Total
    <3>1. PICK c : c = caches[m]
      OBVIOUS
    <3>2. c \in Cache /\ Kept(c) /\ 2 * Capacity(c) * ExpertBytes <= Total
      BY <3>1 DEF ExpertsInv, CachesInv, Fitting
    <3>3. PICK n : n = Capacity(c) /\ n \in Nat /\ c \in Caches(n)
      BY <3>2, CacheIs
    <3>4. c.key \in [1..n -> Expert \cup {0}] /\ c.recent \in Seq(1..n) /\ c.unread \subseteq Expert
      BY <3>3 DEF Caches, Key
    <3>5. PICK recent, key, k : recent = c.recent /\ key = c.key /\ k = Len(recent)
      OBVIOUS
    <3>6. DOMAIN recent = 1..k /\ DOMAIN key = 1..n /\ \A i \in 1..k : recent[i] \in 1..n
      BY ZenonT(40), <3>4, <3>5, LenProperties
    <3>7. /\ \A i, j \in 1..k : recent[i] = recent[j] => i = j
          /\ \A s \in 1..n : key[s] # 0 <=> \E i \in 1..k : recent[i] = s
      BY <3>2, <3>5, <3>6 DEF Kept, RecentIsTaken
    <3>8. ToSet(recent) = {s \in DOMAIN key : key[s] # 0}
      BY <3>6, <3>7 DEF ToSet
    <3>9. IsInjective(recent)
      BY <3>6, <3>7 DEF IsInjective
    <3> QED
      BY <3>1, <3>2, <3>3, <3>4, <3>5, <3>8, <3>9
  <2>2. pass.of \in Models \cup {Unknown}
    BY DEF ExpertsInv, PassInv, Pass
  <2> QED
    BY <2>1, <2>2 DEF MemoryTypeOK
<1> QED
  BY <1>1, ExpertsInvariant, MemoryIsAdmission, MemoryIsTyped, PTL
=============================================================================
