------------------------------ MODULE Optimizer ------------------------------
(***************************************************************************)
(* The lineup optimizer (optimizer/lineup.go, pitcher_lineup.go): a depth     *)
(* first search for the assignment of the day's players to the open slots     *)
(* that is worth most, pruned by a bound that is sound only if the players    *)
(* come in descending order of worth and nobody is worth less than nothing.   *)
(* A behaviour is one roster and the lineup it is given; players are numbered *)
(* by id.                                                                     *)
(***************************************************************************)
EXTENDS Integers, Sequences, FiniteSets, SequencesExt

CONSTANTS
    SpotLists,  \* the slots a league may have for the group, in order; one may repeat
    Hitters,    \* forms a hitter may have: [pts, game, sp, starter, fits]
    Pitchers,   \* and a pitcher
    Reserve,    \* not in the active lineup
    PoolSize    \* players of the group

ASSUME OptimizerAssumption ==
    /\ PoolSize \in Nat
    /\ \A s \in SpotLists : s \in Seq(ToSet(s)) /\ Reserve \notin ToSet(s)
    /\ \A f \in Hitters \cup Pitchers : f.pts \in Int /\ f.game \in BOOLEAN /\ Reserve \notin f.fits

VARIABLES
    pool,     \* the slots, the group, each player's form, slot and lock
    lineup    \* what the optimizer makes of it: each player's slot

optimizerVars == <<pool, lineup>>

Men == 1..PoolSize
Unknown == [p \in Men |-> "undecided"]

Capacity(spots, x) == Cardinality({k \in DOMAIN spots : spots[k] = x})
\* No slot is over its capacity.
Holds(spots, at) ==
    \A x \in ToSet(spots) : Cardinality({p \in Men : at[p] = x}) <= Capacity(spots, x)

\* A player may stand in a slot he no longer fits (IneligibleBefore).
Squads(spots, forms) ==
    {t \in [men : [Men -> forms], at : [Men -> ToSet(spots) \cup {Reserve}], locked : SUBSET Men] :
        Holds(spots, t.at)}

OptimizerInit ==
    /\ \E s \in SpotLists, b \in BOOLEAN :
          \E t \in Squads(s, IF b THEN Pitchers ELSE Hitters) :
             pool = [spots |-> s, pitching |-> b, team |-> t]
    /\ lineup = Unknown

-----------------------------------------------------------------------------
(* The players *)

Spots == pool.spots
Form(p) == pool.team.men[p]
At(p) == pool.team.at[p]
Locked == pool.team.locked

\* Twentieths of a point: a pitcher who may start but is not announced is
\* worth 5 % (NonStarterSPDiscount).
Value(p) ==
    Form(p).pts * IF pool.pitching /\ Form(p).sp /\ ~Form(p).starter THEN 1 ELSE 20
\* effectivePts.
Worth(p) == IF Form(p).game THEN Value(p) ELSE 0

\* Whom the search may place: pitchers without a game are left out.
Movable == {p \in Men \ Locked : pool.pitching => Form(p).game}

\* Mutant: the pitchers are not sorted again after the discount.
MutAhead(p, q) ==
    \/ Form(p).game /\ ~Form(q).game
    \/ Form(p).game = Form(q).game /\ Form(p).pts > Form(q).pts
    \/ Form(p).game = Form(q).game /\ Form(p).pts = Form(q).pts /\ p < q

\* The order in which they are tried.
Ahead(p, q) ==
    \/ Form(p).game /\ ~Form(q).game
    \/ Form(p).game = Form(q).game /\ Value(p) > Value(q)
    \/ Form(p).game = Form(q).game /\ Value(p) = Value(q) /\ p < q

Foremost(men) == CHOOSE p \in men : \A q \in men \ {p} : Ahead(p, q)
Leaders(n, men) == {p \in men : Cardinality({q \in men : Ahead(q, p)}) < n}

\* partitionLockedSlots: a locked player keeps his slot, game or not, and the
\* first slots of that name are his.
LockedAt(x) == {p \in Locked : At(p) = x}
Free ==
    {k \in DOMAIN Spots :
        Cardinality({j \in 1..k : Spots[j] = Spots[k]}) > Cardinality(LockedAt(Spots[k]))}
FreeSpot(i) == CHOOSE k \in Free : Cardinality({j \in Free : j < k}) = i - 1
Open == [i \in 1..Cardinality(Free) |-> Spots[FreeSpot(i)]]

-----------------------------------------------------------------------------
(* The search.  An assignment is a sequence along Open, 0 for an empty slot. *)

Plans == UNION {[1..n -> Men \cup {0}] : n \in 0..Len(Open)}
Placed(a) == ToSet(a) \ {0}
Unused(a) == Movable \ ToSet(a)

Total(men) == MapThenSumSet(Worth, men)
Changes(a) == Cardinality({k \in DOMAIN a : a[k] # 0 /\ At(a[k]) # Open[k]})

\* The best unused players, whether they fit or not.
UpperBound(a) == Total(Placed(a)) + Total(Leaders(Len(Open) - Len(a), Unused(a)))

Bests == [total : Int, changes : Int, picks : Plans]
NoBest == [total |-> 0, changes |-> -1, picks |-> <<>>]

\* A finished assignment replaces none, a worse one, or an equal one of more
\* changes.
Better(a, best) ==
    IF \/ best = NoBest
       \/ Total(Placed(a)) > best.total
       \/ Total(Placed(a)) = best.total /\ Changes(a) < best.changes
    THEN [total |-> Total(Placed(a)), changes |-> Changes(a), picks |-> a]
    ELSE best

Pruned(a, best) ==
    /\ best # NoBest
    /\ \/ UpperBound(a) < best.total
       \/ UpperBound(a) = best.total /\ Changes(a) >= best.changes

\* A slot is left empty only if no unused player fits it.
Options(a) ==
    LET fit == {p \in Unused(a) : Open[Len(a) + 1] \in Form(p).fits}
    IN  IF fit = {} THEN {0} ELSE fit

\* One call of search, with what the loop over its slot comes to.
Visit(a, best, tried) ==
    IF Len(a) = Len(Open) THEN Better(a, best)
    ELSE IF Pruned(a, best) THEN best ELSE tried

\* The loop: whom it has still to try for the slot after a plan, and the best so far.
Loop(a, rest, best) == [plan |-> a, rest |-> rest, best |-> best]
Loops ==
    {l \in [plan : Plans, rest : SUBSET (Men \cup {0}), best : Bests] :
        Len(l.plan) < Len(Open) /\ l.rest \subseteq Options(l.plan)}
Search[l \in Loops] ==
    IF l.rest = {} THEN l.best
    ELSE LET p == Foremost(l.rest)
             a == Append(l.plan, p)
         IN  Search[Loop(l.plan, l.rest \ {p},
                         Visit(a, l.best, Search[Loop(a, Options(a), l.best)]))]

Picks == Visit(<<>>, NoBest, Search[Loop(<<>>, Options(<<>>), NoBest)]).picks

-----------------------------------------------------------------------------
(* The lineup *)

\* Where the chosen and the locked players play; everyone else is benched.
Chosen(a) ==
    [p \in Men |->
        IF p \in Locked THEN At(p)
        ELSE IF p \in ToSet(a) THEN Open[CHOOSE k \in DOMAIN a : a[k] = p] ELSE Reserve]

\* Pitchers only: who was active and not chosen keeps his slot while there is
\* room in it, in the order of the roster.
Displaced(c) == {p \in Men \ Locked : pool.pitching /\ c[p] = Reserve /\ At(p) # Reserve}
Room(c, x) == Capacity(Spots, x) - Cardinality({p \in Men : c[p] = x})
KeepSlots(c, kept) ==
    \A x \in ToSet(Spots) :
        LET idle == {p \in Displaced(c) : At(p) = x}
            n == Cardinality(idle)
        IN  Cardinality(kept \cap idle) = IF n < Room(c, x) THEN n ELSE Room(c, x)

\* OptimizeLineup, OptimizePitcherLineup.
Assign ==
    /\ lineup = Unknown
    /\ LET c == Chosen(Picks)
       IN  \E kept \in SUBSET Displaced(c) :
              /\ KeepSlots(c, kept)
              /\ lineup' = [p \in Men |-> IF p \in kept THEN At(p) ELSE c[p]]
    /\ UNCHANGED pool

OptimizerNext == Assign
OptimizerSpec == OptimizerInit /\ [][OptimizerNext]_optimizerVars

-----------------------------------------------------------------------------
(* Properties *)

OptimizerTypeOK ==
    /\ Spots \in SpotLists
    /\ pool.team \in Squads(Spots, IF pool.pitching THEN Pitchers ELSE Hitters)
    /\ lineup \in {Unknown} \cup [Men -> ToSet(Spots) \cup {Reserve}]

\* Every way to fill open slots with players who fit them, and those that leave
\* no slot empty for which a player is left when its turn comes.
Assignments ==
    {a \in [1..Len(Open) -> Movable \cup {0}] :
        /\ \A k \in DOMAIN a : a[k] # 0 => Open[k] \in Form(a[k]).fits
        /\ \A j, k \in DOMAIN a : j # k /\ a[j] # 0 => a[j] # a[k]}
FillsInTurn(a) ==
    \A k \in DOMAIN a : a[k] = 0 =>
        \A p \in Movable : Open[k] \in Form(p).fits => \E j \in 1..(k - 1) : a[j] = p

Scoring == {p \in Men \ Locked : lineup[p] \in Form(p).fits}
Moved == {p \in Men : lineup[p] \notin {Reserve, At(p)}}
NoneBelowZero == \A p \in Movable : Worth(p) >= 0

(* The lineup can be realized: a locked player stays where he is, everyone     *)
(* else fits his slot, or is a pitcher nobody needs it of, and no slot is      *)
(* promised twice, with the players who keep theirs counted in.  And it is the *)
(* best one (optimalAssignment), unless a projection is below zero: no         *)
(* assignment to the open slots is worth more, pruned or not; of the equally   *)
(* good ones that fill the slots in turn none moves fewer players.             *)
LineupIsBest ==
    lineup # Unknown =>
        /\ Holds(Spots, lineup)
        /\ \A p \in Locked : lineup[p] = At(p)
        /\ \A p \in Men \ Locked :
              lineup[p] \in Form(p).fits \cup {Reserve} \/ (pool.pitching /\ lineup[p] = At(p))
        /\ NoneBelowZero =>
              \A a \in Assignments :
                 /\ Total(Placed(a)) <= Total(Scoring)
                 /\ Total(Placed(a)) = Total(Scoring) /\ FillsInTurn(a)
                       => Cardinality(Moved) <= Changes(a)
=============================================================================
