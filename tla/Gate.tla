-------------------------------- MODULE Gate --------------------------------
(***************************************************************************)
(* The games-started gate (optimizer/gs_budget.go): which of today's starts   *)
(* are worth the week's remaining starts, against the starts announced for    *)
(* the days to come and those only estimated.  The ranking compares different *)
(* kinds of claims by different rules, so it is no order; what is kept        *)
(* depends on the sort.  A behaviour is one week and the decision about it.   *)
(***************************************************************************)
EXTENDS Integers, Sequences, FiniteSets, SequencesExt

CONSTANTS
    Points,      \* projections, in tenths of a point
    Estimates,   \* what an estimated start is taken to be worth, likewise
    MaxToday,    \* today's starts at most
    MaxFuture,   \* announced starts at most
    MaxHalves,   \* estimated starts at most, in halves of a start
    MaxStarts    \* bound on the week's limit and minimum

ASSUME GateAssumption ==
    /\ Points \subseteq Nat /\ Estimates \subseteq Nat /\ MaxToday \in Nat /\ MaxFuture \in Nat
    /\ MaxHalves \in Nat /\ MaxStarts \in Nat

VARIABLES
    week,      \* the budget and everything planned
    decision   \* what the gate said

gateVars == <<week, decision>>

Lists(n) == UNION {[1..k -> Points] : k \in 0..n}
Weeks ==
    [limit : 0..MaxStarts, used : {0, 1}, floor : 0..MaxStarts,
     today : UNION {[1..k -> [pts : Points, locked : BOOLEAN]] : k \in 1..MaxToday},
     idsAscend : BOOLEAN, future : Lists(MaxFuture), halves : 0..MaxHalves, placeholder : Estimates]
Undecided == [kept |-> {}, protected |-> {}, pc |-> "undecided"]

GateTypeOK ==
    /\ week \in Weeks
    /\ decision \in [kept : SUBSET (1..MaxToday), protected : SUBSET (1..MaxToday),
                     pc : {"undecided", "decided"}]

GateInit == week \in Weeks /\ decision = Undecided

-----------------------------------------------------------------------------
(* The budget *)

Excess(a, b) == IF a > b THEN a - b ELSE 0
Least(S) == CHOOSE x \in S : \A y \in S : x <= y

Unlimited == week.limit = 0
Remaining == Excess(week.limit, week.used)
NeedForFloor == Excess(week.floor, week.used)

\* Today's candidates: a locked start is spent or out of reach already.
Candidates == {i \in DOMAIN week.today : ~week.today[i].locked}
\* Announced and estimated starts add up; in halves.
Planned == 2 * (Cardinality(Candidates) + Len(week.future)) + week.halves

-----------------------------------------------------------------------------
(* The claims on the remaining starts *)

IdOf(i) == IF week.idsAscend THEN i ELSE MaxToday - i
Claim(kind, p, i) == [kind |-> kind, pts |-> p, ref |-> i]

\* The k-th of the candidates, in the order of the roster.
Nth(k) == CHOOSE i \in Candidates : Cardinality({j \in Candidates : j < i}) = k - 1
TodayClaims ==
    [k \in 1..Cardinality(Candidates) |-> Claim("today", 20 * week.today[Nth(k)].pts, Nth(k))]
FutureClaims == [k \in 1..Len(week.future) |-> Claim("future", 20 * week.future[k], 0)]

\* One claim for every estimated start, the last one at its fraction.
EstimatedClaims ==
    [k \in 1..((week.halves + 1) \div 2) |->
        Claim("estimated", 10 * week.placeholder * Least({2, week.halves - 2 * (k - 1)}), 0)]

\* A start today yields to an estimate only when that is worth over a tenth
\* more; any other two claims go by value, today's first in a tie.
Before(e, f) ==
    IF {e.kind, f.kind} = {"today", "estimated"}
    THEN LET now == IF e.kind = "today" THEN e ELSE f
             later == IF e.kind = "today" THEN f ELSE e
         IN  (10 * later.pts > 11 * now.pts) <=> (e = later)
    ELSE \/ e.pts > f.pts
         \/ e.pts = f.pts /\ e.kind = "today" /\ f.kind # "today"
         \/ e.pts = f.pts /\ e.kind = f.kind /\ e.kind = "today" /\ IdOf(e.ref) < IdOf(f.ref)

\* sort.SliceStable sorts so few claims by insertion: a claim moves up past its
\* neighbours as long as it is before them.
InsertClaim(s, e) ==
    LET stays == {0} \cup {j \in 1..Len(s) : ~Before(e, s[j])}
    IN  InsertAt(s, 1 + (CHOOSE j \in stays : \A k \in stays : k <= j), e)

AllClaims == TodayClaims \o FutureClaims \o EstimatedClaims
Ranking == FoldLeft(InsertClaim, <<>>, AllClaims)

\* The cut: today's starts among the first claims.
First == 1..Least({Remaining, Len(Ranking)})
Cut == {Ranking[k].ref : k \in {j \in First : Ranking[j].kind = "today"}}

\* Mutant: the reserve is not held to the remaining budget.
MutFloorReserve ==
    IF NeedForFloor = 0 THEN 0
    ELSE Least({Excess(NeedForFloor, Len(week.future)), Cardinality(Candidates)})

\* What must survive for the week's minimum to stay in reach; an estimate is
\* not counted on.
FloorReserve ==
    IF NeedForFloor = 0 THEN 0
    ELSE Least({Excess(NeedForFloor, Len(week.future)), Cardinality(Candidates), Remaining})

\* The best of the declined starts, as many as the reserve lacks.
Place(i) == CHOOSE k \in 1..Len(Ranking) : Ranking[k].kind = "today" /\ Ranking[k].ref = i
Protected ==
    LET better(i) == {o \in Candidates \ Cut : Place(o) < Place(i)}
    IN  {i \in Candidates \ Cut : Cardinality(Cut) + Cardinality(better(i)) < FloorReserve}

\* applyGSGate.
Decide ==
    /\ decision = Undecided
    /\ decision' =
         IF Unlimited \/ (Remaining > 0 /\ 2 * Remaining >= Planned)
         THEN [kept |-> Candidates, protected |-> {}, pc |-> "decided"]
         ELSE IF Remaining = 0 THEN [kept |-> {}, protected |-> {}, pc |-> "decided"]
         ELSE [kept |-> Cut \cup Protected, protected |-> Protected, pc |-> "decided"]
    /\ UNCHANGED week

GateNext == Decide
GateSpec == GateInit /\ [][GateNext]_gateVars

-----------------------------------------------------------------------------
(* Properties *)

\* The claims that directly beat today's start i, whatever they were put next to.
Rivals(i) ==
    LET own == Claim("today", 20 * week.today[i].pts, i)
    IN  {k \in 1..Len(AllClaims) : AllClaims[k] # own /\ Before(AllClaims[k], own)}

(* The gate spends the week's starts well (applyGSGate).  With a limit, it    *)
(* keeps no more of today's starts than remain.  It keeps what the week's     *)
(* minimum needs beyond the announced starts, as far as there are starts and  *)
(* budget.  And although the ranking is no order, the sort never costs a      *)
(* start its place: a start is declined exactly if as many claims as remain   *)
(* beat it one by one, unless the minimum protects it.                        *)
StartsAreWellSpent ==
    decision.pc = "decided" /\ ~Unlimited =>
        /\ Cardinality(decision.kept) <= Remaining
        /\ Cardinality(decision.kept)
              >= Least({Excess(NeedForFloor, Len(week.future)), Cardinality(Candidates), Remaining})
        /\ Remaining > 0 /\ 2 * Remaining < Planned =>
              \A i \in Candidates :
                 i \in decision.kept \ decision.protected <=> Cardinality(Rivals(i)) < Remaining
=============================================================================
