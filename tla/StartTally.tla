----------------------------- MODULE StartTally ------------------------------
(***************************************************************************)
(* How a team's games started are counted over a weekly period                *)
(* (fantrax/gs_check.go GetTeamGS): Fantrax gives season totals in one roster *)
(* snapshot a day, and a start is a difference of two totals of a pitcher who *)
(* is in an active slot.  The league is told of violations from this count,   *)
(* and the gate's budget is spent by it.                                      *)
(***************************************************************************)
EXTENDS Integers, FiniteSets, FiniteSetsExt

CONSTANTS
    Arms,          \* pitchers
    PeriodDays,    \* days of the weekly period
    Totals,        \* season totals before it
    GSMax          \* the period's limit, 0 if there is none

ASSUME TallyAssumption ==
    /\ IsFiniteSet(Arms) /\ PeriodDays \in Nat /\ Totals \subseteq Nat /\ GSMax \in Nat

VARIABLES
    walked,     \* days of the period that are over
    total,      \* a pitcher's starts this season
    prevGS,     \* the last total the walk saw of him
    counted,    \* what it counted for him
    overage,    \* starts on days on which the team was over its limit
    made,       \* history: his starts of the period in an active slot
    missed,     \* history: his starts out of sight, after the walk had seen him
    newcomers   \* history: whom the walk saw first on a day of the period

tallyVars == <<walked, total, prevGS, counted, overage, made, missed, newcomers>>

Unseen == -1
Standings == {"active", "reserve", "away"}

TallyTypeOK ==
    /\ walked \in 0..PeriodDays
    /\ total \in [Arms -> Nat] /\ prevGS \in [Arms -> Nat \cup {Unseen}]
    /\ \A a \in Arms : prevGS[a] <= total[a]
    /\ counted \in [Arms -> Nat] /\ overage \in Nat
    /\ made \in [Arms -> 0..PeriodDays] /\ missed \in [Arms -> 0..PeriodDays]
    /\ newcomers \subseteq Arms

\* The day before the period is the baseline, if the season had begun.
TallyInit ==
    /\ walked = 0
    /\ total \in [Arms -> Totals]
    /\ \E rostered \in SUBSET Arms :
          prevGS = [a \in Arms |-> IF a \in rostered THEN total[a] ELSE Unseen]
    /\ counted = [a \in Arms |-> 0] /\ overage = 0
    /\ made = [a \in Arms |-> 0] /\ missed = [a \in Arms |-> 0] /\ newcomers = {}

\* Who is seen for the first time is credited with one start at most.
Delta(a, now) ==
    IF prevGS[a] = Unseen THEN (IF now > 1 THEN 1 ELSE now) ELSE now - prevGS[a]

\* Mutant: only the day before is remembered.
MutRetained(now, table) == [a \in Arms |-> IF a \in table THEN now[a] ELSE Unseen]

\* A total is kept while its pitcher is out of the table.
Retained(now, table) == [a \in Arms |-> IF a \in table THEN now[a] ELSE prevGS[a]]

TallyOf(c) == MapThenSumSet(LAMBDA a : c[a], Arms)

\* A day: who is active, in reserve or not in the pitching table (dropped, or
\* in a hitter's slot), who starts a game, and what the walk makes of it.
WalkDay(standing, starts) ==
    LET now == [a \in Arms |-> IF a \in starts THEN total[a] + 1 ELSE total[a]]
        table == {a \in Arms : standing[a] # "away"}
        credit == [a \in Arms |-> IF standing[a] = "active" THEN Delta(a, now[a]) ELSE 0]
    IN  /\ walked < PeriodDays /\ walked' = walked + 1
        /\ total' = now
        /\ counted' = [a \in Arms |-> counted[a] + credit[a]]
        /\ overage' = IF GSMax > 0 /\ TallyOf(counted') > GSMax
                      THEN overage + Cardinality({a \in Arms : credit[a] > 0}) ELSE overage
        /\ prevGS' = Retained(now, table)
        /\ made' = [a \in Arms |->
                       IF a \in starts /\ standing[a] = "active" THEN made[a] + 1 ELSE made[a]]
        /\ missed' = [a \in Arms |->
                         IF a \in starts \ table /\ prevGS[a] # Unseen
                         THEN missed[a] + 1 ELSE missed[a]]
        /\ newcomers' = newcomers \cup {a \in table : prevGS[a] = Unseen}

TallyNext ==
    \E standing \in [Arms -> Standings], starts \in SUBSET Arms : WalkDay(standing, starts)

TallySpec == TallyInit /\ [][TallyNext]_tallyVars

-----------------------------------------------------------------------------
(* Properties *)

(* No start in an active slot goes uncounted.  What is counted beyond them is  *)
(* at most one start of a pitcher the walk had not seen before (his first day  *)
(* in an active slot counts as a start if he ever made one), and those he made *)
(* out of its sight since it saw him last (GetTeamGS).                         *)
StartsAreCounted ==
    \A a \in Arms :
        /\ made[a] <= counted[a]
        /\ counted[a] <= made[a] + missed[a] + (IF a \in newcomers THEN 1 ELSE 0)

(* And a team over its limit has as many starts to deduct as it is over, unless *)
(* several of one pitcher were counted on one day (gscheck.go, "deduct the N    *)
(* highest-scoring starts").                                                    *)
ExcessCanBeDeducted ==
    GSMax > 0 /\ TallyOf(counted) > GSMax =>
        overage >= TallyOf(counted) - GSMax \/ \E a \in Arms : missed[a] > 0

(* What is reported of a team can be traced to starts (GetTeamGS).             *)
TallyIsExplained == StartsAreCounted /\ ExcessCanBeDeducted
=============================================================================
