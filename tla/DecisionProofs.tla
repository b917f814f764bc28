--------------------------- MODULE DecisionProofs ----------------------------
(***************************************************************************)
(* Proofs about who plays and what counts.  StartTally, the count after the   *)
(* fact: whatever the pitchers, the days and the totals, no start in an active slot *)
(* goes uncounted, and what is counted beyond them is a first appearance or   *)
(* was made out of sight; and unless one was, the days on which the team was  *)
(* over its limit hold its excess.  Gate, the decision before: whatever the   *)
(* week, its projections, announced and estimated starts, the gate keeps no   *)
(* more than the budget, what the minimum needs, and exactly the starts that  *)
(* fewer claims beat than starts remain, although the ranking it sorts by is  *)
(* no order.  Optimizer: whatever the slots, the players, their points and    *)
(* locks, the lineup can be realized, and unless somebody is worth less than  *)
(* nothing the pruned search returns one that no other beats, with no more    *)
(* moves than an equally good one makes.                                      *)
(***************************************************************************)
EXTENDS StartTally, Gate, Optimizer, FiniteSetTheorems, WellFoundedInduction, TLAPS

-----------------------------------------------------------------------------
(* StartTally: the inductive invariant, one pitcher at a time: whom the walk has not seen  *)
(* has no starts in its books; of the others, it has counted what he made and  *)
(* is still owed no more than the rise of his total since it saw him last.     *)

Balanced(a) ==
    IF prevGS[a] = Unseen
    THEN counted[a] = 0 /\ made[a] = 0 /\ missed[a] = 0
    ELSE /\ made[a] <= counted[a]
         /\ counted[a] + (total[a] - prevGS[a])
              <= made[a] + missed[a] + (IF a \in newcomers THEN 1 ELSE 0)

InTime(a) == made[a] <= walked /\ missed[a] <= walked

TallyInv ==
    /\ TallyTypeOK
    /\ \A a \in Arms : Balanced(a) /\ InTime(a)

LEMMA UnseenIsNoTotal == Unseen \in Int /\ Unseen \notin Nat
  BY DEF Unseen

LEMMA InvImpliesCounted == TallyInv => StartsAreCounted
<1> SUFFICES ASSUME TallyInv, NEW a \in Arms
             PROVE  /\ made[a] <= counted[a]
                    /\ counted[a] <= made[a] + missed[a] + (IF a \in newcomers THEN 1 ELSE 0)
  BY DEF StartsAreCounted
<1>1. /\ total[a] \in Nat /\ prevGS[a] \in Nat \cup {Unseen} /\ prevGS[a] <= total[a]
      /\ counted[a] \in Nat /\ made[a] \in Nat /\ missed[a] \in Nat
  BY TallyAssumption DEF TallyInv, TallyTypeOK
<1>2. Balanced(a)
  BY DEF TallyInv
<1>3. CASE prevGS[a] = Unseen
  BY <1>1, <1>2, <1>3 DEF Balanced
<1>4. CASE prevGS[a] # Unseen
  BY <1>1, <1>2, <1>4 DEF Balanced
<1> QED BY <1>3, <1>4

LEMMA InitBalanced == TallyInit => TallyInv
<1> SUFFICES ASSUME TallyInit PROVE TallyInv
  OBVIOUS
<1>1. /\ walked = 0 /\ overage = 0 /\ newcomers = {}
      /\ counted = [a \in Arms |-> 0] /\ made = [a \in Arms |-> 0] /\ missed = [a \in Arms |-> 0]
  BY DEF TallyInit
<1>2. total \in [Arms -> Nat]
  BY TallyAssumption DEF TallyInit
<1>3. /\ prevGS \in [Arms -> Nat \cup {Unseen}]
      /\ \A a \in Arms : prevGS[a] = Unseen \/ prevGS[a] = total[a]
  BY <1>2 DEF TallyInit
<1>4. TallyTypeOK
  BY <1>1, <1>2, <1>3, TallyAssumption, UnseenIsNoTotal DEF TallyTypeOK, Unseen
<1>5. ASSUME NEW a \in Arms PROVE Balanced(a) /\ InTime(a)
  BY <1>1, <1>2, <1>3 DEF Balanced, InTime
<1> QED BY <1>4, <1>5 DEF TallyInv

-----------------------------------------------------------------------------
(* A day.                                                                     *)

\* What a day does to one pitcher; s is his start of the day, 0 or 1.
Day(a, st, s) ==
    /\ total'[a] = total[a] + s
    /\ counted'[a] = counted[a] + (IF st = "active" THEN Delta(a, total[a] + s) ELSE 0)
    /\ prevGS'[a] = (IF st = "away" THEN prevGS[a] ELSE total[a] + s)
    /\ made'[a] = made[a] + (IF st = "active" THEN s ELSE 0)
    /\ missed'[a] = missed[a] + (IF st = "away" /\ prevGS[a] # Unseen THEN s ELSE 0)
    /\ (a \in newcomers') <=> (a \in newcomers \/ (st # "away" /\ prevGS[a] = Unseen))

LEMMA DayOf ==
    ASSUME TallyTypeOK, NEW standing \in [Arms -> Standings], NEW starts \in SUBSET Arms,
           WalkDay(standing, starts), NEW a \in Arms
    PROVE  Day(a, standing[a], IF a \in starts THEN 1 ELSE 0)
<1>1. total[a] \in Nat /\ made[a] \in Nat /\ missed[a] \in Nat /\ counted[a] \in Nat
  BY TallyAssumption DEF TallyTypeOK
<1>2. /\ total'[a] = IF a \in starts THEN total[a] + 1 ELSE total[a]
      /\ counted'[a] = counted[a] + (IF standing[a] = "active" THEN Delta(a, total'[a]) ELSE 0)
      /\ made'[a] = IF a \in starts /\ standing[a] = "active" THEN made[a] + 1 ELSE made[a]
  BY DEF WalkDay
<1>3. /\ prevGS'[a] = IF standing[a] # "away" THEN total'[a] ELSE prevGS[a]
      /\ missed'[a] = IF a \in starts /\ standing[a] = "away" /\ prevGS[a] # Unseen
                      THEN missed[a] + 1 ELSE missed[a]
      /\ (a \in newcomers') <=> (a \in newcomers \/ (standing[a] # "away" /\ prevGS[a] = Unseen))
  BY DEF WalkDay, Retained
<1>4. CASE a \in starts
  BY <1>1, <1>2, <1>3, <1>4 DEF Day
<1>5. CASE a \notin starts
  BY <1>1, <1>2, <1>3, <1>5 DEF Day
<1> QED BY <1>4, <1>5

\* Numbers stay numbers, and totals stay ahead of what was seen of them.
LEMMA DayKeepsNumbers ==
    ASSUME TallyTypeOK, NEW a \in Arms, NEW st \in Standings, NEW s \in {0, 1}, Day(a, st, s)
    PROVE  /\ total'[a] \in Nat /\ counted'[a] \in Nat
           /\ prevGS'[a] \in Nat \cup {Unseen} /\ prevGS'[a] <= total'[a]
<1>1. /\ total[a] \in Nat /\ counted[a] \in Nat
      /\ prevGS[a] \in Nat \cup {Unseen} /\ prevGS[a] <= total[a]
  BY DEF TallyTypeOK
<1>2. Delta(a, total[a] + s) \in Nat
  BY <1>1 DEF Delta, Unseen
<1> QED BY <1>1, <1>2 DEF Day, Unseen

LEMMA DayKeepsBalance ==
    ASSUME TallyTypeOK, NEW a \in Arms, NEW st \in Standings, NEW s \in {0, 1}, Day(a, st, s),
           Balanced(a)
    PROVE  Balanced(a)'
<1>1. /\ total[a] \in Nat /\ counted[a] \in Nat /\ made[a] \in Nat /\ missed[a] \in Nat
      /\ prevGS[a] \in Nat \cup {Unseen} /\ prevGS[a] <= total[a]
  BY TallyAssumption DEF TallyTypeOK
<1>2. CASE prevGS[a] = Unseen /\ st = "away"
  BY <1>1, <1>2 DEF Day, Balanced, Unseen
<1>3. CASE prevGS[a] = Unseen /\ st = "reserve"
  BY <1>1, <1>3 DEF Day, Balanced, Unseen
<1>4. CASE prevGS[a] = Unseen /\ st = "active"
  <2>1. Delta(a, total[a] + s) \in Nat /\ s <= Delta(a, total[a] + s) /\ Delta(a, total[a] + s) <= 1
    BY <1>1, <1>4 DEF Delta
  <2>2. /\ counted'[a] = Delta(a, total[a] + s) /\ made'[a] = s /\ missed'[a] = 0
        /\ total'[a] = total[a] + s /\ prevGS'[a] = total[a] + s /\ a \in newcomers'
    BY <1>1, <1>4, <2>1 DEF Day, Balanced
  <2>3. prevGS'[a] # Unseen
    BY <1>1, <2>2 DEF Unseen
  <2>4. /\ made'[a] <= counted'[a]
        /\ counted'[a] + (total'[a] - prevGS'[a]) <= made'[a] + missed'[a] + 1
    BY <1>1, <2>1, <2>2
  <2> QED BY <2>2, <2>3, <2>4 DEF Balanced
<1>5. CASE prevGS[a] # Unseen /\ st = "away"
  BY <1>1, <1>5 DEF Day, Balanced, Unseen
<1>6. CASE prevGS[a] # Unseen /\ st = "reserve"
  BY <1>1, <1>6 DEF Day, Balanced, Unseen
<1>7. CASE prevGS[a] # Unseen /\ st = "active"
  BY <1>1, <1>7 DEF Day, Balanced, Delta, Unseen
<1> QED BY <1>2, <1>3, <1>4, <1>5, <1>6, <1>7 DEF Standings

LEMMA DayKeepsTime ==
    ASSUME TallyTypeOK, NEW a \in Arms, NEW st \in Standings, NEW s \in {0, 1}, Day(a, st, s),
           InTime(a), walked' = walked + 1
    PROVE  InTime(a)' /\ made'[a] \in Nat /\ missed'[a] \in Nat
<1>1. walked \in Nat /\ made[a] \in Nat /\ missed[a] \in Nat
  BY TallyAssumption DEF TallyTypeOK
<1> QED BY <1>1 DEF Day, InTime

LEMMA OverageIsANumber ==
    ASSUME TallyTypeOK, NEW standing \in [Arms -> Standings], NEW starts \in SUBSET Arms,
           WalkDay(standing, starts)
    PROVE  overage' \in Nat
<1> DEFINE late(credit) == {a \in Arms : credit[a] > 0}
<1>1. ASSUME NEW credit PROVE Cardinality(late(credit)) \in Nat
  <2>1. IsFiniteSet(late(credit))
    BY TallyAssumption, FS_Subset
  <2> QED BY <2>1, FS_CardinalityType
<1>2. overage \in Nat
  BY DEF TallyTypeOK
<1>3. \E credit : overage' = overage \/ overage' = overage + Cardinality(late(credit))
  BY DEF WalkDay
<1> QED BY <1>1, <1>2, <1>3

LEMMA StepBalanced == TallyInv /\ [TallyNext]_tallyVars => TallyInv'
<1> SUFFICES ASSUME TallyInv, [TallyNext]_tallyVars PROVE TallyInv'
  OBVIOUS
<1>1. CASE UNCHANGED tallyVars
  BY <1>1 DEF TallyInv, TallyTypeOK, Balanced, InTime, tallyVars
<1>2. CASE TallyNext
  <2>1. PICK standing \in [Arms -> Standings], starts \in SUBSET Arms : WalkDay(standing, starts)
    BY <1>2 DEF TallyNext
  <2>2. TallyTypeOK
    BY DEF TallyInv
  <2>3. walked \in Nat /\ walked' = walked + 1 /\ walked' \in 0..PeriodDays
    BY <2>1, <2>2, TallyAssumption DEF WalkDay, TallyTypeOK
  <2> DEFINE s(a) == IF a \in starts THEN 1 ELSE 0
  <2>4. ASSUME NEW a \in Arms PROVE Day(a, standing[a], s(a))
    BY <2>1, <2>2, DayOf
  <2>5. ASSUME NEW a \in Arms
        PROVE  /\ total'[a] \in Nat /\ counted'[a] \in Nat
               /\ prevGS'[a] \in Nat \cup {Unseen} /\ prevGS'[a] <= total'[a]
    <3>1. standing[a] \in Standings /\ s(a) \in {0, 1}
      OBVIOUS
    <3> HIDE DEF s
    <3> QED BY <2>2, <2>4, <3>1, DayKeepsNumbers
  <2>6. ASSUME NEW a \in Arms PROVE Balanced(a)'
    <3>1. standing[a] \in Standings /\ s(a) \in {0, 1} /\ Balanced(a)
      BY DEF TallyInv
    <3> HIDE DEF s
    <3> QED BY <2>2, <2>4, <3>1, DayKeepsBalance
  <2>7. ASSUME NEW a \in Arms PROVE InTime(a)' /\ made'[a] \in Nat /\ missed'[a] \in Nat
    <3>1. standing[a] \in Standings /\ s(a) \in {0, 1} /\ InTime(a)
      BY DEF TallyInv
    <3> HIDE DEF s
    <3> QED BY <2>2, <2>3, <2>4, <3>1, DayKeepsTime
  <2>8. ASSUME NEW a \in Arms PROVE made'[a] \in 0..PeriodDays /\ missed'[a] \in 0..PeriodDays
    BY <2>3, <2>7, TallyAssumption DEF InTime
  <2>9. /\ DOMAIN total' = Arms /\ DOMAIN counted' = Arms /\ DOMAIN prevGS' = Arms
        /\ total' = [a \in Arms |-> total'[a]] /\ counted' = [a \in Arms |-> counted'[a]]
        /\ prevGS' = [a \in Arms |-> prevGS'[a]] /\ made' = [a \in Arms |-> made'[a]]
        /\ missed' = [a \in Arms |-> missed'[a]]
    BY <2>1 DEF WalkDay, Retained
  <2>10. newcomers' \in SUBSET Arms
    BY <2>1, <2>2 DEF WalkDay, TallyTypeOK
  <2>11. overage' \in Nat
    BY <2>1, <2>2, OverageIsANumber
  <2>12. TallyTypeOK'
    BY <2>3, <2>5, <2>8, <2>9, <2>10, <2>11 DEF TallyTypeOK
  <2> QED BY <2>6, <2>7, <2>12 DEF TallyInv
<1> QED BY <1>1, <1>2

-----------------------------------------------------------------------------
(* The theorems.                                                              *)

(* Every reachable state of the walk is well typed (GetTeamGS).               *)
THEOREM TallyTypeCorrect == TallySpec => []TallyTypeOK
<1>1. TallyInv => TallyTypeOK
  BY DEF TallyInv
<1> QED BY <1>1, InitBalanced, StepBalanced, PTL DEF TallySpec

(* No start in an active slot goes uncounted, and what is counted beyond them *)
(* is one start at most of a newcomer or was made out of the walk's sight:    *)
(* for any pitchers, period and season totals (GetTeamGS).                    *)
THEOREM EveryStartIsCounted == TallySpec => []StartsAreCounted
  BY InitBalanced, StepBalanced, InvImpliesCounted, PTL DEF TallySpec

-----------------------------------------------------------------------------
(* Sums over a finite set.  The fold is a function its library defines by      *)
(* recursion over subsets; that there is one, and what it gives for a sum of   *)
(* two functions and for zeros and ones, is shown by the smallest set for      *)
(* which it would fail.                                                        *)

Pick(s) == CHOOSE x \in s : TRUE
Upto(c, s, g) == IF s = {} THEN 0 ELSE c[Pick(s)] + g[s \ {Pick(s)}]
SumsTo(c, S, g) == g = [s \in SUBSET S |-> Upto(c, s, g)]
SumFn(c, S) == CHOOSE g : SumsTo(c, S, g)

LEMMA TallyIsSum ==
    ASSUME NEW c
    PROVE  TallyOf(c) = SumFn(c, Arms)[Arms]
  BY DEF TallyOf, MapThenSumSet, MapThenFoldSet, SumFn, SumsTo, Upto, Pick

LEMMA LeastNumber ==
    ASSUME NEW T \in SUBSET Nat, T # {}
    PROVE  \E n \in T : \A m \in T : n <= m
<1> DEFINE R == OpToRel(<, Nat)
<1>1. IsWellFoundedOn(R, Nat)
  BY NatLessThanWellFounded
<1>2. PICK n \in T : \A y \in T : <<y, n>> \notin R
  <2> HIDE DEF R
  <2> QED BY <1>1, WFMin
<1>3. ASSUME NEW m \in T PROVE n <= m
  <2>1. n \in Nat /\ m \in Nat /\ (m < n => <<m, n>> \in R)
    BY DEF OpToRel
  <2>2. ~(m < n)
    <3> HIDE DEF R
    <3> QED BY <1>2, <2>1
  <2>3. n \in Nat /\ m \in Nat
    OBVIOUS
  <2> HIDE DEF R
  <2> QED BY <2>2, <2>3
<1> QED BY <1>3

\* A smallest set of a family of finite sets.
LEMMA SmallestSet ==
    ASSUME NEW S, IsFiniteSet(S), NEW B \in SUBSET (SUBSET S), B # {}
    PROVE  \E s \in B : \A x \in s : s \ {x} \notin B
<1> DEFINE T == {Cardinality(s) : s \in B}
<1>1. \A s \in B : IsFiniteSet(s) /\ Cardinality(s) \in Nat
  BY FS_Subset, FS_CardinalityType
<1>2. T \in SUBSET Nat /\ T # {}
  BY <1>1
<1>3. PICK n \in T : \A m \in T : n <= m
  <2> HIDE DEF T
  <2> QED BY <1>2, LeastNumber
<1>4. PICK s \in B : n = Cardinality(s)
  BY <1>3
<1>5. ASSUME NEW x \in s, s \ {x} \in B PROVE FALSE
  <2>1. Cardinality(s \ {x}) = Cardinality(s) - 1
    BY <1>1, <1>4, FS_RemoveElement
  <2>2. n <= Cardinality(s \ {x})
    BY <1>3, <1>5
  <2> QED BY <1>1, <1>4, <2>1, <2>2
<1> QED BY <1>4, <1>5

LEMMA PickIsMember ==
    ASSUME NEW s, s # {}
    PROVE  Pick(s) \in s
  BY DEF Pick

\* There is such a function: one for the sets of up to n elements gives one for
\* the sets of one more.
LEMMA SumExists ==
    ASSUME NEW S, IsFiniteSet(S), NEW c
    PROVE  \E g : SumsTo(c, S, g)
<1> DEFINE Small(n) == {s \in SUBSET S : Cardinality(s) <= n}
           Fits(n) == \E g : g = [s \in Small(n) |-> Upto(c, s, g)]
           T == {n \in Nat : ~Fits(n)}
<1>1. \A s \in SUBSET S : IsFiniteSet(s) /\ Cardinality(s) \in Nat
  BY FS_Subset, FS_CardinalityType
<1>2. \A s \in SUBSET S : s # {} => /\ Pick(s) \in s /\ s \ {Pick(s)} \in SUBSET S
                                    /\ Cardinality(s \ {Pick(s)}) = Cardinality(s) - 1
  BY <1>1, PickIsMember, FS_RemoveElement
<1>3. \A s \in SUBSET S : Cardinality(s) = 0 => s = {}
  BY <1>1, FS_EmptySet
<1>4. T = {}
  <2> SUFFICES ASSUME T # {} PROVE FALSE
    OBVIOUS
  <2>1. PICK n \in T : \A m \in T : n <= m
    <3>1. T \in SUBSET Nat
      OBVIOUS
    <3> HIDE DEF T
    <3> QED BY <3>1, LeastNumber
  <2>2. n \in Nat /\ ~Fits(n)
    BY <2>1
  <2>3. CASE n = 0
    <3> DEFINE g == [s \in Small(0) |-> 0]
    <3>1. \A s \in Small(0) : s = {}
      BY <1>1, <1>3
    <3>2. g = [s \in Small(0) |-> Upto(c, s, g)]
      BY <3>1 DEF Upto
    <3> QED BY <2>2, <2>3, <3>2
  <2>4. CASE n # 0
    <3>1. n - 1 \in Nat /\ n - 1 \notin T
      <4>1. n - 1 \in Nat /\ ~(n <= n - 1)
        BY <2>2, <2>4
      <4> HIDE DEF T
      <4> QED BY <2>1, <4>1
    <3>2. PICK g : g = [s \in Small(n - 1) |-> Upto(c, s, g)]
      BY <3>1
    <3> DEFINE h == [s \in Small(n) |-> Upto(c, s, g)]
    <3>3. ASSUME NEW s \in Small(n) PROVE Upto(c, s, h) = Upto(c, s, g)
      <4>1. CASE s = {}
        BY <4>1 DEF Upto
      <4>2. CASE s # {}
        <5> DEFINE r == s \ {Pick(s)}
        <5>1. r \in Small(n - 1) /\ r \in Small(n)
          BY <1>1, <1>2, <2>2, <4>2
        <5>2. g[r] = Upto(c, r, g) /\ h[r] = Upto(c, r, g)
          BY <3>2, <5>1
        <5> HIDE DEF h, r
        <5>3. r = s \ {Pick(s)}
          BY DEF r
        <5> QED BY <4>2, <5>2, <5>3 DEF Upto
      <4> QED BY <4>1, <4>2
    <3>4. h = [s \in Small(n) |-> Upto(c, s, h)]
      BY <3>3
    <3> HIDE DEF h
    <3> QED BY <2>2, <3>4
  <2> QED BY <2>3, <2>4
<1>5. PICK n \in Nat : n = Cardinality(S)
  BY FS_CardinalityType
<1>6. Small(n) = SUBSET S
  BY <1>1, <1>5, FS_Subset
<1>7. Fits(n)
  BY <1>4
<1>8. PICK g : g = [s \in Small(n) |-> Upto(c, s, g)]
  BY <1>7
<1>9. SumsTo(c, S, g)
  BY <1>6, <1>8 DEF SumsTo
<1> QED BY <1>9

LEMMA SumStep ==
    ASSUME NEW S, IsFiniteSet(S), NEW c, NEW s \in SUBSET S
    PROVE  SumFn(c, S)[s] = Upto(c, s, SumFn(c, S))
<1>1. PICK f : f = SumFn(c, S)
  OBVIOUS
<1>2. f = [r \in SUBSET S |-> Upto(c, r, f)]
  BY <1>1, SumExists DEF SumFn, SumsTo
<1>3. f[s] = Upto(c, s, f)
  BY <1>2
<1> QED BY <1>1, <1>3

LEMMA SumIsNat ==
    ASSUME NEW S, IsFiniteSet(S), NEW c \in [S -> Nat], NEW s \in SUBSET S
    PROVE  SumFn(c, S)[s] \in Nat
<1> DEFINE f == SumFn(c, S)
           B == {r \in SUBSET S : f[r] \notin Nat}
<1> SUFFICES ASSUME B # {} PROVE FALSE
  OBVIOUS
<1>1. PICK r \in B : \A x \in r : r \ {x} \notin B
  <2>1. B \in SUBSET (SUBSET S)
    OBVIOUS
  <2> HIDE DEF B
  <2> QED BY <2>1, SmallestSet
<1>2. f[r] = Upto(c, r, f) /\ r \subseteq S /\ f[r] \notin Nat
  BY <1>1, SumStep
<1>3. r # {} /\ Pick(r) \in r
  BY <1>2, PickIsMember DEF Upto
<1>4. f[r \ {Pick(r)}] \in Nat /\ c[Pick(r)] \in Nat
  BY <1>1, <1>2, <1>3
<1> HIDE DEF f
<1> QED BY <1>2, <1>3, <1>4 DEF Upto

\* The sum of two functions.
LEMMA SumAdds ==
    ASSUME NEW S, IsFiniteSet(S), NEW c \in [S -> Nat], NEW d \in [S -> Nat],
           NEW e \in [S -> Nat], \A a \in S : e[a] = c[a] + d[a], NEW s \in SUBSET S
    PROVE  SumFn(e, S)[s] = SumFn(c, S)[s] + SumFn(d, S)[s]
<1> DEFINE f == SumFn(c, S)
           g == SumFn(d, S)
           h == SumFn(e, S)
           B == {r \in SUBSET S : h[r] # f[r] + g[r]}
<1> SUFFICES ASSUME B # {} PROVE FALSE
  OBVIOUS
<1>1. PICK r \in B : \A x \in r : r \ {x} \notin B
  <2>1. B \in SUBSET (SUBSET S)
    OBVIOUS
  <2> HIDE DEF B
  <2> QED BY <2>1, SmallestSet
<1>2. /\ f[r] = Upto(c, r, f) /\ g[r] = Upto(d, r, g) /\ h[r] = Upto(e, r, h)
      /\ r \subseteq S /\ h[r] # f[r] + g[r]
  BY <1>1, SumStep
<1>3. r # {} /\ Pick(r) \in r
  BY <1>2, PickIsMember DEF Upto
<1>4. PICK q : q = r \ {Pick(r)}
  OBVIOUS
<1>5. h[q] = f[q] + g[q] /\ q \in SUBSET S
  BY <1>1, <1>2, <1>3, <1>4
<1>6. f[q] \in Nat /\ g[q] \in Nat
  BY <1>5, SumIsNat
<1> HIDE DEF f, g, h
<1>7. /\ f[r] = c[Pick(r)] + f[q] /\ g[r] = d[Pick(r)] + g[q] /\ h[r] = e[Pick(r)] + h[q]
      /\ c[Pick(r)] \in Nat /\ d[Pick(r)] \in Nat /\ e[Pick(r)] = c[Pick(r)] + d[Pick(r)]
  BY <1>2, <1>3, <1>4 DEF Upto
<1> QED BY <1>2, <1>5, <1>6, <1>7

\* A sum of zeros and ones counts the ones.
LEMMA SumCounts ==
    ASSUME NEW S, IsFiniteSet(S), NEW d \in [S -> {0, 1}], NEW s \in SUBSET S
    PROVE  SumFn(d, S)[s] = Cardinality({a \in s : d[a] > 0})
<1> DEFINE f == SumFn(d, S)
           Ones(r) == {a \in r : d[a] > 0}
           B == {r \in SUBSET S : f[r] # Cardinality(Ones(r))}
<1> SUFFICES ASSUME B # {} PROVE FALSE
  OBVIOUS
<1>1. PICK r \in B : \A x \in r : r \ {x} \notin B
  <2>1. B \in SUBSET (SUBSET S)
    OBVIOUS
  <2> HIDE DEF B
  <2> QED BY <2>1, SmallestSet
<1>2. f[r] = Upto(d, r, f) /\ r \subseteq S /\ f[r] # Cardinality(Ones(r))
  BY <1>1, SumStep
<1>3. r # {}
  <2> SUFFICES ASSUME r = {} PROVE FALSE
    OBVIOUS
  <2>1. Ones(r) = {}
    OBVIOUS
  <2> QED BY <1>2, <2>1, FS_EmptySet DEF Upto
<1>4. PICK p, q : p = Pick(r) /\ q = r \ {p} /\ p \in r
  BY <1>3, PickIsMember
<1>5. f[q] = Cardinality(Ones(q)) /\ q \in SUBSET S /\ d[p] \in {0, 1}
  BY <1>1, <1>2, <1>4
<1>6. IsFiniteSet(Ones(q)) /\ Cardinality(Ones(q)) \in Nat
  BY <1>5, FS_Subset, FS_CardinalityType
<1>7. f[r] = d[p] + f[q]
  <2> HIDE DEF f
  <2> QED BY <1>2, <1>3, <1>4 DEF Upto
<1>8. CASE d[p] = 0
  <2>1. Ones(r) = Ones(q)
    BY <1>4, <1>8
  <2> QED BY <1>2, <1>5, <1>6, <1>7, <1>8, <2>1
<1>9. CASE d[p] = 1
  <2>1. Ones(r) = Ones(q) \cup {p} /\ p \notin Ones(q)
    BY <1>4, <1>9
  <2>2. Cardinality(Ones(q) \cup {p}) = Cardinality(Ones(q)) + 1
    <3> HIDE DEF Ones
    <3> QED BY <1>6, <2>1, FS_AddElement
  <2>3. Cardinality(Ones(r)) = Cardinality(Ones(q)) + 1
    BY <2>1, <2>2
  <2> HIDE DEF f, Ones
  <2> QED BY <1>2, <1>5, <1>6, <1>7, <1>9, <2>3
<1> QED BY <1>5, <1>8, <1>9

-----------------------------------------------------------------------------
(* The starts over the limit.                                                  *)

\* Whom the walk has seen, it has seen up to the starts it missed.
Sighted(a) == prevGS[a] # Unseen => total[a] - prevGS[a] <= missed[a]

\* While none is out of sight, the days over the limit hold the excess.
ExcessInv ==
    /\ \A a \in Arms : Sighted(a)
    /\ GSMax > 0 /\ (\A a \in Arms : missed[a] = 0) => overage >= TallyOf(counted) - GSMax

LEMMA TallyIsNat ==
    ASSUME NEW c \in [Arms -> Nat]
    PROVE  TallyOf(c) \in Nat
  BY TallyIsSum, SumIsNat, TallyAssumption

LEMMA InitExcess == TallyInit => ExcessInv
<1> SUFFICES ASSUME TallyInit PROVE ExcessInv
  OBVIOUS
<1>1. \A a \in Arms : total[a] \in Nat /\ missed[a] = 0 /\ prevGS[a] \in {total[a], Unseen}
  BY TallyAssumption DEF TallyInit
<1>2. PICK c : c = counted /\ c = [a \in Arms |-> 0] /\ overage = 0
  BY DEF TallyInit
<1>3. TallyOf(c) = 0
  <2>1. c \in [Arms -> {0, 1}] /\ {a \in Arms : c[a] > 0} = {}
    BY <1>2
  <2> QED BY <2>1, TallyIsSum, SumCounts, FS_EmptySet, TallyAssumption
<1>4. overage >= TallyOf(counted) - GSMax
  BY <1>2, <1>3, TallyAssumption
<1> QED BY <1>1, <1>4 DEF ExcessInv, Sighted

LEMMA DayKeepsSight ==
    ASSUME TallyTypeOK, NEW a \in Arms, NEW st \in Standings, NEW s \in {0, 1}, Day(a, st, s),
           Sighted(a)
    PROVE  /\ Sighted(a)'
           /\ missed'[a] = 0 => /\ missed[a] = 0
                                /\ counted'[a] - counted[a] \in {0, 1}
<1>1. /\ total[a] \in Nat /\ counted[a] \in Nat /\ missed[a] \in Nat
      /\ prevGS[a] \in Nat \cup {Unseen} /\ prevGS[a] <= total[a]
  BY TallyAssumption DEF TallyTypeOK
<1>2. CASE st = "away"
  <2>1. /\ total'[a] = total[a] + s /\ prevGS'[a] = prevGS[a] /\ counted'[a] = counted[a] + 0
        /\ missed'[a] = missed[a] + (IF prevGS[a] # Unseen THEN s ELSE 0)
    BY <1>2 DEF Day
  <2>2. CASE prevGS[a] = Unseen
    BY <1>1, <2>1, <2>2 DEF Sighted
  <2>3. CASE prevGS[a] # Unseen
    <3>1. /\ total[a] - prevGS[a] <= missed[a] /\ prevGS[a] \in Nat
          /\ total'[a] = total[a] + s /\ prevGS'[a] = prevGS[a] /\ missed'[a] = missed[a] + s
      BY <1>1, <2>1, <2>3 DEF Sighted
    <3>2. total'[a] - prevGS'[a] <= missed'[a] /\ (missed'[a] = 0 => missed[a] = 0)
      BY <1>1, <3>1
    <3>3. counted'[a] - counted[a] = 0
      BY <1>1, <2>1
    <3> QED BY <3>2, <3>3 DEF Sighted
  <2> QED BY <2>2, <2>3
<1>3. CASE st = "reserve"
  BY <1>1, <1>3 DEF Day, Sighted, Unseen
<1>4. CASE st = "active"
  <2>1. /\ total'[a] = total[a] + s /\ prevGS'[a] = total[a] + s /\ missed'[a] = missed[a]
        /\ counted'[a] = counted[a] + Delta(a, total[a] + s)
    BY <1>1, <1>4 DEF Day
  <2>2. missed[a] = 0 => Delta(a, total[a] + s) \in {0, 1}
    BY <1>1 DEF Delta, Sighted
  <2>3. Delta(a, total[a] + s) \in Int
    BY <1>1 DEF Delta
  <2> QED BY <1>1, <2>1, <2>2, <2>3 DEF Sighted
<1> QED BY <1>2, <1>3, <1>4 DEF Standings

LEMMA StepExcess == TallyInv /\ TallyInv' /\ ExcessInv /\ [TallyNext]_tallyVars => ExcessInv'
<1> SUFFICES ASSUME TallyInv, TallyInv', ExcessInv, [TallyNext]_tallyVars PROVE ExcessInv'
  OBVIOUS
<1>1. CASE UNCHANGED tallyVars
  BY <1>1 DEF ExcessInv, Sighted, tallyVars
<1>2. CASE TallyNext
  <2>1. PICK standing \in [Arms -> Standings], starts \in SUBSET Arms : WalkDay(standing, starts)
    BY <1>2 DEF TallyNext
  <2>2. TallyTypeOK /\ TallyTypeOK'
    BY DEF TallyInv
  <2> DEFINE s(a) == IF a \in starts THEN 1 ELSE 0
  <2>3. ASSUME NEW a \in Arms
        PROVE  /\ Sighted(a)'
               /\ missed'[a] = 0 => missed[a] = 0 /\ counted'[a] - counted[a] \in {0, 1}
    <3>1. standing[a] \in Standings /\ s(a) \in {0, 1} /\ Sighted(a)
      BY DEF ExcessInv
    <3>2. Day(a, standing[a], s(a))
      BY <2>1, <2>2, DayOf
    <3> HIDE DEF s
    <3> QED BY <2>2, <3>1, <3>2, DayKeepsSight
  <2>4. PICK credit \in [Arms -> Int] :
          /\ counted' = [a \in Arms |-> counted[a] + credit[a]]
          /\ overage' = IF GSMax > 0 /\ TallyOf(counted') > GSMax
                        THEN overage + Cardinality({a \in Arms : credit[a] > 0}) ELSE overage
    <3> DEFINE now == [a \in Arms |-> IF a \in starts THEN total[a] + 1 ELSE total[a]]
               cr == [a \in Arms |-> IF standing[a] = "active" THEN Delta(a, now[a]) ELSE 0]
    <3>1. cr \in [Arms -> Int]
      <4>1. ASSUME NEW a \in Arms PROVE cr[a] \in Int
        <5>1. now[a] \in Int /\ prevGS[a] \in Int
          BY <2>2, UnseenIsNoTotal DEF TallyTypeOK
        <5> HIDE DEF now
        <5>2. Delta(a, now[a]) \in Int
          BY <5>1 DEF Delta
        <5> QED BY <5>2
      <4> QED BY <4>1
    <3>2. /\ counted' = [a \in Arms |-> counted[a] + cr[a]]
          /\ overage' = IF GSMax > 0 /\ TallyOf(counted') > GSMax
                        THEN overage + Cardinality({a \in Arms : cr[a] > 0}) ELSE overage
      BY <2>1 DEF WalkDay
    <3> HIDE DEF cr
    <3> QED BY <3>1, <3>2
  <2>5. ASSUME GSMax > 0, \A a \in Arms : missed'[a] = 0
        PROVE  overage' >= TallyOf(counted') - GSMax
    <3>1. PICK c \in [Arms -> Nat], e \in [Arms -> Nat] : c = counted /\ e = counted'
      BY <2>2 DEF TallyTypeOK
    <3>2. \A a \in Arms : e[a] = c[a] + credit[a] /\ credit[a] \in {0, 1}
      <4> SUFFICES ASSUME NEW a \in Arms PROVE e[a] = c[a] + credit[a] /\ credit[a] \in {0, 1}
        OBVIOUS
      <4>1. e[a] = c[a] + credit[a] /\ e[a] - c[a] \in {0, 1} /\ c[a] \in Nat /\ credit[a] \in Int
        BY <2>3, <2>4, <2>5, <3>1
      <4> QED BY <4>1
    <3>3. credit \in [Arms -> {0, 1}] /\ credit \in [Arms -> Nat]
      BY <3>2
    <3>4. TallyOf(e) = TallyOf(c) + TallyOf(credit)
      BY <3>2, <3>3, SumAdds, TallyIsSum, TallyAssumption
    <3>5. TallyOf(credit) = Cardinality({a \in Arms : credit[a] > 0})
      BY <3>3, SumCounts, TallyIsSum, TallyAssumption
    <3>6. TallyOf(c) \in Nat /\ TallyOf(credit) \in Nat /\ overage \in Nat /\ GSMax \in Nat
      BY <2>2, <3>3, TallyIsNat, TallyAssumption DEF TallyTypeOK
    <3>7. overage >= TallyOf(c) - GSMax
      BY <2>3, <2>5, <3>1 DEF ExcessInv
    <3>8. overage' = IF TallyOf(e) > GSMax THEN overage + TallyOf(credit) ELSE overage
      BY <2>4, <2>5, <3>1, <3>5
    <3> QED BY <3>1, <3>4, <3>6, <3>7, <3>8
  <2> QED BY <2>3, <2>5 DEF ExcessInv
<1> QED BY <1>1, <1>2

\* The excess is covered as long as nobody started out of the walk's sight.
LEMMA InvImpliesExplained == TallyInv /\ ExcessInv => TallyIsExplained
<1> SUFFICES ASSUME TallyInv, ExcessInv PROVE ExcessCanBeDeducted
  BY InvImpliesCounted DEF TallyIsExplained
<1>1. \A a \in Arms : missed[a] \in Nat
  BY TallyAssumption DEF TallyInv, TallyTypeOK
<1> QED BY <1>1 DEF ExcessInv, ExcessCanBeDeducted

(* What is reported of a team can be traced to starts: its count is accounted   *)
(* for pitcher by pitcher, and unless one started out of the walk's sight the    *)
(* days on which it was over the limit hold at least its excess, for any         *)
(* pitchers, period, totals and limit (GetTeamGS, gscheck.go).                  *)
THEOREM ReportsAreExplained == TallySpec => []TallyIsExplained
  BY InitBalanced, StepBalanced, InitExcess, StepExcess, InvImpliesExplained, PTL DEF TallySpec

-----------------------------------------------------------------------------
(* Gate: least and greatest numbers.                                           *)

LEMMA LeastIsLeast ==
    ASSUME NEW T \in SUBSET Nat, T # {}
    PROVE  Least(T) \in T /\ \A m \in T : Least(T) <= m
  BY LeastNumber DEF Least

\* The greatest of finitely many numbers.
LEMMA GreatestNumber ==
    ASSUME NEW T \in SUBSET Nat, NEW n \in Nat, T # {}, \A m \in T : m <= n
    PROVE  \E m \in T : \A l \in T : l <= m
<1> DEFINE U == {n - m : m \in T}
<1>1. U \in SUBSET Nat /\ U # {}
  <2>1. ASSUME NEW m \in T PROVE n - m \in Nat
    BY m \in Nat, m <= n
  <2> QED BY <2>1
<1>2. PICK u \in U : \A v \in U : u <= v
  <2> HIDE DEF U
  <2> QED BY <1>1, LeastNumber
<1>3. PICK m \in T : u = n - m
  BY <1>2
<1>4. ASSUME NEW l \in T PROVE l <= m
  <2>1. n - l \in U
    OBVIOUS
  <2>2. u <= n - l
    <3> HIDE DEF U
    <3> QED BY <1>2, <2>1
  <2>3. l \in Nat /\ m \in Nat /\ n - m <= n - l
    BY <2>2, <1>3
  <2> HIDE DEF U
  <2> QED BY <2>3
<1> QED BY <1>4

-----------------------------------------------------------------------------
(* Ranks in a finite set.                                                      *)

Preceding(D, f, i) == {o \in D : f[o] < f[i]}

LEMMA PrecedingFacts ==
    ASSUME NEW D, IsFiniteSet(D), NEW f \in [D -> Nat], NEW i \in D
    PROVE  IsFiniteSet(Preceding(D, f, i)) /\ Cardinality(Preceding(D, f, i)) \in Nat /\ i \notin Preceding(D, f, i)
<1>1. Preceding(D, f, i) \in SUBSET D /\ i \notin Preceding(D, f, i)
  BY DEF Preceding
<1> QED BY <1>1, FS_Subset, FS_CardinalityType

Leading(D, f, n) == {i \in D : Cardinality(Preceding(D, f, i)) < n}

\* Exactly n have fewer than n before them, as long as there are so many.
LEMMA LeadingFacts ==
    ASSUME NEW D, IsFiniteSet(D), NEW f \in [D -> Nat], \A i, o \in D : f[i] = f[o] => i = o,
           NEW n \in Nat
    PROVE  /\ IsFiniteSet(Leading(D, f, n)) /\ Cardinality(Leading(D, f, n)) \in Nat
           /\ Cardinality(Leading(D, f, n)) <= n
           /\ Leading(D, f, n) = D \/ Cardinality(Leading(D, f, n)) = n
<1>1. PICK P : P = Leading(D, f, n)
  OBVIOUS
<1>2. P = {i \in D : Cardinality(Preceding(D, f, i)) < n}
  BY <1>1 DEF Leading
<1>3. IsFiniteSet(P) /\ Cardinality(P) \in Nat /\ P \subseteq D
  BY <1>2, FS_Subset, FS_CardinalityType
<1>4. Cardinality(P) <= n
  <2>1. CASE P = {}
    BY <2>1, FS_EmptySet
  <2>2. CASE P # {}
    <3> DEFINE T == {Cardinality(Preceding(D, f, i)) : i \in P}
    <3>1. T \in SUBSET Nat /\ T # {} /\ \A m \in T : m <= n
      BY <1>2, <1>3, <2>2, PrecedingFacts
    <3>2. PICK m \in T : \A l \in T : l <= m
      <4> HIDE DEF T
      <4> QED BY <3>1, GreatestNumber
    <3>3. PICK i \in P : m = Cardinality(Preceding(D, f, i))
      BY <3>2
    <3>4. ASSUME NEW o \in P, o # i PROVE o \in Preceding(D, f, i)
      <4> SUFFICES ASSUME ~(f[o] < f[i]) PROVE FALSE
        BY <1>3 DEF Preceding
      <4>1. i \in D /\ o \in D
        BY <1>3
      <4>2. f[i] \in Nat /\ f[o] \in Nat /\ f[i] # f[o]
        BY <3>4, <4>1
      <4>3. f[i] < f[o]
        BY <4>2
      <4>4. Preceding(D, f, i) \cup {i} \in SUBSET Preceding(D, f, o)
        BY <4>1, <4>3 DEF Preceding
      <4>5. Cardinality(Preceding(D, f, i) \cup {i}) = Cardinality(Preceding(D, f, i)) + 1
        BY <4>1, PrecedingFacts, FS_AddElement
      <4>6. Cardinality(Preceding(D, f, i) \cup {i}) <= Cardinality(Preceding(D, f, o))
        BY <4>1, <4>4, PrecedingFacts, FS_Subset
      <4>7. Cardinality(Preceding(D, f, o)) <= Cardinality(Preceding(D, f, i))
        BY <3>2, <3>3
      <4>8. Cardinality(Preceding(D, f, o)) \in Nat /\ Cardinality(Preceding(D, f, i)) \in Nat
        BY <4>1, PrecedingFacts
      <4> HIDE DEF T
      <4> QED BY <4>5, <4>6, <4>7, <4>8
    <3>5. P \in SUBSET (Preceding(D, f, i) \cup {i})
      BY <3>4
    <3>6. Cardinality(P) <= Cardinality(Preceding(D, f, i) \cup {i})
      BY <1>3, <3>5, PrecedingFacts, FS_AddElement, FS_Subset
    <3>7. Cardinality(Preceding(D, f, i) \cup {i}) = Cardinality(Preceding(D, f, i)) + 1
      BY <1>3, PrecedingFacts, FS_AddElement
    <3>8. Cardinality(Preceding(D, f, i)) \in Nat /\ Cardinality(Preceding(D, f, i)) < n
      BY <1>2, <1>3, PrecedingFacts
    <3> HIDE DEF T
    <3> QED BY <1>3, <3>6, <3>7, <3>8
  <2> QED BY <2>1, <2>2
<1>5. ASSUME P # D PROVE Cardinality(P) >= n
  <2> DEFINE U == {f[i] : i \in D \ P}
  <2>1. U \in SUBSET Nat /\ U # {}
    BY <1>3, <1>5
  <2>2. PICK u \in U : \A v \in U : u <= v
    <3> HIDE DEF U
    <3> QED BY <2>1, LeastNumber
  <2>3. PICK i \in D \ P : u = f[i]
    BY <2>2
  <2>4. Preceding(D, f, i) \in SUBSET P
    <3> SUFFICES ASSUME NEW o \in D, f[o] < f[i], o \notin P PROVE FALSE
      BY DEF Preceding
    <3>1. f[i] <= f[o] /\ f[o] \in Nat /\ f[i] \in Nat
      BY <2>2, <2>3
    <3> QED BY <3>1
  <2>5. Cardinality(Preceding(D, f, i)) <= Cardinality(P)
    BY <1>3, <2>4, FS_Subset
  <2>6. Cardinality(Preceding(D, f, i)) \in Nat /\ ~(Cardinality(Preceding(D, f, i)) < n)
    BY <1>2, <2>3, PrecedingFacts
  <2> HIDE DEF U
  <2> QED BY <1>3, <2>5, <2>6
<1> QED BY <1>1, <1>3, <1>4, <1>5

-----------------------------------------------------------------------------
(* The claims.                                                                 *)

Kinds == {"today", "future", "estimated"}
ClaimSet == [kind : Kinds, pts : Nat, ref : Nat]

WeekIsTyped == week \in Weeks

LEMMA WeekFacts ==
    ASSUME WeekIsTyped
    PROVE  /\ week.limit \in Nat /\ week.used \in Nat /\ week.floor \in Nat /\ week.halves \in Nat
           /\ week.placeholder \in Nat /\ week.idsAscend \in BOOLEAN
           /\ MaxToday \in Nat
           /\ week.future \in Seq(Points) /\ Len(week.future) \in Nat
           /\ \A k \in 1..Len(week.future) : week.future[k] \in Nat
           /\ DOMAIN week.today \in SUBSET (1..MaxToday)
           /\ \A i \in DOMAIN week.today : week.today[i].pts \in Nat
<1>1. /\ week.limit \in 0..MaxStarts /\ week.used \in {0, 1} /\ week.floor \in 0..MaxStarts
      /\ week.halves \in 0..MaxHalves /\ week.placeholder \in Estimates /\ week.idsAscend \in BOOLEAN
      /\ week.future \in Lists(MaxFuture)
      /\ week.today \in UNION {[1..k -> [pts : Points, locked : BOOLEAN]] : k \in 1..MaxToday}
  BY DEF WeekIsTyped, Weeks
<1>2. PICK k \in 0..MaxFuture : week.future \in [1..k -> Points]
  BY <1>1 DEF Lists
<1>3. week.future \in Seq(Points) /\ Len(week.future) = k /\ k \in Nat
  BY <1>2, GateAssumption
<1>4. \A j \in 1..Len(week.future) : week.future[j] \in Nat
  BY <1>2, <1>3, GateAssumption
<1>5. PICK m \in 1..MaxToday : week.today \in [1..m -> [pts : Points, locked : BOOLEAN]]
  BY <1>1
<1>6. m \in Nat /\ m <= MaxToday /\ DOMAIN week.today = 1..m /\ MaxToday \in Nat
  BY <1>5, GateAssumption
<1>7. \A i \in DOMAIN week.today : week.today[i].pts \in Nat
  <2> SUFFICES ASSUME NEW i \in DOMAIN week.today PROVE week.today[i].pts \in Nat
    OBVIOUS
  <2>1. week.today[i] \in [pts : Points, locked : BOOLEAN]
    BY <1>5
  <2>2. week.today[i].pts \in Points
    BY <2>1
  <2> QED BY <2>2, GateAssumption
<1>8. week.limit \in Nat /\ week.used \in Nat /\ week.floor \in Nat /\ week.halves \in Nat
  BY <1>1, GateAssumption
<1>9. week.placeholder \in Nat
  BY <1>1, GateAssumption
<1>10. DOMAIN week.today \in SUBSET (1..MaxToday)
  BY <1>6
<1> QED BY <1>1, <1>3, <1>4, <1>6, <1>7, <1>8, <1>9, <1>10

LEMMA CandidatesAreFinite ==
    ASSUME WeekIsTyped
    PROVE  /\ IsFiniteSet(Candidates) /\ Cardinality(Candidates) \in Nat
           /\ Candidates \in SUBSET Nat /\ Candidates \in SUBSET (1..MaxToday)
           /\ Candidates \in SUBSET DOMAIN week.today
<1>1. Candidates \in SUBSET (1..MaxToday) /\ MaxToday \in Nat /\ Candidates \in SUBSET DOMAIN week.today
  BY WeekFacts DEF Candidates
<1>2. IsFiniteSet(1..MaxToday) /\ 1..MaxToday \in SUBSET Nat
  BY <1>1, FS_Interval
<1> QED BY <1>1, <1>2, FS_Subset, FS_CardinalityType

\* The numbers of a finite set in ascending order: each is the k-th for one k.
NthOf(D, k) == CHOOSE i \in D : Cardinality({j \in D : j < i}) = k - 1

LEMMA NthOfIs ==
    ASSUME NEW D \in SUBSET Nat, IsFiniteSet(D)
    PROVE  /\ \A k \in 1..Cardinality(D) :
                 NthOf(D, k) \in D /\ Cardinality({j \in D : j < NthOf(D, k)}) = k - 1
           /\ \A i \in D : \E k \in 1..Cardinality(D) : NthOf(D, k) = i
<1>2. PICK id : id = [i \in D |-> i]
  OBVIOUS
<1> DEFINE n == Cardinality(D)
           pos(i) == Cardinality({j \in D : j < i})
<1>3. IsFiniteSet(D) /\ n \in Nat /\ D \in SUBSET Nat
  BY FS_CardinalityType
<1>4. id \in [D -> Nat] /\ \A i, o \in D : id[i] = id[o] => i = o
  BY <1>2, <1>3
<1>5. \A i \in D : Preceding(D, id, i) = {j \in D : j < i}
  BY <1>2 DEF Preceding
<1>6. \A i \in D : pos(i) = Cardinality(Preceding(D, id, i)) /\ pos(i) \in Nat
  BY <1>3, <1>4, <1>5, PrecedingFacts
<1>7. ASSUME NEW m \in Nat
      PROVE  /\ IsFiniteSet(Leading(D, id, m)) /\ Cardinality(Leading(D, id, m)) \in Nat
             /\ Cardinality(Leading(D, id, m)) <= m
             /\ Leading(D, id, m) = D \/ Cardinality(Leading(D, id, m)) = m
  BY <1>3, <1>4, LeadingFacts
<1>8. ASSUME NEW i \in D, NEW o \in D, pos(i) = pos(o) PROVE i = o
  <2>1. i \in Nat /\ o \in Nat
    BY <1>3
  <2>2. ASSUME NEW a \in D, NEW b \in D, a < b PROVE pos(a) < pos(b)
    <3>1. a \in Nat /\ b \in Nat
      BY <1>3
    <3> DEFINE A == {j \in D : j < a}
               B == {j \in D : j < b}
    <3>2. A \cup {a} \in SUBSET B /\ a \notin A /\ B \in SUBSET D /\ A \in SUBSET D
      <4>1. \A j \in D : j \in Nat
        BY <1>3
      <4>2. \A j \in A : j \in D /\ j < b
        BY <2>2, <3>1, <4>1
      <4>3. A \subseteq B /\ a \in B
        BY <2>2, <4>2
      <4>4. a \notin A
        BY <3>1
      <4> QED BY <4>3, <4>4
    <3> HIDE DEF A, B
    <3>3. IsFiniteSet(A) /\ IsFiniteSet(B) /\ Cardinality(A) \in Nat /\ Cardinality(B) \in Nat
      BY <1>3, <3>2, FS_Subset, FS_CardinalityType
    <3>4. Cardinality(A \cup {a}) = Cardinality(A) + 1 /\ Cardinality(A \cup {a}) <= Cardinality(B)
      BY <3>2, <3>3, FS_AddElement, FS_Subset
    <3>5. Cardinality(A) < Cardinality(B)
      BY <3>3, <3>4
    <3> QED BY <3>5 DEF A, B
  <2> SUFFICES ASSUME i # o PROVE FALSE
    OBVIOUS
  <2>3. i < o \/ o < i
    BY <2>1
  <2>4. pos(i) < pos(o) \/ pos(o) < pos(i)
    BY <2>2, <2>3
  <2>5. pos(i) \in Nat /\ pos(o) \in Nat
    BY <1>6
  <2> HIDE DEF pos
  <2> QED BY <1>8, <2>4, <2>5
<1>9. ASSUME NEW k \in 1..n PROVE \E i \in D : pos(i) = k - 1
  <2>1. PICK P : P = Leading(D, id, k)
    OBVIOUS
  <2>2. PICK Q : Q = Leading(D, id, k - 1)
    OBVIOUS
  <2>3. k \in Nat /\ k - 1 \in Nat /\ k <= n
    BY <1>3
  <2>4. P = D \/ Cardinality(P) = k
    BY <1>7, <2>3, <2>1
  <2>5. Cardinality(P) >= k
    BY <1>3, <2>3, <2>4
  <2>6. IsFiniteSet(Q) /\ Cardinality(Q) \in Nat /\ Cardinality(Q) <= k - 1
    BY <1>7, <2>3, <2>2
  <2>7. Q \in SUBSET P
    <3> SUFFICES ASSUME NEW i \in Q PROVE i \in P
      OBVIOUS
    <3>1. PICK p \in Nat : p = Cardinality(Preceding(D, id, i))
      BY <1>6, <2>2 DEF Leading
    <3>2. p < k
      BY <2>3, <2>2, <3>1 DEF Leading
    <3> QED BY <2>1, <2>2, <3>1, <3>2 DEF Leading
  <2>8. P # Q
    BY <2>3, <2>5, <2>6
  <2>9. PICK i \in P : i \notin Q
    BY <2>7, <2>8
  <2>10. i \in D /\ pos(i) < k /\ ~(pos(i) < k - 1) /\ pos(i) \in Nat
    BY <1>6, <2>9, <2>1, <2>2 DEF Leading
  <2>11. pos(i) = k - 1
    <3> HIDE DEF pos
    <3> QED BY <2>3, <2>10
  <2> QED BY <2>10, <2>11
<1>10. ASSUME NEW k \in 1..n PROVE NthOf(D, k) \in D /\ pos(NthOf(D, k)) = k - 1
  BY <1>9 DEF NthOf
<1>11. ASSUME NEW i \in D PROVE \E k \in 1..n : NthOf(D, k) = i
  <2> DEFINE k == pos(i) + 1
  <2>1. Preceding(D, id, i) \in SUBSET (D \ {i})
    BY <1>3, <1>4, PrecedingFacts DEF Preceding
  <2>2. Cardinality(D \ {i}) = n - 1 /\ IsFiniteSet(D \ {i})
    BY <1>3, FS_RemoveElement
  <2>3. pos(i) <= n - 1 /\ pos(i) \in Nat
    BY <1>6, <2>1, <2>2, FS_Subset
  <2>4. k \in 1..n
    <3> HIDE DEF pos, n
    <3> QED BY <1>3, <2>3
  <2>5. NthOf(D, k) \in D /\ pos(NthOf(D, k)) = k - 1
    BY <1>10, <2>4
  <2>6. k - 1 = pos(i)
    BY <2>3
  <2>7. NthOf(D, k) = i
    BY <1>8, <2>5, <2>6
  <2> QED BY <2>4, <2>7
<1> QED BY <1>10, <1>11

LEMMA NthIs ==
    ASSUME WeekIsTyped
    PROVE  /\ \A k \in 1..Cardinality(Candidates) :
                 Nth(k) \in Candidates /\ Cardinality({j \in Candidates : j < Nth(k)}) = k - 1
           /\ \A i \in Candidates : \E k \in 1..Cardinality(Candidates) : Nth(k) = i
<1>1. PICK D : D = Candidates
  OBVIOUS
<1>2. D \in SUBSET Nat /\ IsFiniteSet(D)
  BY <1>1, CandidatesAreFinite
<1>3. \A k : Nth(k) = NthOf(D, k)
  BY <1>1 DEF Nth, NthOf
<1>4. /\ \A k \in 1..Cardinality(D) : NthOf(D, k) \in D /\ Cardinality({j \in D : j < NthOf(D, k)}) = k - 1
      /\ \A i \in D : \E k \in 1..Cardinality(D) : NthOf(D, k) = i
  BY <1>2, NthOfIs
<1> QED BY <1>1, <1>3, <1>4

-----------------------------------------------------------------------------
(* The sort as a function: its library defines the fold by recursion over the  *)
(* sets of places, the last one first.                                         *)

Insertions(A, s, g) == IF s = {} THEN <<>> ELSE InsertClaim(g[s \ {Max(s)}], A[Max(s)])
SortFn(A, S) == CHOOSE g : g = [s \in SUBSET S |-> Insertions(A, s, g)]

LEMMA RankingIsSort ==
    ASSUME NEW A
    PROVE  FoldLeft(InsertClaim, <<>>, A) = SortFn(A, DOMAIN A)[DOMAIN A]
  BY DEF FoldLeft, MapThenFoldSet, SortFn, Insertions

LEMMA GreatestPlace ==
    ASSUME NEW n \in Nat, NEW s \in SUBSET (1..n), s # {}
    PROVE  Max(s) \in s /\ \A m \in s : m <= Max(s)
<1>1. s \in SUBSET Nat /\ \A m \in s : m <= n
  OBVIOUS
<1>2. PICK m \in s : \A l \in s : l <= m
  BY <1>1, GreatestNumber
<1>3. \A l \in s : m >= l
  BY <1>1, <1>2
<1> QED BY <1>1, <1>3 DEF Max

\* There is such a function: one for the sets of up to k places gives one for
\* the sets of one more.
LEMMA SortExists ==
    ASSUME NEW n \in Nat, NEW A
    PROVE  \E g : g = [s \in SUBSET (1..n) |-> Insertions(A, s, g)]
<1>1. PICK S : S = 1..n
  OBVIOUS
<1> DEFINE Small(k) == {s \in SUBSET S : Cardinality(s) <= k}
           Extends(k) == \E g : g = [s \in Small(k) |-> Insertions(A, s, g)]
           T == {k \in Nat : ~Extends(k)}
<1>2. IsFiniteSet(S) /\ Cardinality(S) = n
  BY <1>1, FS_Interval
<1>3. \A s \in SUBSET S : IsFiniteSet(s) /\ Cardinality(s) \in Nat
  BY <1>2, FS_Subset, FS_CardinalityType
<1>4. \A s \in SUBSET S : s # {} => /\ Max(s) \in s /\ s \ {Max(s)} \in SUBSET S
                                    /\ Cardinality(s \ {Max(s)}) = Cardinality(s) - 1
  BY <1>1, <1>3, GreatestPlace, FS_RemoveElement
<1>5. \A s \in SUBSET S : Cardinality(s) = 0 => s = {}
  BY <1>3, FS_EmptySet
<1>6. T = {}
  <2> SUFFICES ASSUME T # {} PROVE FALSE
    OBVIOUS
  <2>1. PICK k \in T : \A m \in T : k <= m
    <3>1. T \in SUBSET Nat
      OBVIOUS
    <3> HIDE DEF T
    <3> QED BY <3>1, LeastNumber
  <2>2. k \in Nat /\ ~Extends(k)
    BY <2>1
  <2>3. CASE k = 0
    <3> DEFINE g == [s \in Small(0) |-> <<>>]
    <3>1. \A s \in Small(0) : s = {}
      BY <1>3, <1>5
    <3>2. g = [s \in Small(0) |-> Insertions(A, s, g)]
      BY <3>1 DEF Insertions
    <3> QED BY <2>2, <2>3, <3>2
  <2>4. CASE k # 0
    <3>1. k - 1 \in Nat /\ k - 1 \notin T
      <4>1. k - 1 \in Nat /\ ~(k <= k - 1)
        BY <2>2, <2>4
      <4> HIDE DEF T
      <4> QED BY <2>1, <4>1
    <3>2. PICK g : g = [s \in Small(k - 1) |-> Insertions(A, s, g)]
      BY <3>1
    <3> DEFINE h == [s \in Small(k) |-> Insertions(A, s, g)]
    <3>3. ASSUME NEW s \in Small(k) PROVE Insertions(A, s, h) = Insertions(A, s, g)
      <4>1. CASE s = {}
        BY <4>1 DEF Insertions
      <4>2. CASE s # {}
        <5> DEFINE r == s \ {Max(s)}
        <5>1. r \in Small(k - 1) /\ r \in Small(k)
          BY <1>3, <1>4, <2>2, <4>2
        <5>2. g[r] = Insertions(A, r, g) /\ h[r] = Insertions(A, r, g)
          BY <3>2, <5>1
        <5> HIDE DEF h, r
        <5>3. r = s \ {Max(s)}
          BY DEF r
        <5> QED BY <4>2, <5>2, <5>3 DEF Insertions
      <4> QED BY <4>1, <4>2
    <3>4. h = [s \in Small(k) |-> Insertions(A, s, h)]
      BY <3>3
    <3> HIDE DEF h
    <3> QED BY <2>2, <3>4
  <2> QED BY <2>3, <2>4
<1>7. Small(n) = SUBSET S
  BY <1>2, <1>3, FS_Subset
<1>8. Extends(n)
  BY <1>6
<1>9. PICK g : g = [s \in Small(n) |-> Insertions(A, s, g)]
  BY <1>8
<1>10. g = [s \in SUBSET S |-> Insertions(A, s, g)]
  BY <1>7, <1>9
<1> QED BY <1>1, <1>10

\* What the sort has made of the first k claims.
LEMMA SortSteps ==
    ASSUME NEW n \in Nat, NEW A, DOMAIN A = 1..n
    PROVE  \E R : /\ R[0] = <<>>
                  /\ \A k \in 1..n : R[k] = InsertClaim(R[k - 1], A[k])
                  /\ FoldLeft(InsertClaim, <<>>, A) = R[n]
<1>1. PICK g : g = SortFn(A, 1..n)
  OBVIOUS
<1>2. g = [s \in SUBSET (1..n) |-> Insertions(A, s, g)]
  BY <1>1, SortExists DEF SortFn
<1>3. \A s \in SUBSET (1..n) : g[s] = Insertions(A, s, g)
  BY <1>2
<1>4. PICK R : R = [k \in 0..n |-> g[1..k]]
  OBVIOUS
<1>5. R[0] = <<>>
  <2>1. 1..0 = {}
    OBVIOUS
  <2>2. R[0] = g[{}]
    BY <1>4, <2>1
  <2> QED BY <1>3, <2>2 DEF Insertions
<1>6. ASSUME NEW k \in 1..n PROVE R[k] = InsertClaim(R[k - 1], A[k])
  <2> DEFINE s == 1..k
  <2>1. k \in Nat /\ s \in SUBSET (1..n) /\ k \in s
    OBVIOUS
  <2>2. Max(s) \in s /\ k <= Max(s)
    <3> HIDE DEF s
    <3> QED BY <2>1, GreatestPlace
  <2>3. Max(s) = k
    BY <2>1, <2>2
  <2>4. s \ {k} = 1..(k - 1) /\ k - 1 \in 0..n /\ k \in 0..n
    OBVIOUS
  <2>5. g[s] = InsertClaim(g[s \ {k}], A[k])
    <3> HIDE DEF s
    <3>1. s # {}
      BY <2>1
    <3> QED BY <1>3, <2>1, <2>3, <3>1 DEF Insertions
  <2>6. R[k] = g[s] /\ R[k - 1] = g[s \ {k}]
    BY <1>4, <2>4
  <2> QED BY <2>5, <2>6
<1>7. FoldLeft(InsertClaim, <<>>, A) = g[1..n]
  BY <1>1, RankingIsSort
<1>8. R[n] = g[1..n]
  BY <1>4
<1> QED BY <1>5, <1>6, <1>7, <1>8
-----------------------------------------------------------------------------
(* Which claim comes before which.                                             *)

LEMMA BeforeIs ==
    ASSUME NEW e \in ClaimSet, NEW f \in ClaimSet
    PROVE  /\ e.kind = "today" /\ f.kind = "today" =>
                 (Before(e, f) <=> e.pts > f.pts \/ (e.pts = f.pts /\ IdOf(e.ref) < IdOf(f.ref)))
           /\ e.kind = "today" /\ f.kind = "future" => (Before(e, f) <=> e.pts >= f.pts)
           /\ e.kind = "future" /\ f.kind = "today" => (Before(e, f) <=> e.pts > f.pts)
           /\ e.kind = "today" /\ f.kind = "estimated" => (Before(e, f) <=> ~(10 * f.pts > 11 * e.pts))
           /\ e.kind = "estimated" /\ f.kind = "today" => (Before(e, f) <=> 10 * e.pts > 11 * f.pts)
           /\ e.kind # "today" /\ f.kind # "today" => (Before(e, f) <=> e.pts > f.pts)
<1>1. e.pts \in Nat /\ f.pts \in Nat /\ e.kind \in Kinds /\ f.kind \in Kinds
  BY DEF ClaimSet
<1>2. CASE e.kind = "today" /\ f.kind = "today"
  <2>1. {e.kind, f.kind} # {"today", "estimated"}
    BY <1>2
  <2> QED BY <1>1, <1>2, <2>1 DEF Before
<1>3. CASE e.kind = "today" /\ f.kind = "future"
  <2>1. {e.kind, f.kind} # {"today", "estimated"}
    BY <1>3
  <2> QED BY <1>1, <1>3, <2>1 DEF Before
<1>4. CASE e.kind = "future" /\ f.kind = "today"
  <2>1. {e.kind, f.kind} # {"today", "estimated"}
    BY <1>4
  <2> QED BY <1>1, <1>4, <2>1 DEF Before
<1>5. CASE e.kind = "today" /\ f.kind = "estimated"
  <2>1. {e.kind, f.kind} = {"today", "estimated"} /\ e # f
    BY <1>5
  <2> QED BY <1>1, <1>5, <2>1 DEF Before
<1>6. CASE e.kind = "estimated" /\ f.kind = "today"
  <2>1. {e.kind, f.kind} = {"today", "estimated"}
    BY <1>6
  <2> QED BY <1>1, <1>6, <2>1 DEF Before
<1>7. CASE e.kind # "today" /\ f.kind # "today"
  <2>1. {e.kind, f.kind} # {"today", "estimated"}
    BY <1>7
  <2> QED BY <1>1, <1>7, <2>1 DEF Before
<1> QED BY <1>1, <1>2, <1>3, <1>4, <1>5, <1>6, <1>7 DEF Kinds

LEMMA IdsAreNumbers ==
    ASSUME WeekIsTyped, NEW i \in Nat, NEW o \in Nat
    PROVE  IdOf(i) \in Int /\ (IdOf(i) = IdOf(o) => i = o)
<1>1. MaxToday \in Nat /\ week.idsAscend \in BOOLEAN
  BY WeekFacts
<1> QED BY <1>1 DEF IdOf

\* A start of today beats another claim or is beaten by it.
LEMMA BeatsOrIsBeaten ==
    ASSUME WeekIsTyped, NEW e \in ClaimSet, NEW f \in ClaimSet,
           e.kind = "today", f.kind = "today" => f.ref # e.ref
    PROVE  Before(f, e) <=> ~Before(e, f)
<1>1. e.pts \in Nat /\ f.pts \in Nat /\ e.kind \in Kinds /\ f.kind \in Kinds /\ e.ref \in Nat /\ f.ref \in Nat
  BY DEF ClaimSet
<1>2. CASE f.kind = "today"
  <2>1. IdOf(e.ref) \in Int /\ IdOf(f.ref) \in Int /\ IdOf(e.ref) # IdOf(f.ref)
    BY <1>1, <1>2, IdsAreNumbers
  <2>2. /\ Before(e, f) <=> e.pts > f.pts \/ (e.pts = f.pts /\ IdOf(e.ref) < IdOf(f.ref))
        /\ Before(f, e) <=> f.pts > e.pts \/ (f.pts = e.pts /\ IdOf(f.ref) < IdOf(e.ref))
    BY <1>2, BeforeIs
  <2> QED BY <1>1, <2>1, <2>2
<1>3. CASE f.kind = "future"
  <2>1. (Before(e, f) <=> e.pts >= f.pts) /\ (Before(f, e) <=> f.pts > e.pts)
    BY <1>3, BeforeIs
  <2> QED BY <1>1, <2>1
<1>4. CASE f.kind = "estimated"
  BY <1>4, BeforeIs
<1> QED BY <1>1, <1>2, <1>3, <1>4 DEF Kinds

LEMMA TodaysAreOrdered ==
    ASSUME WeekIsTyped, NEW e \in ClaimSet, NEW f \in ClaimSet, NEW g \in ClaimSet,
           e.kind = "today", f.kind = "today", g.kind = "today", Before(e, f), Before(f, g)
    PROVE  Before(e, g)
<1>1. /\ e.pts \in Nat /\ f.pts \in Nat /\ g.pts \in Nat
      /\ e.ref \in Nat /\ f.ref \in Nat /\ g.ref \in Nat
  BY DEF ClaimSet
<1>2. IdOf(e.ref) \in Int /\ IdOf(f.ref) \in Int /\ IdOf(g.ref) \in Int
  BY <1>1, IdsAreNumbers
<1>3. /\ e.pts > f.pts \/ (e.pts = f.pts /\ IdOf(e.ref) < IdOf(f.ref))
      /\ f.pts > g.pts \/ (f.pts = g.pts /\ IdOf(f.ref) < IdOf(g.ref))
      /\ Before(e, g) <=> e.pts > g.pts \/ (e.pts = g.pts /\ IdOf(e.ref) < IdOf(g.ref))
  BY BeforeIs
<1> QED BY <1>1, <1>2, <1>3

-----------------------------------------------------------------------------
(* One insertion.                                                              *)

\* t is s with e put at place p.
IsInserted(t, s, e, p) ==
    /\ Len(t) = Len(s) + 1
    /\ \A k \in 1..Len(t) : t[k] = IF k < p THEN s[k] ELSE IF k = p THEN e ELSE s[k - 1]

LEMMA InsertAtIs ==
    ASSUME NEW s \in Seq(ClaimSet), NEW e \in ClaimSet, NEW p \in 1..(Len(s) + 1)
    PROVE  InsertAt(s, p, e) \in Seq(ClaimSet) /\ IsInserted(InsertAt(s, p, e), s, e, p)
<1>1. PICK u : u = SubSeq(s, 1, p - 1)
  OBVIOUS
<1>2. PICK v : v = SubSeq(s, p, Len(s))
  OBVIOUS
<1>3. u \in Seq(ClaimSet) /\ Len(u) = p - 1 /\ \A k \in 1..(p - 1) : u[k] = s[k]
  BY <1>1
<1>4. v \in Seq(ClaimSet) /\ Len(v) = Len(s) - p + 1 /\ \A k \in 1..(Len(s) - p + 1) : v[k] = s[k + p - 1]
  BY <1>2
<1>5. PICK w : w = u \o <<e>>
  OBVIOUS
<1>6. /\ w \in Seq(ClaimSet) /\ Len(w) = p
      /\ \A k \in 1..p : w[k] = IF k < p THEN s[k] ELSE e
  BY <1>3, <1>5
<1>7. PICK t : t = w \o v
  OBVIOUS
<1>8. t \in Seq(ClaimSet) /\ Len(t) = Len(s) + 1
  BY <1>4, <1>6, <1>7
<1>9. ASSUME NEW k \in 1..Len(t)
      PROVE  t[k] = IF k < p THEN s[k] ELSE IF k = p THEN e ELSE s[k - 1]
  <2>1. CASE k <= p
    BY <1>4, <1>6, <1>7, <1>8, <2>1
  <2>2. CASE k > p
    <3>1. t[k] = v[k - p]
      BY <1>4, <1>6, <1>7, <1>8, <2>2
    <3>2. k - p \in 1..(Len(s) - p + 1) /\ k - p + p - 1 = k - 1
      BY <1>8, <2>2
    <3>3. v[k - p] = s[k - 1]
      BY <1>4, <3>2
    <3> QED BY <2>2, <3>1, <3>3
  <2> QED BY <2>1, <2>2
<1>10. t = InsertAt(s, p, e)
  BY <1>1, <1>2, <1>5, <1>7 DEF InsertAt
<1> QED BY <1>8, <1>9, <1>10 DEF IsInserted

\* The place a claim gets: before all behind it, not before its neighbour in front.
IsPlaced(t, s, e, p) ==
    /\ IsInserted(t, s, e, p)
    /\ p > 1 => ~Before(e, s[p - 1])
    /\ \A k \in p..Len(s) : Before(e, s[k])

LEMMA InsertClaimIs ==
    ASSUME NEW s \in Seq(ClaimSet), NEW e \in ClaimSet
    PROVE  \E t \in Seq(ClaimSet), p \in 1..(Len(s) + 1) : t = InsertClaim(s, e) /\ IsPlaced(t, s, e, p)
<1>1. PICK T : T = {0} \cup {j \in 1..Len(s) : ~Before(e, s[j])}
  OBVIOUS
<1>2. T \in SUBSET Nat /\ T # {} /\ \A j \in T : j <= Len(s)
  BY <1>1
<1>3. PICK n \in Nat : n = Len(s)
  OBVIOUS
<1>4. \E j \in T : \A k \in T : k <= j
  <2>1. \A j \in T : j <= n
    BY <1>2, <1>3
  <2> QED BY <1>2, <2>1, GreatestNumber
<1>5. PICK q : q = CHOOSE j \in T : \A k \in T : k <= j
  OBVIOUS
<1>6. q \in T /\ q \in Nat /\ q <= Len(s) /\ \A k \in T : k <= q
  BY <1>2, <1>5, <1>4
<1>7. PICK p : p = 1 + q
  OBVIOUS
<1>8. p \in 1..(Len(s) + 1) /\ p - 1 = q
  BY <1>6, <1>7
<1>9. PICK t : t = InsertAt(s, p, e)
  OBVIOUS
<1>10. t = InsertClaim(s, e)
  BY <1>1, <1>5, <1>7, <1>9 DEF InsertClaim
<1>11. t \in Seq(ClaimSet) /\ IsInserted(t, s, e, p)
  BY <1>8, <1>9, InsertAtIs
<1>12. p > 1 => ~Before(e, s[p - 1])
  <2> SUFFICES ASSUME p > 1 PROVE ~Before(e, s[q])
    BY <1>8
  <2>1. q # 0
    BY <1>6, <1>8
  <2> QED BY <1>1, <1>6, <2>1
<1>13. ASSUME NEW k \in p..Len(s) PROVE Before(e, s[k])
  <2>1. k \in 1..Len(s) /\ ~(k <= q)
    BY <1>6, <1>8
  <2>2. k \notin T
    BY <1>6, <2>1
  <2> QED BY <1>1, <2>1, <2>2
<1> QED BY <1>8, <1>10, <1>11, <1>12, <1>13 DEF IsPlaced
-----------------------------------------------------------------------------
(* What the insertions keep true although Before is no order: every start of   *)
(* today stands behind exactly the claims that beat it, and the claims that    *)
(* are certain, like those that are estimated, stand by their value.           *)

TodaysInPlace(s) ==
    \A j, k \in 1..Len(s) : s[j].kind = "today" /\ k # j => (Before(s[k], s[j]) <=> k < j)
CertainByValue(s) ==
    \A j, k \in 1..Len(s) :
       j < k /\ s[j].kind # "estimated" /\ s[k].kind # "estimated" => s[j].pts >= s[k].pts
EstimatesByValue(s) ==
    \A j, k \in 1..Len(s) :
       j < k /\ s[j].kind = "estimated" /\ s[k].kind = "estimated" => s[j].pts >= s[k].pts
Ranked(s) == TodaysInPlace(s) /\ CertainByValue(s) /\ EstimatesByValue(s)

\* The claims come in the order of their kinds, the estimates by their value.
Follows(e, s) ==
    /\ e.kind = "today" => \A k \in 1..Len(s) : s[k].kind = "today" /\ s[k].ref # e.ref
    /\ e.kind = "future" => \A k \in 1..Len(s) : s[k].kind # "estimated"
    /\ e.kind = "estimated" => \A k \in 1..Len(s) : s[k].kind = "estimated" => s[k].pts >= e.pts

\* Where the new claim stands to the others, by its kind.
FitsAt(s, e, p) ==
    /\ \A k \in 1..Len(s) : s[k].kind = "today" => (Before(e, s[k]) <=> k >= p)
    /\ e.kind = "today" => \A k \in 1..Len(s) : Before(s[k], e) <=> k < p
    /\ e.kind # "estimated" =>
         \A k \in 1..Len(s) : s[k].kind # "estimated" =>
            (k < p => s[k].pts >= e.pts) /\ (k >= p => e.pts >= s[k].pts)
    /\ e.kind = "estimated" =>
         \A k \in 1..Len(s) : s[k].kind = "estimated" => k < p /\ s[k].pts >= e.pts

LEMMA TodayFits ==
    ASSUME WeekIsTyped, NEW s \in Seq(ClaimSet), NEW e \in ClaimSet, NEW p \in 1..(Len(s) + 1),
           NEW t, IsPlaced(t, s, e, p), Ranked(s), Follows(e, s), e.kind = "today"
    PROVE  FitsAt(s, e, p)
<1>1. \A k \in 1..Len(s) : s[k] \in ClaimSet /\ s[k].kind = "today" /\ s[k].ref # e.ref
  BY DEF Follows
<1>2. \A k \in 1..Len(s) : Before(s[k], e) <=> ~Before(e, s[k])
  BY <1>1, BeatsOrIsBeaten
<1>3. ASSUME NEW k \in 1..Len(s) PROVE Before(e, s[k]) <=> k >= p
  <2>1. CASE k >= p
    <3>1. k \in p..Len(s)
      BY <2>1
    <3> QED BY <2>1, <3>1 DEF IsPlaced
  <2>2. CASE k < p
    <3>1. p - 1 \in 1..Len(s) /\ p > 1 /\ k <= p - 1
      BY <2>2
    <3>2. PICK q \in 1..Len(s) : q = p - 1
      BY <3>1
    <3>3. ~Before(e, s[q]) /\ Before(s[q], e)
      BY <1>2, <3>1, <3>2 DEF IsPlaced
    <3>4. CASE k = q
      BY <2>2, <3>3, <3>4
    <3>5. CASE k # q
      <4>1. k < q
        BY <3>1, <3>2, <3>5
      <4>2. Before(s[k], s[q])
        BY <1>1, <3>5, <4>1 DEF Ranked, TodaysInPlace
      <4>3. Before(s[k], e)
        BY <1>1, <3>3, <4>2, TodaysAreOrdered
      <4> QED BY <1>2, <2>2, <4>3
    <3> QED BY <3>4, <3>5
  <2> QED BY <2>1, <2>2
<1>4. \A k \in 1..Len(s) : Before(s[k], e) <=> k < p
  BY <1>2, <1>3
<1>5. ASSUME NEW k \in 1..Len(s)
      PROVE  (k < p => s[k].pts >= e.pts) /\ (k >= p => e.pts >= s[k].pts)
  <2>1. s[k].pts \in Nat /\ e.pts \in Nat
    BY <1>1 DEF ClaimSet
  <2>2. /\ Before(e, s[k]) => e.pts >= s[k].pts
        /\ Before(s[k], e) => s[k].pts >= e.pts
    BY <1>1, <2>1, BeforeIs
  <2> QED BY <1>3, <1>4, <2>2
<1> QED BY <1>3, <1>4, <1>5 DEF FitsAt

LEMMA FutureFits ==
    ASSUME WeekIsTyped, NEW s \in Seq(ClaimSet), NEW e \in ClaimSet, NEW p \in 1..(Len(s) + 1),
           NEW t, IsPlaced(t, s, e, p), Ranked(s), Follows(e, s), e.kind = "future"
    PROVE  FitsAt(s, e, p)
<1>1. \A k \in 1..Len(s) : s[k] \in ClaimSet /\ s[k].kind # "estimated"
  BY DEF Follows
<1>2. ASSUME NEW k \in 1..Len(s) PROVE Before(e, s[k]) <=> e.pts > s[k].pts
  BY <1>1, BeforeIs DEF ClaimSet, Kinds
<1>3. ASSUME NEW k \in 1..Len(s), k >= p PROVE Before(e, s[k]) /\ e.pts >= s[k].pts
  <2>1. k \in p..Len(s)
    BY <1>3
  <2>2. s[k].pts \in Nat /\ e.pts \in Nat
    BY <1>1 DEF ClaimSet
  <2> QED BY <1>2, <2>1, <2>2 DEF IsPlaced
<1>4. ASSUME NEW k \in 1..Len(s), k < p PROVE ~Before(e, s[k]) /\ s[k].pts >= e.pts
  <2>1. p - 1 \in 1..Len(s) /\ p > 1 /\ k <= p - 1
    BY <1>4
  <2>2. PICK q \in 1..Len(s) : q = p - 1
    BY <2>1
  <2>3. s[k].pts \in Nat /\ s[q].pts \in Nat /\ e.pts \in Nat
    BY <1>1 DEF ClaimSet
  <2>4. ~(e.pts > s[q].pts)
    BY <1>2, <2>1, <2>2 DEF IsPlaced
  <2>5. k < q => s[k].pts >= s[q].pts
    BY <1>1 DEF Ranked, CertainByValue
  <2>6. s[k].pts >= s[q].pts
    <3>1. CASE k < q
      BY <2>5, <3>1
    <3>2. CASE k = q
      BY <2>3, <3>2
    <3> QED BY <2>1, <2>2, <3>1, <3>2
  <2>7. s[k].pts >= e.pts /\ ~(e.pts > s[k].pts)
    BY <2>3, <2>4, <2>6
  <2> QED BY <1>2, <2>7
<1> QED BY <1>3, <1>4 DEF FitsAt

LEMMA EstimateFits ==
    ASSUME WeekIsTyped, NEW s \in Seq(ClaimSet), NEW e \in ClaimSet, NEW p \in 1..(Len(s) + 1),
           NEW t, IsPlaced(t, s, e, p), Ranked(s), Follows(e, s), e.kind = "estimated"
    PROVE  FitsAt(s, e, p)
<1>1. \A k \in 1..Len(s) : /\ s[k] \in ClaimSet /\ s[k].pts \in Nat /\ s[k].kind \in Kinds
                           /\ s[k].kind = "estimated" => s[k].pts >= e.pts
  <2>1. \A k \in 1..Len(s) : s[k] \in ClaimSet
    OBVIOUS
  <2>2. \A k \in 1..Len(s) : s[k].pts \in Nat /\ s[k].kind \in Kinds
    BY <2>1 DEF ClaimSet
  <2> QED BY <2>1, <2>2 DEF Follows
<1>2. e.pts \in Nat
  BY DEF ClaimSet
<1>3. ASSUME NEW k \in 1..Len(s)
      PROVE  /\ s[k].kind = "today" => (Before(e, s[k]) <=> 10 * e.pts > 11 * s[k].pts)
             /\ s[k].kind # "today" => (Before(e, s[k]) <=> e.pts > s[k].pts)
  BY <1>1, BeforeIs
<1>4. ASSUME NEW k \in 1..Len(s), k >= p PROVE Before(e, s[k])
  <2>1. k \in p..Len(s)
    BY <1>4
  <2> QED BY <2>1 DEF IsPlaced
<1>5. ASSUME NEW k \in 1..Len(s), s[k].kind = "estimated" PROVE k < p
  <2>1. ~Before(e, s[k])
    BY <1>1, <1>2, <1>3, <1>5
  <2> QED BY <1>4, <2>1
<1>6. ASSUME NEW k \in 1..Len(s), k < p, s[k].kind = "today" PROVE ~Before(e, s[k])
  <2>1. p - 1 \in 1..Len(s) /\ p > 1 /\ k <= p - 1
    BY <1>6
  <2>2. PICK q \in 1..Len(s) : q = p - 1
    BY <2>1
  <2>3. s[k].pts \in Nat /\ s[q].pts \in Nat /\ ~Before(e, s[q]) /\ s[q].kind \in Kinds
    BY <1>1, <2>1, <2>2 DEF IsPlaced
  <2>4. CASE k = q
    BY <2>3, <2>4
  <2>5. CASE k # q /\ s[q].kind # "estimated"
    <3>1. k < q
      BY <2>1, <2>2, <2>5
    <3>2. s[k].pts >= s[q].pts
      BY <1>6, <2>5, <3>1 DEF Ranked, CertainByValue
    <3>3. 10 * e.pts <= 11 * s[q].pts
      <4>1. PICK x \in Nat, z \in Nat : x = e.pts /\ z = s[q].pts
        BY <1>2, <2>3
      <4>2. ~(10 * x > 11 * z) \/ ~(x > z)
        BY <1>3, <2>3, <4>1
      <4>3. 10 * x <= 11 * z
        BY <4>2
      <4> QED BY <4>1, <4>3
    <3>4. ~(10 * e.pts > 11 * s[k].pts)
      <4>1. PICK x \in Nat, y \in Nat, z \in Nat : x = e.pts /\ y = s[k].pts /\ z = s[q].pts
        BY <1>2, <2>3
      <4>2. y >= z /\ 10 * x <= 11 * z
        BY <3>2, <3>3, <4>1
      <4>3. ~(10 * x > 11 * y)
        BY <4>2
      <4> QED BY <4>1, <4>3
    <3> QED BY <1>3, <1>6, <3>4
  <2>6. CASE k # q /\ s[q].kind = "estimated"
    <3>1. ~(q < k)
      BY <2>1, <2>2
    <3>2. ~Before(s[q], s[k])
      BY <1>6, <2>6, <3>1 DEF Ranked, TodaysInPlace
    <3>3. Before(s[q], s[k]) <=> 10 * s[q].pts > 11 * s[k].pts
      BY <1>1, <1>6, <2>6, BeforeIs
    <3>4. s[q].pts >= e.pts
      BY <1>1, <2>6
    <3>5. ~(10 * e.pts > 11 * s[k].pts)
      <4>1. PICK x \in Nat, y \in Nat, z \in Nat : x = e.pts /\ y = s[k].pts /\ z = s[q].pts
        BY <1>2, <2>3
      <4>2. z >= x /\ ~(10 * z > 11 * y)
        BY <3>2, <3>3, <3>4, <4>1
      <4>3. ~(10 * x > 11 * y)
        BY <4>2
      <4> QED BY <4>1, <4>3
    <3> QED BY <1>3, <1>6, <3>5
  <2> QED BY <2>4, <2>5, <2>6
<1> QED BY <1>1, <1>4, <1>5, <1>6 DEF FitsAt

\* Where a claim of the longer list, other than the new one, was in the shorter.
CameFrom(t, s, p, j, a) == t[j] = s[a] /\ (j < p => a = j) /\ (j > p => a = j - 1)

LEMMA PlaceBefore ==
    ASSUME NEW s \in Seq(ClaimSet), NEW e, NEW p \in 1..(Len(s) + 1), NEW t, IsPlaced(t, s, e, p),
           NEW j \in 1..Len(t), j # p
    PROVE  \E a \in 1..Len(s) : CameFrom(t, s, p, j, a)
<1>1. /\ Len(s) \in Nat /\ Len(t) = Len(s) + 1
      /\ t[j] = IF j < p THEN s[j] ELSE IF j = p THEN e ELSE s[j - 1]
  BY DEF IsPlaced, IsInserted
<1>2. PICK n \in Nat : n = Len(s)
  BY <1>1
<1>3. j \in 1..(n + 1) /\ p \in 1..(n + 1)
  BY <1>1, <1>2
<1>4. CASE j < p
  <2>1. j \in 1..n /\ ~(j > p)
    BY <1>3, <1>4
  <2>2. t[j] = s[j]
    BY <1>1, <1>4
  <2>3. j \in 1..Len(s)
    BY <1>2, <2>1
  <2>4. CameFrom(t, s, p, j, j)
    BY <1>4, <2>1, <2>2 DEF CameFrom
  <2> QED BY <2>3, <2>4
<1>5. CASE j > p
  <2>1. j - 1 \in 1..n /\ ~(j < p) /\ j # p
    BY <1>3, <1>5
  <2>2. t[j] = s[j - 1]
    BY <1>1, <2>1
  <2>3. j - 1 \in 1..Len(s)
    BY <1>2, <2>1
  <2>4. CameFrom(t, s, p, j, j - 1)
    BY <1>5, <2>1, <2>2 DEF CameFrom
  <2> QED BY <2>3, <2>4
<1> QED BY <1>3, <1>4, <1>5

LEMMA InsertionKeepsRanked ==
    ASSUME WeekIsTyped, NEW s \in Seq(ClaimSet), NEW e \in ClaimSet, NEW p \in 1..(Len(s) + 1),
           NEW t, IsPlaced(t, s, e, p), Ranked(s), Follows(e, s)
    PROVE  Ranked(t)
<1>1. e.kind \in Kinds
  BY DEF ClaimSet
<1>2. FitsAt(s, e, p)
  BY <1>1, TodayFits, FutureFits, EstimateFits DEF Kinds
<1>3. /\ Len(s) \in Nat /\ Len(t) = Len(s) + 1
      /\ \A k \in 1..Len(t) : t[k] = IF k < p THEN s[k] ELSE IF k = p THEN e ELSE s[k - 1]
  BY DEF IsPlaced, IsInserted
\* The place in s of a claim of t.
<1>4. \A k \in 1..Len(t) : \/ k < p /\ k \in 1..Len(s) /\ t[k] = s[k]
                           \/ k = p /\ t[k] = e
                           \/ k > p /\ k - 1 \in 1..Len(s) /\ k - 1 >= p /\ t[k] = s[k - 1]
  BY <1>3
<1>5. \A i \in 1..Len(t) : i # p => \E a \in 1..Len(s) : CameFrom(t, s, p, i, a)
  BY PlaceBefore
<1>6. ASSUME NEW j \in 1..Len(t), NEW k \in 1..Len(t), t[j].kind = "today", k # j
      PROVE  Before(t[k], t[j]) <=> k < j
  <2>1. CASE j = p
    <3>1. e.kind = "today" /\ t[j] = e
      BY <1>4, <1>6, <2>1
    <3>2. \A i \in 1..Len(s) : Before(s[i], e) <=> i < p
      BY <1>2, <3>1 DEF FitsAt
    <3>3. CASE k < p
      BY <1>4, <2>1, <3>1, <3>2, <3>3
    <3>4. CASE k > p
      BY <1>4, <2>1, <3>1, <3>2, <3>4
    <3> QED BY <1>6, <2>1, <3>3, <3>4
  <2>2. CASE j # p /\ k = p
    <3>1. \A i \in 1..Len(s) : s[i].kind = "today" => (Before(e, s[i]) <=> i >= p)
      BY <1>2 DEF FitsAt
    <3>2. CASE j < p
      BY <1>4, <1>6, <2>2, <3>1, <3>2
    <3>3. CASE j > p
      <4>1. PICK a \in 1..Len(s) : a = j - 1 /\ a >= p /\ t[j] = s[a]
        BY <1>4, <3>3
      <4>2. Before(e, s[a])
        BY <1>6, <3>1, <4>1
      <4>3. t[k] = e /\ k < j
        BY <1>4, <2>2, <3>3
      <4> QED BY <4>1, <4>2, <4>3
    <3> QED BY <2>2, <3>2, <3>3
  <2>3. CASE j # p /\ k # p
    <3>1. PICK a \in 1..Len(s) : CameFrom(t, s, p, j, a)
      BY <1>5, <2>3
    <3>2. PICK b \in 1..Len(s) : CameFrom(t, s, p, k, b)
      BY <1>5, <2>3
    <3>3. b # a /\ (b < a <=> k < j)
      BY <1>6, <2>3, <3>1, <3>2 DEF CameFrom
    <3> QED BY <1>6, <3>1, <3>2, <3>3 DEF Ranked, TodaysInPlace, CameFrom
  <2> QED BY <2>1, <2>2, <2>3
<1>7. ASSUME NEW j \in 1..Len(t), NEW k \in 1..Len(t), j < k,
             t[j].kind # "estimated", t[k].kind # "estimated"
      PROVE  t[j].pts >= t[k].pts
  <2>1. CASE j = p
    <3>1. PICK a \in 1..Len(s) : a = k - 1 /\ a >= p /\ t[k] = s[a]
      BY <1>4, <1>7, <2>1
    <3>2. t[j] = e
      BY <1>4, <2>1
    <3> QED BY <1>2, <1>7, <3>1, <3>2 DEF FitsAt
  <2>2. CASE k = p
    BY <1>2, <1>4, <1>7, <2>2 DEF FitsAt
  <2>3. CASE j # p /\ k # p
    <3>1. PICK a \in 1..Len(s) : CameFrom(t, s, p, j, a)
      BY <1>5, <2>3
    <3>2. PICK b \in 1..Len(s) : CameFrom(t, s, p, k, b)
      BY <1>5, <2>3
    <3>3. a < b
      BY <1>7, <2>3, <3>1, <3>2 DEF CameFrom
    <3> QED BY <1>7, <3>1, <3>2, <3>3 DEF Ranked, CertainByValue, CameFrom
  <2> QED BY <2>1, <2>2, <2>3
<1>8. ASSUME NEW j \in 1..Len(t), NEW k \in 1..Len(t), j < k,
             t[j].kind = "estimated", t[k].kind = "estimated"
      PROVE  t[j].pts >= t[k].pts
  <2>1. CASE j = p
    BY <1>2, <1>4, <1>8, <2>1 DEF FitsAt
  <2>2. CASE k = p
    BY <1>2, <1>4, <1>8, <2>2 DEF FitsAt
  <2>3. CASE j # p /\ k # p
    <3>1. PICK a \in 1..Len(s) : CameFrom(t, s, p, j, a)
      BY <1>5, <2>3
    <3>2. PICK b \in 1..Len(s) : CameFrom(t, s, p, k, b)
      BY <1>5, <2>3
    <3>3. a < b
      BY <1>8, <2>3, <3>1, <3>2 DEF CameFrom
    <3> QED BY <1>8, <3>1, <3>2, <3>3 DEF Ranked, EstimatesByValue, CameFrom
  <2> QED BY <2>1, <2>2, <2>3
<1> QED BY <1>6, <1>7, <1>8 DEF Ranked, TodaysInPlace, CertainByValue, EstimatesByValue
-----------------------------------------------------------------------------
(* The sort of a whole list of claims.                                         *)

InOrder(A) ==
    \A j, k \in 1..Len(A) : j < k =>
       /\ A[k].kind = "today" => A[j].kind = "today" /\ A[j].ref # A[k].ref
       /\ A[k].kind = "future" => A[j].kind # "estimated"
       /\ A[k].kind = "estimated" /\ A[j].kind = "estimated" => A[j].pts >= A[k].pts

\* s holds the first m claims of A, each once; pi tells which.
Reorders(pi, s, A, m) ==
    /\ pi \in [1..m -> 1..m]
    /\ \A j, k \in 1..m : pi[j] = pi[k] => j = k
    /\ \A i \in 1..m : \E k \in 1..m : pi[k] = i
    /\ \A k \in 1..m : s[k] = A[pi[k]]

LEMMA InsertionReorders ==
    ASSUME NEW A \in Seq(ClaimSet), NEW m \in Nat, m > 0, m <= Len(A),
           NEW s \in Seq(ClaimSet), Len(s) = m - 1, NEW p \in 1..m,
           NEW t, IsInserted(t, s, A[m], p), NEW pi, Reorders(pi, s, A, m - 1)
    PROVE  \E rho : Reorders(rho, t, A, m)
<1> DEFINE rho == [k \in 1..m |-> IF k < p THEN pi[k] ELSE IF k = p THEN m ELSE pi[k - 1]]
<1>1. /\ m - 1 \in Nat
      /\ \A k \in 1..(m - 1) : pi[k] \in 1..(m - 1)
      /\ \A j, k \in 1..(m - 1) : pi[j] = pi[k] => j = k
      /\ \A k \in 1..(m - 1) : s[k] = A[pi[k]]
  <2>1. m - 1 \in Nat
    OBVIOUS
  <2>2. pi \in [1..(m - 1) -> 1..(m - 1)]
    BY DEF Reorders
  <2>3. \A k \in 1..(m - 1) : pi[k] \in 1..(m - 1)
    BY <2>2
  <2> QED BY <2>1, <2>3 DEF Reorders
<1>2. \A i \in 1..(m - 1) : \E k \in 1..(m - 1) : pi[k] = i
  BY DEF Reorders
<1>3. \A k \in 1..m : t[k] = IF k < p THEN s[k] ELSE IF k = p THEN A[m] ELSE s[k - 1]
  BY DEF IsInserted
<1>4. \A k \in 1..m : rho[k] = IF k < p THEN pi[k] ELSE IF k = p THEN m ELSE pi[k - 1]
  OBVIOUS
<1>5. rho = [k \in 1..m |-> rho[k]]
  OBVIOUS
<1> HIDE DEF rho
<1>6. ASSUME NEW k \in 1..m
      PROVE  \/ k = p /\ rho[k] = m /\ t[k] = A[m]
             \/ \E a \in 1..(m - 1) : /\ rho[k] = pi[a] /\ t[k] = s[a]
                                      /\ (k < p /\ a = k) \/ (k > p /\ a = k - 1)
  <2>1. CASE k = p
    BY <1>3, <1>4, <2>1
  <2>2. CASE k < p
    <3>1. k \in 1..(m - 1)
      BY <2>2
    <3> QED BY <1>3, <1>4, <2>2, <3>1
  <2>3. CASE k > p
    <3>1. PICK a \in 1..(m - 1) : a = k - 1
      BY <2>3
    <3>2. ~(k < p) /\ k # p
      BY <2>3
    <3>3. rho[k] = pi[a] /\ t[k] = s[a]
      BY <1>3, <1>4, <3>1, <3>2
    <3> QED BY <2>3, <3>1, <3>3
  <2> QED BY <2>1, <2>2, <2>3
<1>7. ASSUME NEW k \in 1..m PROVE rho[k] \in 1..m /\ t[k] = A[rho[k]] /\ (rho[k] = m <=> k = p)
  <2>1. CASE k = p
    BY <1>6, <2>1
  <2>2. CASE k # p
    <3>1. PICK a \in 1..(m - 1) : rho[k] = pi[a] /\ t[k] = s[a]
      BY <1>6, <2>2
    <3>2. pi[a] \in 1..(m - 1) /\ s[a] = A[pi[a]]
      BY <1>1
    <3> QED BY <2>2, <3>1, <3>2
  <2> QED BY <2>1, <2>2
<1>8. ASSUME NEW j \in 1..m, NEW k \in 1..m, rho[j] = rho[k] PROVE j = k
  <2>1. CASE j = p \/ k = p
    BY <1>7, <1>8, <2>1
  <2>2. CASE j # p /\ k # p
    <3>1. PICK a \in 1..(m - 1) : rho[j] = pi[a] /\ ((j < p /\ a = j) \/ (j > p /\ a = j - 1))
      BY <1>6, <2>2
    <3>2. PICK b \in 1..(m - 1) : rho[k] = pi[b] /\ ((k < p /\ b = k) \/ (k > p /\ b = k - 1))
      BY <1>6, <2>2
    <3>3. a = b
      BY <1>1, <1>8, <3>1, <3>2
    <3> QED BY <3>1, <3>2, <3>3
  <2> QED BY <2>1, <2>2
<1>9. ASSUME NEW i \in 1..m PROVE \E k \in 1..m : rho[k] = i
  <2>1. CASE i = m
    BY <1>7, <2>1
  <2>2. CASE i # m
    <3>1. i \in 1..(m - 1)
      BY <2>2
    <3>2. PICK a \in 1..(m - 1) : pi[a] = i
      BY <1>2, <3>1
    <3>3. CASE a < p
      <4>1. a \in 1..m
        OBVIOUS
      <4> QED BY <1>4, <3>2, <3>3, <4>1
    <3>4. CASE a >= p
      <4>1. PICK k \in 1..m : k = a + 1
        OBVIOUS
      <4>2. ~(k < p) /\ k # p /\ k - 1 = a
        BY <3>4, <4>1
      <4> QED BY <1>4, <3>2, <4>2
    <3> QED BY <3>3, <3>4
  <2> QED BY <2>1, <2>2
<1>10. rho \in [1..m -> 1..m]
  BY <1>5, <1>7
<1>11. Reorders(rho, t, A, m)
  BY <1>7, <1>8, <1>9, <1>10 DEF Reorders
<1> QED BY <1>11

SortedSoFar(s, A, m) ==
    s \in Seq(ClaimSet) /\ Len(s) = m /\ Ranked(s) /\ \E pi : Reorders(pi, s, A, m)

LEMMA SortStep ==
    ASSUME WeekIsTyped, NEW A \in Seq(ClaimSet), InOrder(A), NEW m \in Nat, m > 0, m <= Len(A),
           NEW s, SortedSoFar(s, A, m - 1), NEW t, t = InsertClaim(s, A[m])
    PROVE  SortedSoFar(t, A, m)
<1>1. s \in Seq(ClaimSet) /\ Len(s) = m - 1 /\ Ranked(s)
  BY DEF SortedSoFar
<1>2. PICK pi : Reorders(pi, s, A, m - 1)
  BY DEF SortedSoFar
<1>3. PICK e \in ClaimSet : e = A[m]
  OBVIOUS
<1>4. PICK p \in 1..(Len(s) + 1) : t \in Seq(ClaimSet) /\ IsPlaced(t, s, e, p)
  BY <1>1, <1>3, InsertClaimIs
<1>5. ASSUME NEW k \in 1..Len(s)
      PROVE  \E j \in 1..Len(A) : j < m /\ s[k] = A[j]
  <2>1. k \in 1..(m - 1)
    BY <1>1
  <2>2. pi[k] \in 1..(m - 1) /\ s[k] = A[pi[k]]
    BY <1>2, <2>1 DEF Reorders
  <2>3. PICK j \in 1..(m - 1) : j = pi[k]
    BY <2>2
  <2>4. j \in 1..Len(A) /\ j < m
    OBVIOUS
  <2> QED BY <2>2, <2>3, <2>4
<1>6. m \in 1..Len(A)
  OBVIOUS
<1>7. ASSUME NEW k \in 1..Len(s)
      PROVE  /\ e.kind = "today" => s[k].kind = "today" /\ s[k].ref # e.ref
             /\ e.kind = "future" => s[k].kind # "estimated"
             /\ e.kind = "estimated" /\ s[k].kind = "estimated" => s[k].pts >= e.pts
  <2>1. PICK j \in 1..Len(A) : j < m /\ s[k] = A[j]
    BY <1>5
  <2>2. /\ e.kind = "today" => A[j].kind = "today" /\ A[j].ref # e.ref
        /\ e.kind = "future" => A[j].kind # "estimated"
        /\ e.kind = "estimated" /\ A[j].kind = "estimated" => A[j].pts >= e.pts
    BY <1>3, <1>6, <2>1 DEF InOrder
  <2> QED BY <2>1, <2>2
<1>8. Follows(e, s)
  BY <1>7 DEF Follows
<1>9. Ranked(t)
  BY <1>1, <1>4, <1>8, InsertionKeepsRanked
<1>10. Len(t) = m /\ p \in 1..m /\ IsInserted(t, s, A[m], p)
  BY <1>1, <1>3, <1>4 DEF IsPlaced, IsInserted
<1>11. \E rho : Reorders(rho, t, A, m)
  BY <1>1, <1>2, <1>10, InsertionReorders
<1> QED BY <1>4, <1>9, <1>10, <1>11 DEF SortedSoFar

LEMMA SortRanks ==
    ASSUME WeekIsTyped, NEW A \in Seq(ClaimSet), InOrder(A), NEW s, s = FoldLeft(InsertClaim, <<>>, A)
    PROVE  SortedSoFar(s, A, Len(A))
<1>1. PICK n \in Nat : n = Len(A) /\ DOMAIN A = 1..n
  OBVIOUS
<1>2. PICK R : /\ R[0] = <<>>
               /\ \A k \in 1..n : R[k] = InsertClaim(R[k - 1], A[k])
               /\ s = R[n]
  BY <1>1, SortSteps
<1> DEFINE T == {m \in Nat : m <= n /\ ~SortedSoFar(R[m], A, m)}
<1>3. SUFFICES ASSUME T # {} PROVE FALSE
  BY <1>1, <1>2
<1>4. PICK m \in T : \A l \in T : m <= l
  <2>1. T \in SUBSET Nat
    OBVIOUS
  <2> HIDE DEF T
  <2> QED BY <1>3, <2>1, LeastNumber
<1>5. m \in Nat /\ m <= n /\ ~SortedSoFar(R[m], A, m)
  BY <1>4
<1>6. CASE m = 0
  <2>1. PICK u : u = R[0]
    OBVIOUS
  <2>2. u = <<>> /\ u \in Seq(ClaimSet) /\ Len(u) = 0
    BY <1>2, <2>1
  <2>3. Ranked(u)
    BY <2>2 DEF Ranked, TodaysInPlace, CertainByValue, EstimatesByValue
  <2>4. Reorders(<<>>, u, A, 0)
    BY <2>2 DEF Reorders
  <2>5. SortedSoFar(u, A, 0)
    BY <2>2, <2>3, <2>4 DEF SortedSoFar
  <2> QED BY <1>5, <1>6, <2>1, <2>5
<1>7. CASE m # 0
  <2>1. m - 1 \in Nat /\ m - 1 <= n /\ m \in 1..n /\ m > 0 /\ ~(m <= m - 1)
    BY <1>5, <1>7
  <2>2. SortedSoFar(R[m - 1], A, m - 1)
    BY <1>4, <2>1
  <2>3. PICK u : u = R[m - 1]
    OBVIOUS
  <2>4. PICK t : t = InsertClaim(u, A[m])
    OBVIOUS
  <2>5. t = R[m]
    BY <1>2, <2>1, <2>3, <2>4
  <2>6. SortedSoFar(t, A, m)
    BY <1>1, <1>5, <2>1, <2>2, <2>3, <2>4, SortStep
  <2> QED BY <1>5, <2>5, <2>6
<1> QED BY <1>6, <1>7
-----------------------------------------------------------------------------
(* The week's claims are such a list.                                          *)

LEMMA LeastOfTwo ==
    ASSUME NEW a \in Int, NEW b \in Int
    PROVE  Least({a, b}) = IF a <= b THEN a ELSE b
<1>1. PICK x : x = IF a <= b THEN a ELSE b
  OBVIOUS
<1>2. x \in {a, b} /\ \A y \in {a, b} : x <= y
  BY <1>1
<1>3. \A z \in {a, b} : (\A y \in {a, b} : z <= y) => z = x
  BY <1>1
<1>4. (CHOOSE z \in {a, b} : \A y \in {a, b} : z <= y) = x
  BY <1>2, <1>3
<1> QED BY <1>1, <1>4 DEF Least

OwnClaim(i) == Claim("today", 20 * week.today[i].pts, i)

LEMMA OwnClaims ==
    ASSUME WeekIsTyped, NEW i \in Candidates
    PROVE  OwnClaim(i) \in ClaimSet /\ OwnClaim(i).kind = "today" /\ OwnClaim(i).ref = i
<1>1. week.today[i].pts \in Nat /\ i \in Nat
  BY CandidatesAreFinite, WeekFacts
<1>2. 20 * week.today[i].pts \in Nat
  BY <1>1
<1> QED BY <1>1, <1>2 DEF OwnClaim, Claim, ClaimSet, Kinds

LEMMA EstimatesDescend ==
    ASSUME WeekIsTyped
    PROVE  \E E \in Seq(ClaimSet) :
              /\ E = EstimatedClaims
              /\ \A k \in 1..Len(E) : E[k].kind = "estimated"
              /\ \A j, k \in 1..Len(E) : j < k => E[j].pts >= E[k].pts
<1>1. PICK H \in Nat, W \in Nat : H = week.halves /\ W = week.placeholder
  BY WeekFacts
<1>2. PICK h \in Nat : h = (H + 1) \div 2 /\ 2 * h <= H + 1
  OBVIOUS
<1>3. PICK part : part = [k \in 1..h |-> IF H - 2 * (k - 1) >= 2 THEN 2 ELSE H - 2 * (k - 1)]
  OBVIOUS
<1>4. \A k \in 1..h : part[k] \in {1, 2} /\ (k < h => part[k] = 2)
  BY <1>2, <1>3
<1>5. PICK worth : worth = [k \in 1..h |-> 10 * W * part[k]]
  OBVIOUS
<1>6. \A k \in 1..h : worth[k] = 10 * W \/ worth[k] = 10 * W * 2
  BY <1>4, <1>5
<1>7. \A k \in 1..h : worth[k] \in Nat
  BY <1>6
<1>8. ASSUME NEW j \in 1..h, NEW k \in 1..h, j < k PROVE worth[j] >= worth[k]
  <2>1. part[j] = 2
    BY <1>4, <1>8
  <2>2. worth[j] = 10 * W * 2
    BY <1>5, <2>1
  <2> QED BY <1>6, <2>2
<1>9. PICK E : E = [k \in 1..h |-> Claim("estimated", worth[k], 0)]
  OBVIOUS
<1>10. \A k \in 1..h : Claim("estimated", worth[k], 0) \in ClaimSet
  BY <1>7 DEF Claim, ClaimSet, Kinds
<1>11. E \in Seq(ClaimSet) /\ Len(E) = h
  BY <1>9, <1>10
<1>12. \A k \in 1..h : E[k].kind = "estimated" /\ E[k].pts = worth[k]
  BY <1>9 DEF Claim
<1>13. ASSUME NEW k \in 1..h
       PROVE  10 * W * Least({2, H - 2 * (k - 1)}) = worth[k]
  <2>1. H - 2 * (k - 1) \in Int
    OBVIOUS
  <2>2. Least({2, H - 2 * (k - 1)}) = IF 2 <= H - 2 * (k - 1) THEN 2 ELSE H - 2 * (k - 1)
    BY <2>1, LeastOfTwo
  <2>3. Least({2, H - 2 * (k - 1)}) = part[k]
    BY <1>3, <2>1, <2>2
  <2> QED BY <1>5, <2>3
<1>14. E = EstimatedClaims
  BY <1>1, <1>2, <1>9, <1>13 DEF EstimatedClaims
<1> QED BY <1>8, <1>11, <1>12, <1>14

IsJoin(w, u, v, m, n) ==
    /\ w \in Seq(ClaimSet) /\ Len(w) = m + n
    /\ \A k \in 1..(m + n) : w[k] = IF k <= m THEN u[k] ELSE v[k - m]

LEMMA ListsJoined ==
    ASSUME NEW u \in Seq(ClaimSet), NEW v \in Seq(ClaimSet), NEW m, NEW n,
           m = Len(u), n = Len(v)
    PROVE  IsJoin(u \o v, u, v, m, n)
<1>1. PICK w : w = u \o v
  OBVIOUS
<1>2. w \in Seq(ClaimSet) /\ Len(w) = m + n
  BY <1>1
<1>3. ASSUME NEW k \in 1..(m + n) PROVE w[k] = IF k <= m THEN u[k] ELSE v[k - m]
  <2>1. k \in 1..(Len(u) + Len(v))
    OBVIOUS
  <2>2. w[k] = IF k <= Len(u) THEN u[k] ELSE v[k - Len(u)]
    BY <1>1, <2>1
  <2> QED BY <2>2
<1> QED BY <1>1, <1>2, <1>3 DEF IsJoin

LEMMA WeeksClaims ==
    ASSUME WeekIsTyped
    PROVE  \E A \in Seq(ClaimSet), c \in Nat :
              /\ A = AllClaims /\ c = Cardinality(Candidates) /\ c <= Len(A) /\ InOrder(A)
              /\ \A k \in 1..Len(A) : A[k].kind = "today" <=> k <= c
              /\ \A k \in 1..c : A[k] = OwnClaim(Nth(k))
<1>1. PICK c \in Nat : c = Cardinality(Candidates)
  BY CandidatesAreFinite
<1>2. PICK D : D = Candidates
  OBVIOUS
<1>3. PICK nth : nth = [k \in 1..c |-> Nth(k)]
  OBVIOUS
<1>4. PICK own : own = [i \in D |-> OwnClaim(i)]
  OBVIOUS
<1>5. \A k \in 1..c : nth[k] \in D /\ Cardinality({j \in D : j < nth[k]}) = k - 1
  BY <1>1, <1>2, <1>3, NthIs
<1>6. ASSUME NEW j \in 1..c, NEW k \in 1..c, j # k PROVE nth[j] # nth[k]
  <2>1. j - 1 # k - 1
    BY <1>6
  <2>2. Cardinality({o \in D : o < nth[j]}) = j - 1 /\ Cardinality({o \in D : o < nth[k]}) = k - 1
    BY <1>5
  <2> QED BY <2>1, <2>2
<1>7. \A i \in D : own[i] \in ClaimSet /\ own[i].kind = "today" /\ own[i].ref = i
  BY <1>2, <1>4, OwnClaims
<1>8. PICK X : X = [k \in 1..c |-> own[nth[k]]]
  OBVIOUS
<1>9. X \in Seq(ClaimSet) /\ Len(X) = c
  <2>1. \A k \in 1..c : own[nth[k]] \in ClaimSet
    BY <1>5, <1>7
  <2> QED BY <1>8, <2>1
<1>10. X = TodayClaims
  BY <1>1, <1>2, <1>3, <1>4, <1>5, <1>8 DEF TodayClaims, OwnClaim
<1>11. \A k \in 1..c : X[k].kind = "today" /\ X[k].ref = nth[k] /\ X[k] = OwnClaim(Nth(k))
  BY <1>3, <1>4, <1>5, <1>7, <1>8
<1>12. PICK F \in Seq(ClaimSet) : F = FutureClaims /\ \A k \in 1..Len(F) : F[k].kind = "future"
  <2>1. PICK f \in Nat : f = Len(week.future)
    BY WeekFacts
  <2>2. PICK F : F = [k \in 1..f |-> Claim("future", 20 * week.future[k], 0)]
    OBVIOUS
  <2>3. ASSUME NEW k \in 1..f
        PROVE  Claim("future", 20 * week.future[k], 0) \in ClaimSet /\ F[k].kind = "future"
    <3>1. week.future[k] \in Nat
      BY <2>1, WeekFacts
    <3>2. 20 * week.future[k] \in Nat
      BY <3>1
    <3> QED BY <2>2, <3>2 DEF Claim, ClaimSet, Kinds
  <2>4. F \in Seq(ClaimSet) /\ Len(F) = f
    BY <2>2, <2>3
  <2>5. F = FutureClaims
    BY <2>1, <2>2 DEF FutureClaims
  <2> QED BY <2>3, <2>4, <2>5
<1>13. PICK E \in Seq(ClaimSet) :
         /\ E = EstimatedClaims
         /\ \A k \in 1..Len(E) : E[k].kind = "estimated"
         /\ \A j, k \in 1..Len(E) : j < k => E[j].pts >= E[k].pts
  BY EstimatesDescend
<1>14. PICK f \in Nat, h \in Nat : f = Len(F) /\ h = Len(E)
  OBVIOUS
<1>15. PICK A : A = X \o F \o E
  OBVIOUS
<1>16. /\ A \in Seq(ClaimSet) /\ Len(A) = c + f + h
       /\ \A k \in 1..(c + f + h) :
            A[k] = IF k <= c THEN X[k] ELSE IF k <= c + f THEN F[k - c] ELSE E[k - c - f]
  <2>1. PICK B : B = X \o F
    OBVIOUS
  <2>2. /\ B \in Seq(ClaimSet) /\ Len(B) = c + f
        /\ \A k \in 1..(c + f) : B[k] = IF k <= c THEN X[k] ELSE F[k - c]
    <3>1. X \in Seq(ClaimSet) /\ Len(X) = c /\ F \in Seq(ClaimSet) /\ Len(F) = f
      BY <1>9, <1>14
    <3>2. IsJoin(X \o F, X, F, c, f)
      BY <3>1, ListsJoined
    <3> QED BY <2>1, <3>2 DEF IsJoin
  <2>3. /\ A \in Seq(ClaimSet) /\ Len(A) = c + f + h
        /\ \A k \in 1..(c + f + h) : A[k] = IF k <= c + f THEN B[k] ELSE E[k - c - f]
    <3>1. PICK m \in Nat : m = c + f
      OBVIOUS
    <3>2. A = B \o E /\ B \in Seq(ClaimSet) /\ Len(B) = m /\ E \in Seq(ClaimSet) /\ Len(E) = h
      BY <1>14, <1>15, <2>1, <2>2, <3>1
    <3>3. /\ A \in Seq(ClaimSet) /\ Len(A) = m + h
          /\ \A k \in 1..(m + h) : A[k] = IF k <= m THEN B[k] ELSE E[k - m]
      <4>1. IsJoin(B \o E, B, E, m, h)
        BY <3>2, ListsJoined
      <4> QED BY <3>2, <4>1 DEF IsJoin
    <3>4. \A k \in 1..(m + h) : k - m = k - c - f
      BY <3>1
    <3> QED BY <3>1, <3>3, <3>4
  <2> QED BY <2>2, <2>3
<1>17. A = AllClaims
  BY <1>10, <1>12, <1>13, <1>15 DEF AllClaims
<1>18. ASSUME NEW k \in 1..(c + f + h)
       PROVE  \/ k <= c /\ A[k] = X[k] /\ A[k].kind = "today" /\ A[k].ref = nth[k]
              \/ k > c /\ k <= c + f /\ A[k].kind = "future"
              \/ k > c + f /\ A[k].kind = "estimated"
  <2>1. CASE k <= c
    <3>1. k \in 1..c
      BY <2>1
    <3> QED BY <1>11, <1>16, <2>1, <3>1
  <2>2. CASE k > c /\ k <= c + f
    <3>1. PICK a \in 1..Len(F) : a = k - c
      BY <1>14, <2>2
    <3> QED BY <1>12, <1>16, <2>2, <3>1
  <2>3. CASE k > c + f
    <3>1. PICK a \in 1..h : a = k - c - f
      BY <2>3
    <3>2. ~(k <= c) /\ ~(k <= c + f)
      BY <2>3
    <3>3. A[k] = E[a]
      BY <1>16, <3>1, <3>2
    <3> QED BY <1>13, <1>14, <2>3, <3>1, <3>3
  <2> QED BY <2>1, <2>2, <2>3
<1>19. ASSUME NEW j \in 1..Len(A), NEW k \in 1..Len(A), j < k
       PROVE  /\ A[k].kind = "today" => A[j].kind = "today" /\ A[j].ref # A[k].ref
              /\ A[k].kind = "future" => A[j].kind # "estimated"
              /\ A[k].kind = "estimated" /\ A[j].kind = "estimated" => A[j].pts >= A[k].pts
  <2>1. j \in 1..(c + f + h) /\ k \in 1..(c + f + h)
    BY <1>16
  <2>2. ASSUME A[k].kind = "today" PROVE A[j].kind = "today" /\ A[j].ref # A[k].ref
    <3>1. k <= c /\ A[k].ref = nth[k]
      BY <1>18, <2>1, <2>2
    <3>2. j <= c /\ A[j].kind = "today" /\ A[j].ref = nth[j]
      BY <1>18, <1>19, <2>1, <3>1
    <3> QED BY <1>6, <1>19, <3>1, <3>2
  <2>3. ASSUME A[k].kind = "future" PROVE A[j].kind # "estimated"
    <3>1. k <= c + f
      BY <1>18, <2>1, <2>3
    <3> QED BY <1>18, <1>19, <2>1, <3>1
  <2>4. ASSUME A[k].kind = "estimated", A[j].kind = "estimated" PROVE A[j].pts >= A[k].pts
    <3>1. k > c + f /\ j > c + f
      BY <1>18, <2>1, <2>4
    <3>2. PICK a \in 1..h : a = j - c - f
      BY <2>1, <3>1
    <3>3. PICK b \in 1..h : b = k - c - f
      BY <2>1, <3>1
    <3>4. ~(j <= c) /\ ~(j <= c + f) /\ ~(k <= c) /\ ~(k <= c + f) /\ a < b
      BY <1>19, <2>1, <3>1, <3>2, <3>3
    <3>5. A[j] = E[a] /\ A[k] = E[b]
      BY <1>16, <2>1, <3>2, <3>3, <3>4
    <3> QED BY <1>13, <1>14, <3>4, <3>5
  <2> QED BY <2>2, <2>3, <2>4
<1>20. InOrder(A)
  BY <1>19 DEF InOrder
<1>21. ASSUME NEW k \in 1..Len(A) PROVE A[k].kind = "today" <=> k <= c
  <2>1. k \in 1..(c + f + h)
    BY <1>16
  <2>2. k > c + f => ~(k <= c)
    BY <2>1
  <2> QED BY <1>18, <2>1, <2>2
<1>22. ASSUME NEW k \in 1..c PROVE A[k] = OwnClaim(Nth(k))
  <2>1. k \in 1..(c + f + h) /\ k <= c
    OBVIOUS
  <2> QED BY <1>11, <1>18, <2>1
<1>23. c <= Len(A)
  BY <1>16
<1> QED BY <1>1, <1>16, <1>17, <1>20, <1>21, <1>22, <1>23
-----------------------------------------------------------------------------
(* A start's place in the ranking, and its rivals.                             *)

\* The ranking of the week's claims, and where each start of today stands in it.
HasPlace(s, n, i, p) ==
    /\ p \in 1..n /\ s[p] = OwnClaim(i)
    /\ \A k \in 1..n : s[k].kind = "today" /\ s[k].ref = i => k = p

LEMMA RankingFacts ==
    ASSUME WeekIsTyped
    PROVE  \E A, s, n : \E pi :
              /\ A = AllClaims /\ s = Ranking /\ n = Len(Ranking) /\ n = Len(AllClaims) /\ n \in Nat
              /\ s \in Seq(ClaimSet) /\ Len(s) = n /\ TodaysInPlace(s) /\ Reorders(pi, s, A, n)
              /\ \A i \in Candidates : \E p : HasPlace(s, n, i, p)
              /\ \A k \in 1..n : s[k].kind = "today" =>
                    s[k].ref \in Candidates /\ s[k] = OwnClaim(s[k].ref)
<1>1. PICK A \in Seq(ClaimSet), c \in Nat :
        /\ A = AllClaims /\ c = Cardinality(Candidates) /\ c <= Len(A) /\ InOrder(A)
        /\ \A k \in 1..Len(A) : A[k].kind = "today" <=> k <= c
        /\ \A k \in 1..c : A[k] = OwnClaim(Nth(k))
  BY WeeksClaims
<1>2. PICK n \in Nat : n = Len(A)
  OBVIOUS
<1>3. PICK s : s = FoldLeft(InsertClaim, <<>>, A)
  OBVIOUS
<1>4. s = Ranking
  BY <1>1, <1>3 DEF Ranking
<1>5. SortedSoFar(s, A, n)
  BY <1>1, <1>2, <1>3, SortRanks
<1>6. s \in Seq(ClaimSet) /\ Len(s) = n /\ TodaysInPlace(s)
  BY <1>5 DEF SortedSoFar, Ranked
<1>7. PICK pi : Reorders(pi, s, A, n)
  BY <1>5 DEF SortedSoFar
<1>8. PICK D : D = Candidates
  OBVIOUS
<1>9. PICK nth : nth = [k \in 1..c |-> Nth(k)]
  OBVIOUS
<1>10. /\ \A k \in 1..c : nth[k] \in D
       /\ \A i \in D : \E k \in 1..c : nth[k] = i
  BY <1>1, <1>8, <1>9, NthIs
<1>11. ASSUME NEW k \in 1..n, s[k].kind = "today"
       PROVE  pi[k] \in 1..c /\ s[k] = OwnClaim(nth[pi[k]]) /\ s[k].ref = nth[pi[k]]
  <2>1. pi[k] \in 1..n /\ s[k] = A[pi[k]]
    BY <1>7 DEF Reorders
  <2>2. pi[k] \in 1..c
    BY <1>1, <1>2, <1>11, <2>1
  <2>3. s[k] = OwnClaim(nth[pi[k]])
    BY <1>1, <1>9, <2>1, <2>2
  <2>4. PICK i \in Candidates : i = nth[pi[k]]
    BY <1>8, <1>10, <2>2
  <2>5. OwnClaim(i).ref = i
    BY <2>4, OwnClaims
  <2> QED BY <2>2, <2>3, <2>4, <2>5
<1>12. ASSUME NEW k \in 1..n, s[k].kind = "today"
       PROVE  s[k].ref \in Candidates /\ s[k] = OwnClaim(s[k].ref)
  BY <1>8, <1>10, <1>11, <1>12
<1>13. ASSUME NEW i \in Candidates PROVE \E p : HasPlace(s, n, i, p)
  <2>1. PICK a \in 1..c : nth[a] = i
    BY <1>8, <1>10
  <2>2. a \in 1..n /\ A[a] = OwnClaim(i)
    BY <1>1, <1>2, <1>9, <2>1
  <2>3. PICK p \in 1..n : pi[p] = a /\ s[p] = A[a]
    <3>1. \E k \in 1..n : pi[k] = a
      BY <1>7, <2>2 DEF Reorders
    <3>2. \A k \in 1..n : s[k] = A[pi[k]]
      BY <1>7 DEF Reorders
    <3> QED BY <3>1, <3>2
  <2>4. OwnClaim(i).kind = "today" /\ OwnClaim(i).ref = i
    BY OwnClaims
  <2>5. ASSUME NEW k \in 1..n, s[k].kind = "today", s[k].ref = i PROVE k = p
    <3>1. pi[k] \in 1..c /\ nth[pi[k]] = i
      BY <1>11, <2>5
    <3>2. PICK b \in 1..c : b = pi[k]
      BY <3>1
    <3>3. A[b].ref = i /\ A[a].ref = i
      BY <1>1, <1>9, <2>2, <2>4, <3>1, <3>2
    <3>4. a \in 1..Len(A) /\ b \in 1..Len(A) /\ A[a].kind = "today" /\ A[b].kind = "today"
      BY <1>1, <3>2
    <3>5. ~(a < b) /\ ~(b < a)
      BY <1>1, <3>3, <3>4 DEF InOrder
    <3>6. a = b
      BY <3>5
    <3> QED BY <1>7, <2>3, <3>2, <3>6 DEF Reorders
  <2>6. HasPlace(s, n, i, p)
    BY <2>2, <2>3, <2>5 DEF HasPlace
  <2> QED BY <2>6
<1>14. n = Len(Ranking) /\ n = Len(AllClaims)
  BY <1>1, <1>2, <1>4, <1>6
<1> QED BY <1>1, <1>4, <1>6, <1>7, <1>12, <1>13, <1>14

\* As many claims beat a start of today as stand before it.
LEMMA RivalsStandBefore ==
    ASSUME WeekIsTyped, NEW i \in Candidates
    PROVE  /\ Place(i) \in 1..Len(Ranking) /\ Len(Ranking) \in Nat
           /\ Ranking[Place(i)].kind = "today" /\ Ranking[Place(i)].ref = i
           /\ \A k \in 1..Len(Ranking) : Ranking[k].kind = "today" /\ Ranking[k].ref = i => k = Place(i)
           /\ Cardinality(Rivals(i)) = Place(i) - 1
<1>1. PICK A, s, n, pi :
        /\ A = AllClaims /\ s = Ranking /\ n = Len(Ranking) /\ n = Len(AllClaims) /\ n \in Nat
        /\ s \in Seq(ClaimSet) /\ Len(s) = n /\ TodaysInPlace(s) /\ Reorders(pi, s, A, n)
        /\ \A o \in Candidates : \E p : HasPlace(s, n, o, p)
  BY RankingFacts
<1>2. PICK p : HasPlace(s, n, i, p)
  BY <1>1
<1>3. PICK own \in ClaimSet : own = OwnClaim(i) /\ own.kind = "today" /\ own.ref = i
  BY OwnClaims
<1>4. /\ p \in 1..n /\ p \in Nat /\ s[p] = own
      /\ \A k \in 1..n : s[k].kind = "today" /\ s[k].ref = i => k = p
  BY <1>1, <1>2, <1>3 DEF HasPlace
<1>5. Place(i) = p
  <2>1. s[p].kind = "today" /\ s[p].ref = i
    BY <1>3, <1>4
  <2>2. (CHOOSE k \in 1..n : s[k].kind = "today" /\ s[k].ref = i) = p
    BY <1>4, <2>1
  <2> QED BY <1>1, <2>2 DEF Place
<1>6. \A k \in 1..n : s[k] # own <=> k # p
  BY <1>3, <1>4
<1>7. \A k \in 1..n : s[k] # own /\ Before(s[k], own) <=> k < p
  <2> SUFFICES ASSUME NEW k \in 1..n PROVE s[k] # own /\ Before(s[k], own) <=> k < p
    OBVIOUS
  <2>1. CASE k = p
    BY <1>4, <1>6, <2>1
  <2>2. CASE k # p
    BY <1>1, <1>3, <1>4, <1>6, <2>2 DEF TodaysInPlace
  <2> QED BY <2>1, <2>2
<1>8. PICK V : V = Rivals(i)
  OBVIOUS
<1>9. V = {k \in 1..n : A[k] # own /\ Before(A[k], own)}
  BY <1>1, <1>3, <1>8 DEF Rivals, OwnClaim
<1>10. /\ pi \in [1..n -> 1..n] /\ \A j, k \in 1..n : pi[j] = pi[k] => j = k
       /\ \A k \in 1..n : s[k] = A[pi[k]]
       /\ \A j \in 1..n : \E k \in 1..n : pi[k] = j
  BY <1>1 DEF Reorders
<1>11. \A k \in 1..n : pi[k] \in V <=> k < p
  <2> SUFFICES ASSUME NEW k \in 1..n PROVE pi[k] \in V <=> k < p
    OBVIOUS
  <2>1. pi[k] \in 1..n /\ s[k] = A[pi[k]]
    BY <1>10
  <2> QED BY <1>7, <1>9, <2>1
<1>12. PICK U : U = 1..(p - 1)
  OBVIOUS
<1>13. U \in SUBSET (1..n) /\ IsFiniteSet(U) /\ Cardinality(U) = p - 1
  <2>1. p - 1 \in Nat /\ U \in SUBSET (1..n)
    BY <1>1, <1>4, <1>12
  <2>2. IsFiniteSet(1..(p - 1)) /\ Cardinality(1..(p - 1)) = p - 1
    BY <1>4, <2>1, FS_Interval
  <2> QED BY <1>12, <2>1, <2>2
<1>14. \A k \in 1..n : k \in U <=> k < p
  BY <1>4, <1>12
<1>15. PICK b : b = [k \in U |-> pi[k]]
  OBVIOUS
<1>16. b \in Bijection(U, V)
  <2>1. \A k \in U : b[k] \in V /\ b[k] = pi[k] /\ k \in 1..n
    BY <1>11, <1>13, <1>14, <1>15
  <2>2. b \in [U -> V]
    BY <1>15, <2>1
  <2>3. \A j, k \in U : b[j] = b[k] => j = k
    BY <1>10, <2>1
  <2>4. ASSUME NEW v \in V PROVE \E k \in U : b[k] = v
    <3>1. PICK k \in 1..n : pi[k] = v
      BY <1>9, <1>10
    <3>2. k \in U
      BY <1>11, <1>14, <3>1
    <3> QED BY <2>1, <3>1, <3>2
  <2> QED BY <2>2, <2>3, <2>4 DEF Bijection, Injection, Surjection, IsInjective
<1>17. Cardinality(V) = p - 1
  <2>1. ExistsBijection(U, V)
    BY <1>16 DEF ExistsBijection
  <2> QED BY <1>13, <2>1, FS_Bijection
<1> QED BY <1>1, <1>3, <1>4, <1>5, <1>8, <1>17
-----------------------------------------------------------------------------
(* The cut, and what the minimum protects.                                     *)

LEMMA BudgetIsNumbers ==
    ASSUME WeekIsTyped
    PROVE  Remaining \in Nat /\ NeedForFloor \in Nat /\ Excess(NeedForFloor, Len(week.future)) \in Nat
<1>1. \A a, b \in Nat : Excess(a, b) \in Nat
  BY DEF Excess
<1>2. week.limit \in Nat /\ week.used \in Nat /\ week.floor \in Nat /\ Len(week.future) \in Nat
  BY WeekFacts
<1>3. Remaining \in Nat /\ NeedForFloor \in Nat
  BY <1>1, <1>2 DEF Remaining, NeedForFloor
<1> QED BY <1>1, <1>2, <1>3

LEMMA PlacesDiffer ==
    ASSUME WeekIsTyped, NEW i \in Candidates, NEW o \in Candidates, Place(i) = Place(o)
    PROVE  i = o
  BY RivalsStandBefore

LEMMA CutIs ==
    ASSUME WeekIsTyped
    PROVE  Cut = {i \in Candidates : Place(i) <= Remaining}
<1>1. PICK n \in Nat, m \in Nat : n = Len(Ranking) /\ m = Remaining
  <2>1. PICK A, s, n, pi :
          /\ A = AllClaims /\ s = Ranking /\ n = Len(Ranking) /\ n = Len(AllClaims) /\ n \in Nat
    BY RankingFacts
  <2> QED BY <2>1, BudgetIsNumbers
<1>2. \A k \in 1..n : k \in First <=> k <= m
  <2>1. First = 1..(IF m <= n THEN m ELSE n)
    BY <1>1, LeastOfTwo DEF First
  <2> QED BY <2>1
<1>3. First \in SUBSET (1..n)
  <2>1. First = 1..(IF m <= n THEN m ELSE n)
    BY <1>1, LeastOfTwo DEF First
  <2> QED BY <2>1
<1>4. PICK s : s = Ranking
  OBVIOUS
<1>5. \A k \in 1..n : s[k].kind = "today" => s[k].ref \in Candidates
  BY <1>1, <1>4, RankingFacts
<1>6. \A i \in Candidates : /\ Place(i) \in 1..n /\ s[Place(i)].kind = "today" /\ s[Place(i)].ref = i
                            /\ \A k \in 1..n : s[k].kind = "today" /\ s[k].ref = i => k = Place(i)
  BY <1>1, <1>4, RivalsStandBefore
<1>7. Cut = {s[k].ref : k \in {j \in First : s[j].kind = "today"}}
  BY <1>4 DEF Cut
<1>8. ASSUME NEW i \in Cut PROVE i \in Candidates /\ Place(i) <= m
  <2>1. PICK k \in First : s[k].kind = "today" /\ i = s[k].ref
    BY <1>7
  <2>2. k \in 1..n /\ k <= m
    BY <1>2, <1>3
  <2> QED BY <1>5, <1>6, <2>1, <2>2
<1>9. ASSUME NEW i \in Candidates, Place(i) <= m PROVE i \in Cut
  <2>1. PICK k \in 1..n : k = Place(i) /\ s[k].kind = "today" /\ s[k].ref = i /\ k \in First
    BY <1>2, <1>6, <1>9
  <2> QED BY <1>7, <2>1
<1> QED BY <1>1, <1>8, <1>9

LEMMA CutFitsTheBudget ==
    ASSUME WeekIsTyped
    PROVE  /\ Cut \in SUBSET Candidates /\ IsFiniteSet(Cut) /\ Cardinality(Cut) \in Nat
           /\ Cardinality(Cut) <= Remaining
<1>1. PICK m \in Nat : m = Remaining
  BY BudgetIsNumbers
<1>2. PICK C : C = Cut
  OBVIOUS
<1>3. C \in SUBSET Candidates /\ \A i \in C : Place(i) \in 1..m
  <2>1. ASSUME NEW i \in C PROVE i \in Candidates /\ Place(i) <= m
    BY <1>1, <1>2, CutIs
  <2>2. ASSUME NEW i \in C PROVE Place(i) \in Nat /\ Place(i) >= 1
    BY <2>1, RivalsStandBefore
  <2> QED BY <2>1, <2>2
<1>4. IsFiniteSet(C) /\ Cardinality(C) \in Nat
  BY <1>3, CandidatesAreFinite, FS_Subset, FS_CardinalityType
<1>5. PICK f : f = [i \in C |-> Place(i)]
  OBVIOUS
<1>6. f \in [C -> 1..m] /\ \A i, o \in C : f[i] = f[o] => i = o
  BY <1>3, <1>5, PlacesDiffer
<1>7. f \in Injection(C, 1..m)
  BY <1>6 DEF Injection, IsInjective
<1>8. IsFiniteSet(1..m) /\ Cardinality(1..m) = m
  <2>1. 1 \in Int /\ m \in Int /\ (IF 1 > m THEN 0 ELSE m - 1 + 1) = m
    OBVIOUS
  <2> QED BY <2>1, FS_Interval
<1>9. Cardinality(C) <= m
  BY <1>7, <1>8, FS_Injection
<1> QED BY <1>1, <1>2, <1>3, <1>4, <1>9

LEMMA LeastOfThree ==
    ASSUME NEW a \in Nat, NEW b \in Nat, NEW c \in Nat
    PROVE  /\ Least({a, b, c}) \in {a, b, c}
           /\ Least({a, b, c}) \in Nat
           /\ Least({a, b, c}) <= a /\ Least({a, b, c}) <= b /\ Least({a, b, c}) <= c
<1>1. {a, b, c} \in SUBSET Nat /\ {a, b, c} # {}
  OBVIOUS
<1>2. Least({a, b, c}) \in {a, b, c} /\ \A m \in {a, b, c} : Least({a, b, c}) <= m
  BY <1>1, LeastIsLeast
<1> QED BY <1>1, <1>2

\* What is asked of the number of starts kept.
Asked == Least({Excess(NeedForFloor, Len(week.future)), Cardinality(Candidates), Remaining})

LEMMA ReserveIsAsked ==
    ASSUME WeekIsTyped
    PROVE  /\ FloorReserve = Asked /\ Asked \in Nat
           /\ Asked <= Cardinality(Candidates) /\ Asked <= Remaining
<1>1. PICK a \in Nat, b \in Nat, c \in Nat :
        /\ a = Excess(NeedForFloor, Len(week.future)) /\ b = Cardinality(Candidates) /\ c = Remaining
  BY BudgetIsNumbers, CandidatesAreFinite
<1>2. Asked = Least({a, b, c})
  BY <1>1 DEF Asked
<1>3. /\ Asked \in Nat /\ Asked <= a /\ Asked <= b /\ Asked <= c
  BY <1>2, LeastOfThree
<1>4. CASE NeedForFloor = 0
  <2>1. Len(week.future) \in Nat
    BY WeekFacts
  <2>2. a = 0
    BY <1>1, <1>4, <2>1 DEF Excess
  <2>3. Asked = 0
    BY <1>3, <2>2
  <2>4. FloorReserve = 0
    BY <1>4 DEF FloorReserve
  <2> QED BY <1>1, <1>3, <2>3, <2>4
<1>5. CASE NeedForFloor # 0
  BY <1>1, <1>3, <1>5 DEF FloorReserve, Asked
<1> QED BY <1>4, <1>5

LEMMA ProtectedFacts ==
    ASSUME WeekIsTyped
    PROVE  /\ Protected \in SUBSET (Candidates \ Cut)
           /\ Cardinality(Cut \cup Protected) \in Nat
           /\ Cardinality(Cut \cup Protected) <= Remaining
           /\ Cardinality(Cut \cup Protected) >= Asked
<1>1. PICK C, D, m, r, q :
        /\ C = Cut /\ D = Candidates \ Cut /\ m = Remaining /\ r = Asked /\ q = Cardinality(Cut)
  OBVIOUS
<1>2. /\ m \in Nat /\ r \in Nat /\ q \in Nat /\ r <= m /\ q <= m
      /\ r = FloorReserve /\ r <= Cardinality(Candidates)
  BY <1>1, BudgetIsNumbers, ReserveIsAsked, CutFitsTheBudget
<1>3. C \in SUBSET Candidates /\ IsFiniteSet(C) /\ Cardinality(C) = q
  BY <1>1, CutFitsTheBudget
<1>4. IsFiniteSet(D) /\ D \in SUBSET Candidates /\ C \cap D = {} /\ C \cup D = Candidates
  BY <1>1, <1>3, CandidatesAreFinite, FS_Subset
<1>5. PICK f : f = [i \in D |-> Place(i)]
  OBVIOUS
<1>6. f \in [D -> Nat] /\ \A i, o \in D : f[i] = f[o] => i = o
  <2>1. \A i \in D : Place(i) \in Nat
    BY <1>4, RivalsStandBefore
  <2>2. \A i, o \in D : Place(i) = Place(o) => i = o
    BY <1>4, PlacesDiffer
  <2> QED BY <1>5, <2>1, <2>2
<1>7. PICK P : P = Protected
  OBVIOUS
<1>8. P = {i \in D : q + Cardinality(Preceding(D, f, i)) < r}
  <2>1. P = {i \in D : q + Cardinality({o \in D : Place(o) < Place(i)}) < r}
    BY <1>1, <1>2, <1>7 DEF Protected
  <2>2. \A i \in D : {o \in D : Place(o) < Place(i)} = Preceding(D, f, i)
    BY <1>5 DEF Preceding
  <2> QED BY <2>1, <2>2
<1>9. \A i \in D : Cardinality(Preceding(D, f, i)) \in Nat
  BY <1>4, <1>6, PrecedingFacts
<1>10. CASE r <= q
  <2>1. P = {}
    BY <1>2, <1>8, <1>9, <1>10
  <2>2. C \cup P = C
    BY <2>1
  <2> QED BY <1>1, <1>2, <1>3, <1>7, <1>10, <2>1, <2>2
<1>11. CASE q < r
  <2>1. PICK n \in Nat : n = r - q
    BY <1>2, <1>11
  <2>2. P = Leading(D, f, n)
    <3>1. ASSUME NEW i \in D
          PROVE  q + Cardinality(Preceding(D, f, i)) < r <=> Cardinality(Preceding(D, f, i)) < n
      <4>1. PICK x \in Nat : x = Cardinality(Preceding(D, f, i))
        BY <1>9
      <4>2. q + x < r <=> x < n
        BY <1>2, <2>1
      <4> QED BY <4>1, <4>2
    <3> QED BY <1>8, <3>1 DEF Leading
  <2>3. /\ IsFiniteSet(P) /\ Cardinality(P) \in Nat /\ Cardinality(P) <= n
        /\ P = D \/ Cardinality(P) = n
    BY <1>4, <1>6, <2>2, LeadingFacts
  <2>4. P \in SUBSET D /\ C \cap P = {}
    BY <1>4, <1>8
  <2>5. Cardinality(C \cup P) = q + Cardinality(P)
    <3>1. Cardinality(C \cup P) = Cardinality(C) + Cardinality(P) - Cardinality(C \cap P)
      BY <1>3, <2>3, FS_Union
    <3>2. Cardinality(C \cap P) = 0
      BY <2>4, FS_EmptySet
    <3> QED BY <1>2, <1>3, <2>3, <3>1, <3>2
  <2>6. Cardinality(C \cup P) >= r
    <3>1. CASE P = D
      BY <1>2, <1>4, <3>1
    <3>2. CASE Cardinality(P) = n
      BY <1>2, <2>1, <2>5, <3>2
    <3> QED BY <2>3, <3>1, <3>2
  <2>7. Cardinality(C \cup P) \in Nat /\ Cardinality(C \cup P) <= m
    BY <1>2, <2>1, <2>3, <2>5
  <2> QED BY <1>1, <1>7, <2>4, <2>6, <2>7
<1> QED BY <1>2, <1>10, <1>11
-----------------------------------------------------------------------------
(* The decision.                                                               *)

\* What StartsAreWellSpent says of a decision d about the week.
WellSpent(d) ==
    ~Unlimited =>
        /\ Cardinality(d.kept) <= Remaining
        /\ Cardinality(d.kept) >= Asked
        /\ Remaining > 0 /\ 2 * Remaining < Planned =>
              \A i \in Candidates : i \in d.kept \ d.protected <=> Cardinality(Rivals(i)) < Remaining

Decision(d) ==
    d = IF Unlimited \/ (Remaining > 0 /\ 2 * Remaining >= Planned)
        THEN [kept |-> Candidates, protected |-> {}, pc |-> "decided"]
        ELSE IF Remaining = 0 THEN [kept |-> {}, protected |-> {}, pc |-> "decided"]
        ELSE [kept |-> Cut \cup Protected, protected |-> Protected, pc |-> "decided"]

LEMMA PlannedIsNumber ==
    ASSUME WeekIsTyped
    PROVE  Planned \in Nat /\ 2 * Cardinality(Candidates) <= Planned
<1>1. PICK a \in Nat, b \in Nat, c \in Nat :
        a = Cardinality(Candidates) /\ b = Len(week.future) /\ c = week.halves
  BY CandidatesAreFinite, WeekFacts
<1>2. Planned = 2 * (a + b) + c
  BY <1>1 DEF Planned
<1>3. 2 * (a + b) + c \in Nat /\ 2 * a <= 2 * (a + b) + c
  OBVIOUS
<1> QED BY <1>1, <1>2, <1>3


LEMMA DecisionIsWellSpent ==
    ASSUME WeekIsTyped, NEW d, Decision(d)
    PROVE  /\ WellSpent(d)
           /\ d \in [kept : SUBSET (1..MaxToday), protected : SUBSET (1..MaxToday),
                     pc : {"undecided", "decided"}]
<1>1. PICK m \in Nat : m = Remaining
  BY BudgetIsNumbers
<1>2. Candidates \in SUBSET (1..MaxToday) /\ Cardinality(Candidates) \in Nat
  BY CandidatesAreFinite
<1>3. Asked \in Nat /\ Asked <= Cardinality(Candidates) /\ Asked <= m
  BY <1>1, ReserveIsAsked
<1>4. CASE Unlimited \/ (Remaining > 0 /\ 2 * Remaining >= Planned)
  <2>1. d = [kept |-> Candidates, protected |-> {}, pc |-> "decided"]
    BY <1>4 DEF Decision
  <2>2. CASE Unlimited
    BY <1>2, <2>1, <2>2 DEF WellSpent
  <2>3. CASE ~Unlimited
    <3>1. PICK p \in Nat, c \in Nat : p = Planned /\ c = Cardinality(Candidates) /\ 2 * c <= p
      BY <1>2, PlannedIsNumber
    <3>2. 2 * m >= p /\ c <= m
      BY <1>1, <1>4, <2>3, <3>1
    <3>3. Cardinality(d.kept) = c
      BY <2>1, <3>1
    <3>4. ~(2 * m < p)
      BY <3>2
    <3>5. WellSpent(d)
      BY <1>1, <1>3, <3>1, <3>2, <3>3, <3>4 DEF WellSpent
    <3> QED BY <1>2, <2>1, <3>5
  <2> QED BY <2>2, <2>3
<1>5. CASE ~Unlimited /\ Remaining = 0
  <2>1. d = [kept |-> {}, protected |-> {}, pc |-> "decided"]
    BY <1>5 DEF Decision
  <2>2. Cardinality(d.kept) = 0
    BY <2>1, FS_EmptySet
  <2>3. Asked = 0 /\ ~(Remaining > 0)
    BY <1>1, <1>3, <1>5
  <2> QED BY <1>5, <2>1, <2>2, <2>3 DEF WellSpent
<1>6. CASE ~Unlimited /\ ~(Remaining > 0 /\ 2 * Remaining >= Planned) /\ Remaining # 0
  <2>1. d = [kept |-> Cut \cup Protected, protected |-> Protected, pc |-> "decided"]
    BY <1>6 DEF Decision
  <2>2. PICK C, P : C = Cut /\ P = Protected
    OBVIOUS
  <2>3. /\ P \in SUBSET (Candidates \ C) /\ Cardinality(C \cup P) <= m
        /\ Cardinality(C \cup P) >= Asked
    BY <1>1, <2>2, ProtectedFacts
  <2>4. C \in SUBSET Candidates /\ \A i \in Candidates : i \in C <=> Place(i) <= m
    BY <1>1, <2>2, CutIs
  <2>5. d.kept = C \cup P /\ d.protected = P /\ d.kept \ d.protected = C
    BY <2>1, <2>2, <2>3
  <2>6. ASSUME NEW i \in Candidates PROVE i \in C <=> Cardinality(Rivals(i)) < m
    <3>1. Place(i) \in Nat /\ Cardinality(Rivals(i)) = Place(i) - 1
      BY RivalsStandBefore
    <3>2. Place(i) <= m <=> Cardinality(Rivals(i)) < m
      BY <3>1
    <3> QED BY <2>4, <3>2
  <2>7. WellSpent(d)
    BY <1>1, <2>3, <2>5, <2>6 DEF WellSpent
  <2>8. d \in [kept : SUBSET (1..MaxToday), protected : SUBSET (1..MaxToday),
               pc : {"undecided", "decided"}]
    BY <1>2, <2>1, <2>2, <2>3, <2>4
  <2> QED BY <2>7, <2>8
<1> QED BY <1>1, <1>4, <1>5, <1>6

GateInv == GateTypeOK /\ StartsAreWellSpent

LEMMA InitWellSpent == GateInit => GateInv
<1> SUFFICES ASSUME GateInit PROVE GateInv
  OBVIOUS
<1>1. week \in Weeks /\ decision = [kept |-> {}, protected |-> {}, pc |-> "undecided"]
  BY DEF GateInit, Undecided
<1>2. GateTypeOK
  BY <1>1 DEF GateTypeOK
<1>3. decision.pc # "decided"
  BY <1>1
<1> QED BY <1>2, <1>3 DEF GateInv, StartsAreWellSpent

\* Whoever beats a start does so as long as the week is the same.
LEMMA WeekStays ==
    ASSUME week' = week
    PROVE  /\ Unlimited' = Unlimited /\ Remaining' = Remaining /\ Planned' = Planned
           /\ Candidates' = Candidates /\ Asked' = Asked
           /\ \A i : Rivals(i)' = Rivals(i)
<1>1. Candidates' = Candidates /\ Unlimited' = Unlimited /\ Remaining' = Remaining
  BY DEF Candidates, Unlimited, Remaining
<1>2. Planned' = Planned
  BY <1>1 DEF Planned
<1>3. Asked' = Asked
  BY <1>1 DEF Asked, NeedForFloor
<1>4. TodayClaims' = TodayClaims
  BY <1>1 DEF TodayClaims, Nth
<1>5. AllClaims' = AllClaims
  BY <1>4 DEF AllClaims, FutureClaims, EstimatedClaims
<1>6. ASSUME NEW i PROVE Rivals(i)' = Rivals(i)
  <2>1. \A e, f : Before(e, f)' = Before(e, f)
    BY DEF Before, IdOf
  <2> QED BY <1>5, <2>1 DEF Rivals, Before, IdOf
<1> QED BY <1>1, <1>2, <1>3, <1>5, <1>6

LEMMA StepWellSpent == GateInv /\ [GateNext]_gateVars => GateInv'
<1> SUFFICES ASSUME GateInv, [GateNext]_gateVars PROVE GateInv'
  OBVIOUS
<1>1. WeekIsTyped
  BY DEF GateInv, GateTypeOK, WeekIsTyped
<1>2. CASE Decide
  <2>1. PICK d : d = decision'
    OBVIOUS
  <2>2. Decision(d) /\ week' = week
    BY <1>2, <2>1 DEF Decide, Decision
  <2>3. /\ WellSpent(d)
        /\ d \in [kept : SUBSET (1..MaxToday), protected : SUBSET (1..MaxToday),
                  pc : {"undecided", "decided"}]
    BY <1>1, <2>2, DecisionIsWellSpent
  <2>4. GateTypeOK'
    BY <1>1, <2>1, <2>2, <2>3 DEF GateTypeOK, WeekIsTyped
  <2>5. StartsAreWellSpent'
    <3>1. /\ Unlimited' = Unlimited /\ Remaining' = Remaining /\ Planned' = Planned
          /\ Candidates' = Candidates /\ Asked' = Asked
          /\ \A i : Rivals(i)' = Rivals(i)
      BY <2>2, WeekStays
    <3>2. StartsAreWellSpent' <=> (decision'.pc = "decided" => WellSpent(decision'))
      BY <3>1 DEF StartsAreWellSpent, WellSpent, Asked
    <3> QED BY <2>1, <2>3, <3>2
  <2> QED BY <2>4, <2>5 DEF GateInv
<1>3. CASE UNCHANGED gateVars
  <2>1. week' = week /\ decision' = decision
    BY <1>3 DEF gateVars
  <2>2. GateTypeOK'
    BY <2>1 DEF GateInv, GateTypeOK
  <2>3. /\ Unlimited' = Unlimited /\ Remaining' = Remaining /\ Planned' = Planned
        /\ Candidates' = Candidates /\ Asked' = Asked
        /\ \A i : Rivals(i)' = Rivals(i)
    BY <2>1, WeekStays
  <2>4. StartsAreWellSpent'
    BY <2>1, <2>3 DEF GateInv, StartsAreWellSpent, Asked
  <2> QED BY <2>2, <2>4 DEF GateInv
<1> QED BY <1>2, <1>3 DEF GateNext

(* The week and what the gate decides about it are well typed: it keeps and    *)
(* protects starts of today only (applyGSGate).                                *)
THEOREM GateTypeCorrect == GateSpec => []GateTypeOK
<1>1. GateInv => GateTypeOK
  BY DEF GateInv
<1> QED BY <1>1, InitWellSpent, StepWellSpent, PTL DEF GateSpec

(* The gate spends the week's starts well, for any week: it keeps no more of   *)
(* today's starts than the limit leaves; as many as the minimum needs beyond   *)
(* those announced, as far as there are starts and budget; and the insertion   *)
(* sort never costs a start its place: what the minimum does not protect is    *)
(* declined exactly if as many claims as remain beat it one by one             *)
(* (applyGSGate).                                                              *)
THEOREM BudgetIsWellSpent == GateSpec => []StartsAreWellSpent
<1>1. GateInv => StartsAreWellSpent
  BY DEF GateInv
<1> QED BY <1>1, InitWellSpent, StepWellSpent, PTL DEF GateSpec

-----------------------------------------------------------------------------
(* Optimizer: what players are worth together.                                 *)

TeamIsTyped ==
    /\ Spots \in SpotLists
    /\ pool.team \in Squads(Spots, IF pool.pitching THEN Pitchers ELSE Hitters)

LEMMA MenAreFinite ==
    /\ IsFiniteSet(Men) /\ Men \in SUBSET Nat /\ 0 \notin Men
    /\ \A P \in SUBSET Men : IsFiniteSet(P) /\ Cardinality(P) \in Nat
<1>1. PoolSize \in Nat
  BY OptimizerAssumption
<1>2. IsFiniteSet(Men) /\ Men \in SUBSET Nat /\ 0 \notin Men
  BY <1>1, FS_Interval DEF Men
<1> QED BY <1>2, FS_Subset, FS_CardinalityType

LEMMA FormIs ==
    ASSUME TeamIsTyped, NEW p \in Men
    PROVE  /\ Form(p).pts \in Int /\ Form(p).game \in BOOLEAN
           /\ Reserve \notin Form(p).fits
           /\ Value(p) \in Int /\ Worth(p) \in Int
<1>1. PICK F : F = IF pool.pitching THEN Pitchers ELSE Hitters
  OBVIOUS
<1>2. pool.team.men \in [Men -> F]
  BY <1>1 DEF TeamIsTyped, Squads
<1>3. Form(p) \in Hitters \cup Pitchers
  BY <1>1, <1>2 DEF Form
<1>4. Form(p).pts \in Int /\ Form(p).game \in BOOLEAN /\ Reserve \notin Form(p).fits
  BY <1>3, OptimizerAssumption
<1>5. PICK n \in Int : n = Form(p).pts
  BY <1>4
<1>6. Value(p) = n * 1 \/ Value(p) = n * 20
  BY <1>5 DEF Value
<1>7. Value(p) \in Int
  BY <1>6
<1> QED BY <1>4, <1>7 DEF Worth

Sums(S, f) == f = [s \in SUBSET S |-> IF s = {} THEN 0 ELSE Worth(Pick(s)) + f[s \ {Pick(s)}]]

LEMMA TotalIsSum ==
    ASSUME TeamIsTyped, NEW P \in SUBSET Men
    PROVE  \E f : Sums(P, f) /\ Total(P) = f[P]
<1>1. IsFiniteSet(P)
  BY MenAreFinite
<1>2. PICK W : W = [p \in Men |-> Worth(p)]
  OBVIOUS
<1>3. PICK g : SumsTo(W, P, g)
  BY <1>1, SumExists
<1>4. \A s \in SUBSET P : Upto(W, s, g) = IF s = {} THEN 0 ELSE Worth(Pick(s)) + g[s \ {Pick(s)}]
  BY <1>2, PickIsMember DEF Upto
<1>5. Sums(P, g)
  BY <1>3, <1>4 DEF Sums, SumsTo
<1> DEFINE f == CHOOSE h : Sums(P, h)
<1>6. Sums(P, f)
  BY <1>5
<1>7. Total(P) = f[P]
  BY DEF Total, MapThenSumSet, MapThenFoldSet, Sums, Pick
<1> QED BY <1>6, <1>7

LEMMA SumsAgree ==
    ASSUME NEW P \in SUBSET Men, NEW Q \in SUBSET Men, NEW f, NEW g, Sums(P, f), Sums(Q, g),
           NEW r \in SUBSET (P \cap Q)
    PROVE  f[r] = g[r]
<1> DEFINE B == {s \in SUBSET (P \cap Q) : f[s] # g[s]}
<1> SUFFICES ASSUME B # {} PROVE FALSE
  OBVIOUS
<1>1. PICK s \in B : \A x \in s : s \ {x} \notin B
  <2>1. B \in SUBSET (SUBSET (P \cap Q)) /\ IsFiniteSet(P \cap Q)
    BY MenAreFinite
  <2> HIDE DEF B
  <2> QED BY <2>1, SmallestSet
<1>2. CASE s = {}
  <2>1. f[s] = 0 /\ g[s] = 0
    BY <1>1, <1>2 DEF Sums
  <2> QED BY <1>1, <2>1
<1>3. CASE s # {}
  <2>1. PICK p : p = Pick(s) /\ p \in s
    BY <1>3, PickIsMember
  <2>2. f[s \ {p}] = g[s \ {p}]
    BY <1>1, <2>1
  <2>3. f[s] = Worth(p) + f[s \ {p}]
    BY <1>1, <1>3, <2>1 DEF Sums
  <2>4. g[s] = Worth(p) + g[s \ {p}]
    BY <1>1, <1>3, <2>1 DEF Sums
  <2> QED BY <1>1, <2>2, <2>3, <2>4
<1> QED BY <1>2, <1>3

LEMMA TotalOfPick ==
    ASSUME TeamIsTyped, NEW P \in SUBSET Men
    PROVE  Total(P) = IF P = {} THEN 0 ELSE Worth(Pick(P)) + Total(P \ {Pick(P)})
<1>1. PICK f : Sums(P, f) /\ Total(P) = f[P]
  BY TotalIsSum
<1>2. CASE P = {}
  BY <1>1, <1>2 DEF Sums
<1>3. CASE P # {}
  <2>1. PICK p : p = Pick(P) /\ p \in P
    BY <1>3, PickIsMember
  <2>2. PICK Q \in SUBSET Men : Q = P \ {p}
    OBVIOUS
  <2>3. PICK g : Sums(Q, g) /\ Total(Q) = g[Q]
    BY TotalIsSum
  <2>4. f[Q] = g[Q]
    BY <1>1, <2>2, <2>3, SumsAgree
  <2>5. f[P] = Worth(p) + f[Q]
    BY <1>1, <1>3, <2>1, <2>2 DEF Sums
  <2> QED BY <1>1, <1>3, <2>1, <2>2, <2>3, <2>4, <2>5
<1> QED BY <1>2, <1>3

LEMMA TotalIsInt ==
    ASSUME TeamIsTyped, NEW P \in SUBSET Men
    PROVE  Total(P) \in Int
<1> DEFINE B == {s \in SUBSET P : Total(s) \notin Int}
<1> SUFFICES ASSUME B # {} PROVE FALSE
  OBVIOUS
<1>1. PICK s \in B : \A x \in s : s \ {x} \notin B
  <2>1. B \in SUBSET (SUBSET P) /\ IsFiniteSet(P)
    BY MenAreFinite
  <2> HIDE DEF B
  <2> QED BY <2>1, SmallestSet
<1>2. s \in SUBSET Men /\ Total(s) \notin Int
  BY <1>1
<1>3. s # {}
  BY <1>2, TotalOfPick
<1>4. PICK p : p = Pick(s) /\ p \in s
  BY <1>3, PickIsMember
<1>5. Total(s \ {p}) \in Int /\ Worth(p) \in Int
  BY <1>1, <1>2, <1>4, FormIs
<1>6. Total(s) = Worth(p) + Total(s \ {p})
  BY <1>2, <1>3, <1>4, TotalOfPick
<1> QED BY <1>2, <1>5, <1>6

\* Whichever player is taken out first.
LEMMA TotalStep ==
    ASSUME TeamIsTyped, NEW P \in SUBSET Men, NEW p \in P
    PROVE  Total(P) = Worth(p) + Total(P \ {p})
<1> DEFINE B == {s \in SUBSET P : \E x \in s : Total(s) # Worth(x) + Total(s \ {x})}
<1> SUFFICES ASSUME B # {} PROVE FALSE
  OBVIOUS
<1>1. PICK s \in B : \A x \in s : s \ {x} \notin B
  <2>1. B \in SUBSET (SUBSET P) /\ IsFiniteSet(P)
    BY MenAreFinite
  <2> HIDE DEF B
  <2> QED BY <2>1, SmallestSet
<1>2. PICK x \in s : Total(s) # Worth(x) + Total(s \ {x})
  BY <1>1
<1>3. PICK q : q = Pick(s) /\ q \in s
  BY <1>2, PickIsMember
<1>4. Total(s) = Worth(q) + Total(s \ {q}) /\ s \in SUBSET Men
  BY <1>1, <1>2, <1>3, TotalOfPick
<1>5. q # x
  BY <1>2, <1>4
<1>6. Total(s \ {q}) = Worth(x) + Total((s \ {q}) \ {x})
  BY <1>1, <1>2, <1>3, <1>5
<1>7. Total(s \ {x}) = Worth(q) + Total((s \ {x}) \ {q})
  BY <1>1, <1>2, <1>3, <1>5
<1>8. (s \ {x}) \ {q} = (s \ {q}) \ {x}
  OBVIOUS
<1>9. PICK a, b, c : a = Worth(q) /\ b = Worth(x) /\ c = Total((s \ {q}) \ {x})
  OBVIOUS
<1>10. a \in Int /\ b \in Int /\ c \in Int
  BY <1>2, <1>3, <1>4, <1>9, FormIs, TotalIsInt
<1>11. Total(s) = a + (b + c) /\ Total(s) # b + (a + c)
  BY <1>2, <1>4, <1>6, <1>7, <1>8, <1>9
<1> QED BY <1>10, <1>11

\* Disjoint groups.
LEMMA TotalAdds ==
    ASSUME TeamIsTyped, NEW P \in SUBSET Men, NEW Q \in SUBSET Men, P \cap Q = {}
    PROVE  Total(P \cup Q) = Total(P) + Total(Q)
<1> DEFINE B == {s \in SUBSET Q : Total(P \cup s) # Total(P) + Total(s)}
<1> SUFFICES ASSUME B # {} PROVE FALSE
  OBVIOUS
<1>1. PICK s \in B : \A x \in s : s \ {x} \notin B
  <2>1. B \in SUBSET (SUBSET Q) /\ IsFiniteSet(Q)
    BY MenAreFinite
  <2> HIDE DEF B
  <2> QED BY <2>1, SmallestSet
<1>2. Total(P \cup s) # Total(P) + Total(s) /\ s \in SUBSET Q
  BY <1>1
<1>3. s # {}
  <2> SUFFICES ASSUME s = {} PROVE FALSE
    OBVIOUS
  <2>1. P \cup s = P /\ Total(s) = 0 /\ Total(P) \in Int
    BY <1>2, TotalOfPick, TotalIsInt
  <2> QED BY <1>2, <2>1
<1>4. PICK p : p \in s
  BY <1>3
<1>5. Total(P \cup (s \ {p})) = Total(P) + Total(s \ {p})
  BY <1>1, <1>2, <1>4
<1>6. (P \cup s) \ {p} = P \cup (s \ {p}) /\ P \cup s \in SUBSET Men /\ s \in SUBSET Men
  BY <1>2, <1>4
<1>7. Total(P \cup s) = Worth(p) + Total(P \cup (s \ {p})) /\ Total(s) = Worth(p) + Total(s \ {p})
  BY <1>4, <1>6, TotalStep
<1>8. PICK a \in Int, b \in Int, c \in Int : a = Worth(p) /\ b = Total(P) /\ c = Total(s \ {p})
  BY <1>2, <1>4, FormIs, TotalIsInt
<1>9. a + (b + c) # b + (a + c)
  BY <1>2, <1>5, <1>7, <1>8
<1> QED BY <1>8, <1>9

\* Nobody of a group is worth less than nothing.
Sane(P) == \A p \in P : Worth(p) \in Nat

LEMMA TotalIsNat ==
    ASSUME TeamIsTyped, NEW P \in SUBSET Men, Sane(P)
    PROVE  Total(P) \in Nat
<1> DEFINE B == {s \in SUBSET P : Total(s) \notin Nat}
<1> SUFFICES ASSUME B # {} PROVE FALSE
  OBVIOUS
<1>1. PICK s \in B : \A x \in s : s \ {x} \notin B
  <2>1. B \in SUBSET (SUBSET P) /\ IsFiniteSet(P)
    BY MenAreFinite
  <2> HIDE DEF B
  <2> QED BY <2>1, SmallestSet
<1>2. s \in SUBSET P /\ s \in SUBSET Men /\ Total(s) \notin Nat
  BY <1>1
<1>3. s # {}
  <2> SUFFICES ASSUME s = {} PROVE FALSE
    OBVIOUS
  <2>1. Total(s) = 0
    BY <1>2, TotalOfPick
  <2> QED BY <1>2, <2>1
<1>4. PICK p : p \in s
  BY <1>3
<1>5. Total(s \ {p}) \in Nat /\ Worth(p) \in Nat
  BY <1>1, <1>2, <1>4 DEF Sane
<1>6. Total(s) = Worth(p) + Total(s \ {p})
  BY <1>2, <1>4, TotalStep
<1> QED BY <1>2, <1>5, <1>6

\* A group is worth no more than one as large all of whose members are worth as much.
LEMMA TotalIsMonotone ==
    ASSUME TeamIsTyped, NEW P \in SUBSET Men, NEW Q \in SUBSET Men, Sane(Q),
           Cardinality(P) <= Cardinality(Q), \A p \in P, q \in Q : Worth(p) <= Worth(q)
    PROVE  Total(P) <= Total(Q)
<1> DEFINE Bad(s) == \E t \in SUBSET Q : Cardinality(s) <= Cardinality(t) /\ ~(Total(s) <= Total(t))
           B == {s \in SUBSET P : Bad(s)}
<1> SUFFICES ASSUME B # {} PROVE FALSE
  OBVIOUS
<1>1. PICK s \in B : \A x \in s : s \ {x} \notin B
  <2>1. B \in SUBSET (SUBSET P) /\ IsFiniteSet(P)
    BY MenAreFinite
  <2> HIDE DEF B
  <2> QED BY <2>1, SmallestSet
<1>2. PICK t \in SUBSET Q : Cardinality(s) <= Cardinality(t) /\ ~(Total(s) <= Total(t))
  BY <1>1
<1>3. /\ s \in SUBSET Men /\ s \in SUBSET P /\ t \in SUBSET Men
      /\ IsFiniteSet(s) /\ IsFiniteSet(t) /\ Cardinality(s) \in Nat /\ Cardinality(t) \in Nat
  BY <1>1, MenAreFinite
<1>4. s # {}
  <2> SUFFICES ASSUME s = {} PROVE FALSE
    OBVIOUS
  <2>1. Total(s) = 0
    BY <1>3, TotalOfPick
  <2>2. Total(t) \in Nat
    <3>1. Sane(t)
      BY <1>2 DEF Sane
    <3> QED BY <1>3, <3>1, TotalIsNat
  <2> QED BY <1>2, <2>1, <2>2
<1>5. PICK p : p \in s
  BY <1>4
<1>6. Cardinality(s) # 0
  BY <1>3, <1>4, FS_EmptySet
<1>7. t # {}
  BY <1>2, <1>3, <1>6, FS_EmptySet
<1>8. PICK q : q \in t
  BY <1>7
<1>9. Cardinality(s \ {p}) = Cardinality(s) - 1 /\ Cardinality(t \ {q}) = Cardinality(t) - 1
  BY <1>3, <1>5, <1>8, FS_RemoveElement
<1>10. Cardinality(s \ {p}) <= Cardinality(t \ {q})
  BY <1>2, <1>3, <1>9
<1>11. Total(s \ {p}) <= Total(t \ {q})
  BY <1>1, <1>3, <1>5, <1>10
<1>12. Total(s) = Worth(p) + Total(s \ {p}) /\ Total(t) = Worth(q) + Total(t \ {q})
  BY <1>3, <1>5, <1>8, TotalStep
<1>13. Worth(p) <= Worth(q)
  BY <1>3, <1>5, <1>8
<1>14. PICK a \in Int, b \in Int, c \in Int, d \in Int :
         a = Worth(p) /\ b = Worth(q) /\ c = Total(s \ {p}) /\ d = Total(t \ {q})
  BY <1>3, <1>5, <1>8, FormIs, TotalIsInt
<1>15. a <= b /\ c <= d /\ ~(a + c <= b + d)
  BY <1>2, <1>11, <1>12, <1>13, <1>14
<1> QED BY <1>14, <1>15


-----------------------------------------------------------------------------
(* The order of the players, and the bound.                                    *)

LEMMA AheadIsOrder ==
    ASSUME TeamIsTyped, NEW p \in Men, NEW q \in Men
    PROVE  /\ ~Ahead(p, p)
           /\ p # q => Ahead(p, q) \/ Ahead(q, p)
           /\ Ahead(p, q) => ~Ahead(q, p) /\ (Worth(p) >= 0 => Worth(q) <= Worth(p))
           /\ \A r \in Men : Ahead(p, q) /\ Ahead(q, r) => Ahead(p, r)
<1>1. p \in Nat /\ q \in Nat /\ \A r \in Men : r \in Nat
  BY MenAreFinite
<1>2. \A r \in Men : Form(r).game \in BOOLEAN /\ Value(r) \in Int
  BY FormIs
<1>3. Ahead(p, q) /\ Worth(p) >= 0 => Worth(q) <= Worth(p)
  BY <1>2 DEF Ahead, Worth
<1> QED BY <1>1, <1>2, <1>3 DEF Ahead

Rank(p) == Cardinality({q \in Men : Ahead(q, p)})

LEMMA RankIsOrder ==
    ASSUME TeamIsTyped, NEW p \in Men, NEW q \in Men
    PROVE  Rank(p) \in Nat /\ (Ahead(p, q) <=> Rank(p) < Rank(q))
<1> DEFINE A(r) == {o \in Men : Ahead(o, r)}
<1>1. ASSUME NEW r \in Men
      PROVE  A(r) \in SUBSET Men /\ IsFiniteSet(A(r)) /\ Cardinality(A(r)) \in Nat /\ r \notin A(r)
  BY MenAreFinite, AheadIsOrder
<1>2. ASSUME NEW r \in Men, NEW o \in Men, Ahead(r, o) PROVE Rank(r) < Rank(o)
  <2>1. A(r) \cup {r} \in SUBSET A(o)
    BY <1>2, AheadIsOrder
  <2> HIDE DEF A
  <2>2. Cardinality(A(r) \cup {r}) = Cardinality(A(r)) + 1 /\ Cardinality(A(r) \cup {r}) <= Cardinality(A(o))
    BY <1>1, <2>1, FS_AddElement, FS_Subset
  <2>3. Cardinality(A(r)) < Cardinality(A(o))
    BY <1>1, <2>2
  <2> QED BY <2>3 DEF A, Rank
<1>3. Rank(p) \in Nat /\ Rank(q) \in Nat
  BY <1>1 DEF Rank
<1>4. ASSUME Rank(p) < Rank(q) PROVE Ahead(p, q)
  <2> SUFFICES ASSUME ~Ahead(p, q) PROVE FALSE
    OBVIOUS
  <2>1. p # q
    BY <1>3, <1>4
  <2>2. Rank(q) < Rank(p)
    BY <1>2, <2>1, AheadIsOrder
  <2> QED BY <1>3, <1>4, <2>2
<1> QED BY <1>2, <1>3, <1>4

LEMMA ForemostIsMember ==
    ASSUME TeamIsTyped, NEW P \in SUBSET Men, P # {}
    PROVE  Foremost(P) \in P
<1> DEFINE T == {Rank(p) : p \in P}
<1>1. T \in SUBSET Nat /\ T # {}
  BY RankIsOrder
<1>2. PICK n \in T : \A m \in T : n <= m
  <2> HIDE DEF T
  <2> QED BY <1>1, LeastNumber
<1>3. PICK p \in P : n = Rank(p)
  BY <1>2
<1>4. ASSUME NEW q \in P \ {p} PROVE Ahead(p, q)
  <2>1. Rank(p) <= Rank(q) /\ Rank(p) \in Nat /\ Rank(q) \in Nat
    BY <1>2, <1>3, RankIsOrder
  <2>2. ~Ahead(q, p)
    BY <2>1, RankIsOrder
  <2> QED BY <2>2, AheadIsOrder
<1> QED BY <1>3, <1>4 DEF Foremost

LEMMA LeadersFacts ==
    ASSUME TeamIsTyped, NEW P \in SUBSET Men, NEW n \in Nat
    PROVE  /\ Leaders(n, P) \in SUBSET P
           /\ Leaders(n, P) = P \/ Cardinality(Leaders(n, P)) = n
           /\ Sane(P) => \A p \in P \ Leaders(n, P), q \in Leaders(n, P) : Worth(p) <= Worth(q)
<1>1. PICK f : f = [p \in P |-> Rank(p)]
  OBVIOUS
<1>2. IsFiniteSet(P) /\ f \in [P -> Nat]
  BY <1>1, MenAreFinite, RankIsOrder
<1>3. ASSUME NEW p \in P, NEW q \in P, f[p] = f[q] PROVE p = q
  <2>1. Rank(p) = Rank(q) /\ Rank(p) \in Nat /\ Rank(q) \in Nat
    BY <1>1, <1>3, RankIsOrder
  <2>2. ~Ahead(p, q) /\ ~Ahead(q, p)
    BY <2>1, RankIsOrder
  <2> QED BY <2>2, AheadIsOrder
<1>4. ASSUME NEW p \in P PROVE {q \in P : Ahead(q, p)} = Preceding(P, f, p)
  BY <1>1, RankIsOrder DEF Preceding
<1>5. Leaders(n, P) = Leading(P, f, n)
  BY <1>4 DEF Leaders, Leading
<1>6. Leading(P, f, n) = P \/ Cardinality(Leading(P, f, n)) = n
  BY <1>2, <1>3, LeadingFacts
<1>7. ASSUME Sane(P), NEW p \in P \ Leaders(n, P), NEW q \in Leaders(n, P)
      PROVE  Worth(p) <= Worth(q)
  <2>1. q \in P /\ p \in P
    BY DEF Leaders
  <2>2. ~Ahead(p, q)
    <3> SUFFICES ASSUME Ahead(p, q) PROVE FALSE
      OBVIOUS
    <3>1. Preceding(P, f, p) \in SUBSET Preceding(P, f, q)
      <4>1. {o \in P : Ahead(o, p)} \in SUBSET {o \in P : Ahead(o, q)}
        BY <2>1, AheadIsOrder
      <4> QED BY <1>4, <2>1, <4>1
    <3>2. IsFiniteSet(Preceding(P, f, q))
      BY <1>2, <2>1, PrecedingFacts
    <3>3. Cardinality(Preceding(P, f, p)) <= Cardinality(Preceding(P, f, q))
      BY <3>1, <3>2, FS_Subset
    <3>4. Cardinality(Preceding(P, f, q)) < n /\ ~(Cardinality(Preceding(P, f, p)) < n)
      BY <1>5, <2>1 DEF Leading
    <3>5. Cardinality(Preceding(P, f, p)) \in Nat /\ Cardinality(Preceding(P, f, q)) \in Nat
      BY <1>2, <2>1, PrecedingFacts
    <3> QED BY <3>3, <3>4, <3>5
  <2>3. p # q
    OBVIOUS
  <2>4. Worth(q) >= 0
    BY <1>7, <2>1 DEF Sane
  <2> QED BY <2>1, <2>2, <2>3, <2>4, AheadIsOrder
<1> QED BY <1>5, <1>6, <1>7 DEF Leaders

\* No few of a group are worth more than as many of its leaders.
LEMMA LeadersAreWorthMost ==
    ASSUME TeamIsTyped, NEW P \in SUBSET Men, Sane(P), NEW n \in Nat, NEW X \in SUBSET P,
           Cardinality(X) <= n
    PROVE  Total(X) <= Total(Leaders(n, P))
<1>1. PICK L : L = Leaders(n, P)
  OBVIOUS
<1>2. L \in SUBSET P /\ (L = P \/ Cardinality(L) = n) /\ \A p \in P \ L, q \in L : Worth(p) <= Worth(q)
  BY <1>1, LeadersFacts
<1>3. PICK A, B, C : A = X \cap L /\ B = X \ L /\ C = L \ X
  OBVIOUS
<1>4. A \in SUBSET Men /\ B \in SUBSET Men /\ C \in SUBSET Men /\ X = A \cup B /\ L = A \cup C
  BY <1>2, <1>3
<1>5. Total(X) = Total(A) + Total(B)
  BY <1>3, <1>4, TotalAdds
<1>6. Total(L) = Total(A) + Total(C)
  BY <1>3, <1>4, TotalAdds
<1>7. Cardinality(B) <= Cardinality(C)
  <2>1. /\ IsFiniteSet(X) /\ IsFiniteSet(L) /\ Cardinality(X) \in Nat /\ Cardinality(L) \in Nat
        /\ Cardinality(A) \in Nat /\ Cardinality(C) \in Nat /\ IsFiniteSet(C)
    BY <1>2, <1>4, MenAreFinite
  <2>2. Cardinality(B) = Cardinality(X) - Cardinality(A)
    BY <1>3, <2>1, FS_Difference
  <2>3. Cardinality(C) = Cardinality(L) - Cardinality(A)
    <3>1. L \cap X = A
      BY <1>3
    <3>2. Cardinality(L \ X) = Cardinality(L) - Cardinality(L \cap X)
      BY <2>1, FS_Difference
    <3> QED BY <1>3, <3>1, <3>2
  <2>4. CASE L = P
    <3>1. B = {}
      BY <1>3, <2>4
    <3> QED BY <2>1, <3>1, FS_EmptySet
  <2>5. CASE Cardinality(L) = n
    BY <2>1, <2>2, <2>3, <2>5
  <2> QED BY <1>2, <2>4, <2>5
<1>8. \A p \in B, q \in C : Worth(p) <= Worth(q)
  BY <1>2, <1>3
<1>9. Total(B) <= Total(C)
  <2>1. Sane(C)
    BY <1>2, <1>3 DEF Sane
  <2> QED BY <1>4, <1>7, <1>8, <2>1, TotalIsMonotone
<1>10. Total(A) \in Int /\ Total(B) \in Int /\ Total(C) \in Int
  BY <1>4, TotalIsInt
<1> QED BY <1>1, <1>5, <1>6, <1>9, <1>10

-----------------------------------------------------------------------------
(* The open slots.                                                             *)

LEMMA TeamFacts ==
    ASSUME TeamIsTyped
    PROVE  /\ Spots \in Seq(ToSet(Spots)) /\ Reserve \notin ToSet(Spots)
           /\ Len(Spots) \in Nat /\ DOMAIN Spots = 1..Len(Spots)
           /\ \A k \in DOMAIN Spots : Spots[k] \in ToSet(Spots)
           /\ Locked \in SUBSET Men
           /\ \A p \in Men : At(p) \in ToSet(Spots) \cup {Reserve}
           /\ \A x \in ToSet(Spots) : Cardinality({p \in Men : At(p) = x}) <= Capacity(Spots, x)
<1>1. Spots \in Seq(ToSet(Spots)) /\ Reserve \notin ToSet(Spots)
  BY OptimizerAssumption DEF TeamIsTyped
<1>2. Len(Spots) \in Nat /\ DOMAIN Spots = 1..Len(Spots)
  BY <1>1
<1>3. \A k \in DOMAIN Spots : Spots[k] \in ToSet(Spots)
  BY DEF ToSet
<1>4. /\ pool.team.locked \in SUBSET Men /\ Holds(Spots, pool.team.at)
      /\ pool.team.at \in [Men -> ToSet(Spots) \cup {Reserve}]
  BY DEF TeamIsTyped, Squads
<1> QED BY <1>1, <1>2, <1>3, <1>4 DEF Holds, Locked, At

LEMMA FreeIs ==
    ASSUME TeamIsTyped
    PROVE  /\ Free \in SUBSET DOMAIN Spots /\ IsFiniteSet(Free) /\ Cardinality(Free) \in Nat
           /\ \A i \in 1..Cardinality(Free) : FreeSpot(i) \in Free
           /\ \A i, j \in 1..Cardinality(Free) : FreeSpot(i) = FreeSpot(j) => i = j
           /\ \A k \in Free : \E i \in 1..Cardinality(Free) : FreeSpot(i) = k
<1>1. PICK D : D = Free
  OBVIOUS
<1>2. D \in SUBSET (1..Len(Spots)) /\ Len(Spots) \in Nat /\ DOMAIN Spots = 1..Len(Spots)
  BY <1>1, TeamFacts DEF Free
<1>3. IsFiniteSet(1..Len(Spots)) /\ 1..Len(Spots) \in SUBSET Nat
  BY <1>2, FS_Interval
<1>4. IsFiniteSet(D) /\ Cardinality(D) \in Nat /\ D \in SUBSET Nat
  BY <1>2, <1>3, FS_Subset, FS_CardinalityType
<1>5. \A i : FreeSpot(i) = NthOf(D, i)
  BY <1>1 DEF FreeSpot, NthOf
<1>6. /\ \A k \in 1..Cardinality(D) : NthOf(D, k) \in D /\ Cardinality({j \in D : j < NthOf(D, k)}) = k - 1
      /\ \A i \in D : \E k \in 1..Cardinality(D) : NthOf(D, k) = i
  BY <1>4, NthOfIs
<1>7. ASSUME NEW i \in 1..Cardinality(D), NEW j \in 1..Cardinality(D), NthOf(D, i) = NthOf(D, j)
      PROVE  i = j
  <2>1. i - 1 = j - 1
    BY <1>6, <1>7
  <2> QED BY <1>4, <2>1
<1> QED BY <1>1, <1>2, <1>4, <1>5, <1>6, <1>7

LEMMA OpenIs ==
    ASSUME TeamIsTyped
    PROVE  /\ Len(Open) \in Nat /\ Len(Open) = Cardinality(Free) /\ DOMAIN Open = 1..Len(Open)
           /\ \A i \in 1..Len(Open) : /\ Open[i] = Spots[FreeSpot(i)]
                                        /\ Open[i] \in ToSet(Spots) /\ Open[i] # Reserve
<1>1. PICK n \in Nat : n = Cardinality(Free)
  BY FreeIs
<1>2. Open = [i \in 1..n |-> Spots[FreeSpot(i)]]
  BY <1>1 DEF Open
<1>3. \A i \in 1..n : Spots[FreeSpot(i)] \in ToSet(Spots)
  BY <1>1, FreeIs, TeamFacts
<1>4. Open \in Seq(ToSet(Spots)) /\ Len(Open) = n
  BY <1>1, <1>2, <1>3
<1>5. DOMAIN Open = 1..n /\ \A i \in 1..n : Open[i] = Spots[FreeSpot(i)]
  BY <1>2
<1> QED BY <1>1, <1>3, <1>4, <1>5, TeamFacts

\* As many slots of a name are open as no locked player has.
LEMMA OpenPlaces ==
    ASSUME TeamIsTyped, NEW x \in ToSet(Spots)
    PROVE  /\ IsFiniteSet(LockedAt(x)) /\ Cardinality(LockedAt(x)) \in Nat /\ Capacity(Spots, x) \in Nat
           /\ IsFiniteSet({i \in 1..Len(Open) : Open[i] = x})
           /\ Cardinality({i \in 1..Len(Open) : Open[i] = x})
                 = Capacity(Spots, x) - Cardinality(LockedAt(x))
<1>1. PICK K, F, I : /\ K = {k \in DOMAIN Spots : Spots[k] = x} /\ F = {k \in Free : Spots[k] = x}
                     /\ I = {i \in 1..Len(Open) : Open[i] = x}
  OBVIOUS
<1>2. PICK id : id = [k \in K |-> k]
  OBVIOUS
<1>3. Len(Spots) \in Nat /\ K \in SUBSET (1..Len(Spots)) /\ DOMAIN Spots = 1..Len(Spots)
  BY <1>1, TeamFacts
<1>4. IsFiniteSet(1..Len(Spots)) /\ 1..Len(Spots) \in SUBSET Nat
  BY <1>3, FS_Interval
<1>5. /\ IsFiniteSet(K) /\ Cardinality(K) \in Nat /\ K \in SUBSET Nat
      /\ id \in [K -> Nat] /\ \A i, o \in K : id[i] = id[o] => i = o
  BY <1>2, <1>3, <1>4, FS_Subset, FS_CardinalityType
<1>6. PICK l \in Nat : l = Cardinality(LockedAt(x)) /\ IsFiniteSet(LockedAt(x)) /\ l <= Cardinality(K)
  <2>1. PICK M : M = {p \in Men : At(p) = x}
    OBVIOUS
  <2>2. LockedAt(x) \in SUBSET M /\ M \in SUBSET Men
    BY <2>1, TeamFacts DEF LockedAt
  <2>3. IsFiniteSet(M) /\ Cardinality(M) \in Nat
    BY <2>2, MenAreFinite
  <2>4. IsFiniteSet(LockedAt(x)) /\ Cardinality(LockedAt(x)) \in Nat /\ Cardinality(LockedAt(x)) <= Cardinality(M)
    BY <2>2, <2>3, FS_Subset, FS_CardinalityType
  <2>5. Cardinality(M) <= Cardinality(K)
    BY <1>1, <2>1, TeamFacts DEF Capacity
  <2> QED BY <1>5, <2>3, <2>4, <2>5
<1>7. PICK L : L = Leading(K, id, l)
  OBVIOUS
<1>8. IsFiniteSet(L) /\ L \in SUBSET K /\ Cardinality(L) = l
  <2>1. IsFiniteSet(L) /\ Cardinality(L) \in Nat /\ Cardinality(L) <= l /\ (L = K \/ Cardinality(L) = l)
    BY <1>5, <1>7, LeadingFacts
  <2>2. L \in SUBSET K
    BY <1>7 DEF Leading
  <2> QED BY <1>5, <1>6, <2>1, <2>2
<1>9. ASSUME NEW k \in K PROVE k \in F <=> k \notin L
  <2>1. PICK A : A = Preceding(K, id, k)
    OBVIOUS
  <2>2. IsFiniteSet(A) /\ Cardinality(A) \in Nat /\ k \notin A
    BY <1>5, <2>1, PrecedingFacts
  <2>3. {j \in 1..k : Spots[j] = Spots[k]} = A \cup {k}
    <3>1. k \in Nat /\ k <= Len(Spots) /\ 1 <= k /\ Spots[k] = x
      BY <1>1, <1>3, <1>5
    <3>2. A = {j \in K : j < k}
      BY <1>2, <2>1 DEF Preceding
    <3> QED BY <1>1, <1>3, <3>1, <3>2
  <2>4. Cardinality(A \cup {k}) = Cardinality(A) + 1
    BY <2>2, FS_AddElement
  <2>5. k \in F <=> Cardinality(A) + 1 > l
    BY <1>1, <1>6, <2>3, <2>4 DEF Free
  <2>6. k \in L <=> Cardinality(A) < l
    BY <1>7, <2>1 DEF Leading
  <2> QED BY <1>6, <2>2, <2>5, <2>6
<1>10. F = K \ L
  <2>1. F \in SUBSET K
    BY <1>1, FreeIs
  <2> QED BY <1>9, <2>1
<1>11. IsFiniteSet(F) /\ Cardinality(F) = Cardinality(K) - l
  <2>1. K \cap L = L
    BY <1>8
  <2>2. IsFiniteSet(K \ L) /\ Cardinality(K \ L) = Cardinality(K) - Cardinality(K \cap L)
    BY <1>5, FS_Difference
  <2> QED BY <1>8, <1>10, <2>1, <2>2
<1>12. PICK h : h = [k \in I |-> FreeSpot(k)]
  OBVIOUS
<1>13. I \in SUBSET (1..Cardinality(Free)) /\ \A i \in 1..Cardinality(Free) : i \in I <=> FreeSpot(i) \in F
  BY <1>1, OpenIs, FreeIs
<1>14. h \in Bijection(I, F)
  <2>1. h \in [I -> F]
    BY <1>12, <1>13
  <2>2. \A i, j \in I : h[i] = h[j] => i = j
    BY <1>12, <1>13, FreeIs
  <2>3. \A k \in F : \E i \in I : h[i] = k
    BY <1>1, <1>12, <1>13, FreeIs
  <2> QED BY <2>1, <2>2, <2>3 DEF Bijection, Injection, Surjection, IsInjective
<1>15. IsFiniteSet(I) /\ Cardinality(I) = Cardinality(F)
  <2>1. IsFiniteSet(I)
    <3>1. IsFiniteSet(1..Cardinality(Free))
      BY FreeIs, FS_Interval
    <3> QED BY <1>13, <3>1, FS_Subset
  <2>2. ExistsBijection(I, F)
    BY <1>14 DEF ExistsBijection
  <2> QED BY <2>1, <2>2, FS_Bijection
<1>16. Capacity(Spots, x) = Cardinality(K)
  BY <1>1 DEF Capacity
<1> QED BY <1>1, <1>5, <1>6, <1>11, <1>15, <1>16

-----------------------------------------------------------------------------
(* Plans: what the search builds slot by slot.                                 *)

LEMMA PlanIs ==
    ASSUME TeamIsTyped, NEW a \in Plans
    PROVE  /\ Len(a) \in Nat /\ Len(a) <= Len(Open) /\ DOMAIN a = 1..Len(a)
           /\ a \in Seq(Men \cup {0}) /\ \A k \in 1..Len(a) : a[k] \in Men \cup {0}
           /\ Placed(a) \in SUBSET Men
           /\ Total(Placed(a)) \in Int /\ Changes(a) \in Nat
<1>1. PICK n \in 0..Len(Open) : a \in [1..n -> Men \cup {0}]
  BY DEF Plans
<1>2. n \in Nat /\ n <= Len(Open)
  BY <1>1, OpenIs
<1>3. a \in Seq(Men \cup {0}) /\ Len(a) = n /\ DOMAIN a = 1..n
  BY <1>1, <1>2
<1>4. Placed(a) \in SUBSET Men
  BY <1>1, <1>3 DEF Placed, ToSet
<1>5. {k \in DOMAIN a : a[k] # 0 /\ At(a[k]) # Open[k]} \in SUBSET (1..n) /\ IsFiniteSet(1..n)
  BY <1>2, <1>3, FS_Interval
<1>6. Changes(a) \in Nat
  BY <1>5, FS_Subset, FS_CardinalityType DEF Changes
<1> QED BY <1>1, <1>2, <1>3, <1>4, <1>6, TotalIsInt

LEMMA LongerPlan ==
    ASSUME TeamIsTyped, NEW a \in Plans, Len(a) < Len(Open), NEW p \in Men \cup {0}
    PROVE  /\ Append(a, p) \in Plans /\ Len(Append(a, p)) = Len(a) + 1
           /\ \A k \in 1..Len(a) : Append(a, p)[k] = a[k]
           /\ Append(a, p)[Len(a) + 1] = p
<1>1. PICK n \in Nat : n = Len(a) /\ n + 1 \in 0..Len(Open)
  BY PlanIs, OpenIs
<1>2. a \in Seq(Men \cup {0})
  BY PlanIs
<1>3. Append(a, p) \in Seq(Men \cup {0}) /\ Len(Append(a, p)) = n + 1
  BY <1>1, <1>2
<1>4. Append(a, p) \in [1..(n + 1) -> Men \cup {0}]
  <2>1. PICK b, S : b = Append(a, p) /\ S = Men \cup {0}
    OBVIOUS
  <2>2. b \in Seq(S) /\ Len(b) = n + 1
    BY <1>3, <2>1
  <2>3. DOMAIN b = 1..(n + 1) /\ b \in [1..Len(b) -> S]
    BY <2>2
  <2> QED BY <2>1, <2>2, <2>3
<1>5. Append(a, p) \in Plans
  BY <1>1, <1>4 DEF Plans
<1> QED BY <1>1, <1>2, <1>3, <1>5

LEMMA MovableAreMen == ASSUME TeamIsTyped PROVE Movable \in SUBSET Men
  BY DEF Movable

LEMMA OptionsAre ==
    ASSUME TeamIsTyped, NEW a \in Plans
    PROVE  /\ Options(a) \in SUBSET (Men \cup {0}) /\ Options(a) # {}
           /\ Options(a) = {0} \/ Options(a) \in SUBSET Men
           /\ \A P \in SUBSET Options(a) : P # {} => Foremost(P) \in P
<1>1. Options(a) = {0} \/ (Options(a) \in SUBSET Men /\ Options(a) # {})
  BY MovableAreMen DEF Options, Unused
<1>2. ASSUME NEW P \in SUBSET Options(a), P # {} PROVE Foremost(P) \in P
  <2>1. CASE P = {0}
    <3>1. \A q \in P \ {0} : Ahead(0, q)
      BY <2>1
    <3> QED BY <2>1, <3>1 DEF Foremost
  <2>2. CASE P # {0}
    <3>1. P \in SUBSET Men
      BY <1>1, <1>2, <2>2
    <3> QED BY <1>2, <3>1, ForemostIsMember
  <2> QED BY <2>1, <2>2
<1> QED BY <1>1, <1>2

-----------------------------------------------------------------------------
(* The search as a function.  There is one: what a loop comes to depends on    *)
(* loops that have less left to try.                                           *)

Trial(f, l) ==
    IF l.rest = {} THEN l.best
    ELSE LET p == Foremost(l.rest)
             a == Append(l.plan, p)
         IN  f[Loop(l.plan, l.rest \ {p}, Visit(a, l.best, f[Loop(a, Options(a), l.best)]))]
IsSearch(f, S) == f = [l \in S |-> Trial(f, l)]

LEMMA SearchIsChosen == Search = CHOOSE f : IsSearch(f, Loops)
  BY DEF Search, IsSearch, Trial

\* What is left to try.
Weight(l) == (Len(Open) - Len(l.plan)) * (PoolSize + 2) + Cardinality(l.rest)

LEMMA ChoicesAreFew ==
    ASSUME NEW P \in SUBSET (Men \cup {0})
    PROVE  IsFiniteSet(P) /\ Cardinality(P) \in Nat /\ Cardinality(P) <= PoolSize + 1
<1>1. PICK z \in Nat : z = PoolSize
  BY OptimizerAssumption
<1>2. IsFiniteSet(Men) /\ 0 \notin Men /\ Cardinality(Men) = z
  <2>1. Cardinality(1..z) = z
    BY FS_Interval
  <2> QED BY <1>1, <2>1, MenAreFinite DEF Men
<1>3. IsFiniteSet(Men \cup {0}) /\ Cardinality(Men \cup {0}) = z + 1
  BY <1>2, FS_AddElement
<1> QED BY <1>1, <1>3, FS_Subset, FS_CardinalityType

LEMMA LoopIs ==
    ASSUME TeamIsTyped, NEW l \in Loops
    PROVE  /\ l.plan \in Plans /\ Len(l.plan) < Len(Open)
           /\ l.rest \in SUBSET Options(l.plan) /\ l.best \in Bests
           /\ IsFiniteSet(l.rest) /\ Cardinality(l.rest) \in Nat /\ Weight(l) \in Nat
<1>1. l.plan \in Plans /\ Len(l.plan) < Len(Open) /\ l.rest \in SUBSET Options(l.plan) /\ l.best \in Bests
      /\ l.rest \in SUBSET (Men \cup {0})
  BY DEF Loops
<1>2. IsFiniteSet(Men \cup {0})
  BY MenAreFinite, FS_AddElement
<1>3. IsFiniteSet(l.rest) /\ Cardinality(l.rest) \in Nat
  BY <1>1, <1>2, FS_Subset, FS_CardinalityType
<1>4. Len(Open) \in Nat /\ Len(l.plan) \in Nat /\ PoolSize + 2 \in Nat
  <2>1. Len(l.plan) \in Nat
    BY <1>1, PlanIs
  <2>2. PoolSize + 2 \in Nat
    BY OptimizerAssumption
  <2> QED BY <2>1, <2>2, OpenIs
<1>5. PICK n \in Nat, m \in Nat, w \in Nat, c \in Nat :
        n = Len(Open) /\ m = Len(l.plan) /\ w = PoolSize + 2 /\ c = Cardinality(l.rest)
  BY <1>3, <1>4
<1>6. PICK d \in Nat : d = n - m
  <2>1. m < n
    BY <1>1, <1>5
  <2>2. n - m \in Nat
    BY <2>1
  <2> QED BY <2>2
<1>7. d * w + c \in Nat
  OBVIOUS
<1>8. Weight(l) = d * w + c
  BY <1>5, <1>6 DEF Weight
<1> QED BY <1>1, <1>3, <1>7, <1>8

LEMMA LoopsShrink ==
    ASSUME TeamIsTyped, NEW l \in Loops, l.rest # {}
    PROVE  LET p == Foremost(l.rest)
               a == Append(l.plan, p)
           IN  /\ p \in l.rest /\ p \in Men \cup {0}
               /\ a \in Plans /\ Len(a) = Len(l.plan) + 1
               /\ \A b \in Bests :
                     /\ Loop(l.plan, l.rest \ {p}, b) \in Loops
                     /\ Weight(Loop(l.plan, l.rest \ {p}, b)) < Weight(l)
                     /\ Len(a) # Len(Open) =>
                           /\ Loop(a, Options(a), b) \in Loops
                           /\ Weight(Loop(a, Options(a), b)) < Weight(l)
<1> DEFINE p == Foremost(l.rest)
           a == Append(l.plan, p)
<1>1. /\ l.plan \in Plans /\ Len(l.plan) < Len(Open) /\ l.rest \in SUBSET Options(l.plan)
      /\ IsFiniteSet(l.rest) /\ Cardinality(l.rest) \in Nat
  BY LoopIs
<1>2. p \in l.rest /\ p \in Men \cup {0}
  BY <1>1, OptionsAre
<1>3. a \in Plans /\ Len(a) = Len(l.plan) + 1
  BY <1>1, <1>2, LongerPlan
<1> HIDE DEF p, a
<1>4. l.rest \in SUBSET (Men \cup {0})
  BY <1>1, OptionsAre
<1>5. Cardinality(l.rest \ {p}) = Cardinality(l.rest) - 1
  BY <1>1, <1>2, FS_RemoveElement
<1>6. PICK n \in Nat, m \in Nat, z \in Nat, c \in Nat :
        n = Len(Open) /\ m = Len(l.plan) /\ z = PoolSize /\ c = Cardinality(l.rest)
  <2>1. Len(Open) \in Nat
    BY OpenIs
  <2>2. Len(l.plan) \in Nat
    BY <1>1, PlanIs
  <2> QED BY <1>1, <2>1, <2>2, OptimizerAssumption
<1>7. ASSUME NEW b \in Bests
      PROVE  /\ Loop(l.plan, l.rest \ {p}, b) \in Loops
             /\ Weight(Loop(l.plan, l.rest \ {p}, b)) < Weight(l)
  <2>1. Loop(l.plan, l.rest \ {p}, b) \in Loops
    BY <1>1, <1>4 DEF Loop, Loops
  <2>2. Weight(Loop(l.plan, l.rest \ {p}, b)) = (n - m) * (z + 2) + (c - 1)
    BY <1>5, <1>6 DEF Weight, Loop
  <2>3. Weight(l) = (n - m) * (z + 2) + c
    BY <1>6 DEF Weight
  <2>4. PICK v \in Int : v = (n - m) * (z + 2)
    OBVIOUS
  <2>5. v + (c - 1) < v + c
    OBVIOUS
  <2> QED BY <2>1, <2>2, <2>3, <2>4, <2>5
<1>8. ASSUME NEW b \in Bests, Len(a) # Len(Open)
      PROVE  /\ Loop(a, Options(a), b) \in Loops
             /\ Weight(Loop(a, Options(a), b)) < Weight(l)
  <2>1. Len(a) < Len(Open)
    BY <1>3, <1>6, <1>8, PlanIs
  <2>2. Options(a) \in SUBSET (Men \cup {0})
    BY <1>3, OptionsAre
  <2>3. Loop(a, Options(a), b) \in Loops
    BY <1>3, <2>1, <2>2 DEF Loop, Loops
  <2>4. PICK e \in Nat : e = Cardinality(Options(a)) /\ e <= z + 1
    BY <1>6, <2>2, ChoicesAreFew
  <2>5. Weight(Loop(a, Options(a), b)) = (n - (m + 1)) * (z + 2) + e
    BY <1>3, <1>6, <2>4 DEF Weight, Loop
  <2>6. Weight(l) = (n - m) * (z + 2) + c
    BY <1>6 DEF Weight
  <2>7. PICK v \in Int : v = (n - (m + 1)) * (z + 2)
    OBVIOUS
  <2>8. (n - m) * (z + 2) = v + (z + 2)
    BY <2>7
  <2>9. v + e < (v + (z + 2)) + c
    BY <2>4
  <2> QED BY <2>3, <2>5, <2>6, <2>7, <2>8, <2>9
<1> QED BY <1>2, <1>3, <1>7, <1>8 DEF p, a

LEMMA BetterIsBest ==
    ASSUME TeamIsTyped, NEW a \in Plans, NEW b \in Bests
    PROVE  Better(a, b) \in Bests
<1>1. Total(Placed(a)) \in Int /\ Changes(a) \in Int
  BY PlanIs
<1> QED BY <1>1 DEF Better, Bests

LEMMA VisitIsBest ==
    ASSUME TeamIsTyped, NEW a \in Plans, NEW b \in Bests, NEW t, Len(a) # Len(Open) => t \in Bests
    PROVE  Visit(a, b, t) \in Bests
  BY BetterIsBest DEF Visit

LEMMA SearchExists ==
    ASSUME TeamIsTyped
    PROVE  \E f : f \in [Loops -> Bests] /\ IsSearch(f, Loops)
<1> DEFINE Light(n) == {l \in Loops : Weight(l) < n}
           Fits(n) == \E f : f \in [Light(n) -> Bests] /\ IsSearch(f, Light(n))
           T == {n \in Nat : ~Fits(n)}
<1>1. T = {}
  <2> SUFFICES ASSUME T # {} PROVE FALSE
    OBVIOUS
  <2>1. PICK n \in T : \A m \in T : n <= m
    <3>1. T \in SUBSET Nat
      OBVIOUS
    <3> HIDE DEF T
    <3> QED BY <3>1, LeastNumber
  <2>2. n \in Nat /\ ~Fits(n)
    BY <2>1
  <2>3. CASE n = 0
    <3>1. Light(0) = {}
      BY LoopIs
    <3> DEFINE f == [l \in {} |-> NoBest]
    <3>2. f \in [{} -> Bests] /\ f = [l \in {} |-> Trial(f, l)]
      OBVIOUS
    <3> HIDE DEF f
    <3> QED BY <2>2, <2>3, <3>1, <3>2 DEF IsSearch
  <2>4. CASE n # 0
    <3>1. PICK m \in Nat : n = m + 1
      <4>1. n - 1 \in Nat /\ n = (n - 1) + 1
        BY <2>2, <2>4
      <4> QED BY <4>1
    <3>2. Fits(m)
      <4>1. m \notin T
        <5>1. ~(n <= m)
          BY <3>1
        <5> HIDE DEF T
        <5> QED BY <2>1, <5>1
      <4> QED BY <4>1
    <3>3. PICK f : f \in [Light(m) -> Bests] /\ IsSearch(f, Light(m))
      BY <3>2
    <3> DEFINE h == [l \in Light(n) |-> Trial(f, l)]
    <3>4. \A l \in Light(m) : f[l] = Trial(f, l) /\ f[l] \in Bests /\ l \in Light(n)
      <4>1. \A l \in Light(m) : l \in Light(n)
        BY <3>1, LoopIs
      <4> HIDE DEF Light
      <4> QED BY <3>3, <4>1 DEF IsSearch
    <3>5. \A l \in Light(m) : h[l] = f[l]
      <4> HIDE DEF Light
      <4> QED BY <3>4
    <3>6. ASSUME NEW l \in Light(n) PROVE Trial(f, l) \in Bests /\ Trial(h, l) = Trial(f, l)
      <4>1. l \in Loops /\ Weight(l) \in Nat /\ Weight(l) < m + 1 /\ l.best \in Bests
        BY <3>1, LoopIs
      <4>2. CASE l.rest = {}
        BY <4>1, <4>2 DEF Trial
      <4>3. CASE l.rest # {}
        <5> DEFINE p == Foremost(l.rest)
                   a == Append(l.plan, p)
                   x == Loop(a, Options(a), l.best)
                   y(b) == Loop(l.plan, l.rest \ {p}, b)
        <5>1. /\ a \in Plans
              /\ \A b \in Bests : y(b) \in Loops /\ Weight(y(b)) < Weight(l)
              /\ Len(a) # Len(Open) => x \in Loops /\ Weight(x) < Weight(l)
          BY <4>1, <4>3, LoopsShrink
        <5>2. /\ Trial(f, l) = f[y(Visit(a, l.best, f[x]))]
              /\ Trial(h, l) = h[y(Visit(a, l.best, h[x]))]
          BY <4>3 DEF Trial
        <5> HIDE DEF p, a, x, y, h
        <5>3. \A b \in Bests : y(b) \in Light(m)
          BY <4>1, <5>1, LoopIs
        <5>4. Len(a) # Len(Open) => x \in Light(m)
          BY <4>1, <5>1, LoopIs
        <5>5. Visit(a, l.best, h[x]) = Visit(a, l.best, f[x])
          <6> HIDE DEF Light
          <6> QED BY <3>5, <5>4 DEF Visit
        <5>6. Visit(a, l.best, f[x]) \in Bests
          <6>1. Len(a) # Len(Open) => f[x] \in Bests
            <7> HIDE DEF Light
            <7> QED BY <3>4, <5>4
          <6> QED BY <4>1, <5>1, <6>1, VisitIsBest
        <5> HIDE DEF Light
        <5> QED BY <3>4, <3>5, <5>2, <5>3, <5>5, <5>6
      <4> QED BY <4>2, <4>3
    <3>7. h \in [Light(n) -> Bests] /\ h = [l \in Light(n) |-> Trial(h, l)]
      <4> HIDE DEF Light
      <4> QED BY <3>6
    <3> HIDE DEF h
    <3> QED BY <2>2, <3>7 DEF IsSearch
  <2> QED BY <2>3, <2>4
<1>2. PICK w \in Nat : \A l \in Loops : Weight(l) < w
  <2>1. PICK n \in Nat, z \in Nat : n = Len(Open) /\ z = PoolSize
    BY OpenIs, OptimizerAssumption
  <2>2. PICK u \in Nat : u = n * (z + 2)
    <3>1. n * (z + 2) \in Nat
      OBVIOUS
    <3> QED BY <3>1
  <2>3. ASSUME NEW l \in Loops PROVE Weight(l) < u + (z + 2)
    <3>1. PICK m \in Nat : m = Len(l.plan)
      BY LoopIs, PlanIs
    <3>2. l.rest \in SUBSET (Men \cup {0})
      BY DEF Loops
    <3>3. PICK c \in Nat : c = Cardinality(l.rest) /\ c <= z + 1
      BY <2>1, <3>2, ChoicesAreFew
    <3>4. Weight(l) = (n - m) * (z + 2) + c
      BY <2>1, <3>1, <3>3 DEF Weight
    <3>5. (n - m) * (z + 2) = u - m * (z + 2) /\ m * (z + 2) \in Nat
      BY <2>2
    <3>6. PICK v \in Nat : v = m * (z + 2)
      BY <3>5
    <3>7. Weight(l) = (u - v) + c
      BY <3>4, <3>5, <3>6
    <3> QED BY <3>3, <3>6, <3>7
  <2> QED BY <2>3
<1>3. Light(w) = Loops
  BY <1>2
<1>4. Fits(w)
  BY <1>1
<1> QED BY <1>3, <1>4

-----------------------------------------------------------------------------
(* What the search finds.                                                      *)

Fitting(a) ==
    /\ \A k \in DOMAIN a : a[k] # 0 => a[k] \in Movable /\ Open[k] \in Form(a[k]).fits
    /\ \A j, k \in DOMAIN a : j # k /\ a[j] # 0 => a[j] # a[k]
Proper(a) == a \in Plans /\ Fitting(a) /\ FillsInTurn(a)
Complete(a) == Proper(a) /\ Len(a) = Len(Open)
Extends(c, a) == Len(a) <= Len(c) /\ \A k \in 1..Len(a) : c[k] = a[k]

LEMMA ProperAppend ==
    ASSUME TeamIsTyped, NEW a, Proper(a), Len(a) < Len(Open), NEW p \in Options(a)
    PROVE  Proper(Append(a, p))
<1>1. a \in Plans /\ p \in Men \cup {0}
  BY OptionsAre DEF Proper
<1>2. PICK n \in Nat : n = Len(a) /\ DOMAIN a = 1..n
  BY <1>1, PlanIs
<1>3. PICK b : b = Append(a, p)
  OBVIOUS
<1>4. b \in Plans /\ Len(b) = n + 1 /\ b[n + 1] = p /\ \A k \in 1..n : b[k] = a[k]
  BY <1>1, <1>2, <1>3, LongerPlan
<1>5. DOMAIN b = 1..(n + 1)
  BY <1>4, PlanIs
<1>6. PICK fit : fit = {q \in Unused(a) : Open[n + 1] \in Form(q).fits}
  OBVIOUS
<1>7. fit \in SUBSET Men /\ 0 \notin fit
  BY <1>6, MovableAreMen, MenAreFinite DEF Unused
<1>8. IF p = 0 THEN fit = {} ELSE p \in fit
  BY <1>2, <1>6, <1>7 DEF Options
<1>9. p # 0 => p \in Movable /\ Open[n + 1] \in Form(p).fits /\ \A k \in 1..n : a[k] # p
  BY <1>2, <1>6, <1>8 DEF Unused, ToSet
<1>10. \A k \in 1..(n + 1) : k \in 1..n \/ k = n + 1
  BY <1>2
<1>11. Fitting(a) /\ FillsInTurn(a)
  BY DEF Proper
<1>12. Fitting(b)
  <2>1. \A k \in 1..(n + 1) : b[k] # 0 => b[k] \in Movable /\ Open[k] \in Form(b[k]).fits
    BY <1>2, <1>4, <1>9, <1>10, <1>11 DEF Fitting
  <2>2. ASSUME NEW j \in 1..(n + 1), NEW k \in 1..(n + 1), j # k, b[j] # 0 PROVE b[j] # b[k]
    BY <1>2, <1>4, <1>9, <1>10, <1>11, <2>2 DEF Fitting
  <2> QED BY <1>5, <2>1, <2>2 DEF Fitting
<1>13. FillsInTurn(b)
  <2>1. ASSUME NEW k \in 1..n, b[k] = 0, NEW q \in Movable, Open[k] \in Form(q).fits
        PROVE  \E j \in 1..(k - 1) : b[j] = q
    <3>1. PICK j \in 1..(k - 1) : a[j] = q
      BY <1>2, <1>4, <1>11, <2>1 DEF FillsInTurn
    <3>2. j \in 1..n
      BY <1>2
    <3> QED BY <1>4, <3>1, <3>2
  <2>2. ASSUME b[n + 1] = 0, NEW q \in Movable, Open[n + 1] \in Form(q).fits
        PROVE  \E j \in 1..((n + 1) - 1) : b[j] = q
    <3>1. q \in ToSet(a)
      BY <1>4, <1>6, <1>8, <2>2 DEF Unused
    <3>2. PICK j \in 1..n : a[j] = q
      BY <1>2, <3>1 DEF ToSet
    <3>3. j \in 1..((n + 1) - 1)
      BY <1>2
    <3> QED BY <1>4, <3>2, <3>3
  <2> QED BY <1>5, <1>10, <2>1, <2>2 DEF FillsInTurn
<1> QED BY <1>3, <1>4, <1>12, <1>13 DEF Proper

LEMMA NextIsOption ==
    ASSUME TeamIsTyped, NEW a, Proper(a), Len(a) < Len(Open), NEW c, Complete(c), Extends(c, a)
    PROVE  /\ c[Len(a) + 1] \in Options(a)
           /\ Extends(c, Append(a, c[Len(a) + 1]))
<1>1. a \in Plans /\ c \in Plans
  BY DEF Proper, Complete
<1>2. PICK n \in Nat, m \in Nat : n = Len(a) /\ DOMAIN a = 1..n /\ m = Len(c) /\ DOMAIN c = 1..m /\ n + 1 <= m
  <2>1. Len(a) \in Nat /\ Len(c) \in Nat /\ DOMAIN a = 1..Len(a) /\ DOMAIN c = 1..Len(c)
    BY <1>1, PlanIs
  <2>2. Len(a) + 1 <= Len(c)
    BY <2>1 DEF Complete
  <2> QED BY <2>1, <2>2
<1>3. PICK p : p = c[n + 1]
  OBVIOUS
<1>4. p \in Men \cup {0} /\ \A k \in 1..n : c[k] = a[k]
  BY <1>1, <1>2, <1>3, PlanIs DEF Extends
<1>5. \A k \in 1..n : k \in DOMAIN c /\ k # n + 1
  BY <1>2
<1>6. n + 1 \in DOMAIN c /\ (n + 1) - 1 = n
  BY <1>2
<1>7. Fitting(c) /\ FillsInTurn(c)
  BY DEF Proper, Complete
<1>8. PICK fit : fit = {q \in Unused(a) : Open[n + 1] \in Form(q).fits}
  OBVIOUS
<1>9. Extends(c, Append(a, p))
  <2>1. Len(Append(a, p)) = n + 1 /\ Append(a, p)[n + 1] = p /\ \A k \in 1..n : Append(a, p)[k] = a[k]
    BY <1>1, <1>2, <1>4, LongerPlan
  <2>2. \A k \in 1..(n + 1) : k \in 1..n \/ k = n + 1
    BY <1>2
  <2> QED BY <1>2, <1>3, <1>4, <2>1, <2>2 DEF Extends
<1>10. CASE p # 0
  <2>1. p \in Movable /\ Open[n + 1] \in Form(p).fits
    BY <1>3, <1>6, <1>7, <1>10 DEF Fitting
  <2>2. p \notin ToSet(a)
    BY <1>2, <1>3, <1>4, <1>5, <1>6, <1>7, <1>10 DEF Fitting, ToSet
  <2>3. p \in fit
    BY <1>8, <2>1, <2>2 DEF Unused
  <2> QED BY <1>2, <1>3, <1>8, <2>3, <1>9 DEF Options
<1>11. CASE p = 0
  <2>1. ASSUME NEW q \in fit PROVE FALSE
    <3>1. q \in Movable /\ q \notin ToSet(a) /\ Open[n + 1] \in Form(q).fits
      BY <1>8, <2>1 DEF Unused
    <3>2. PICK j \in 1..n : c[j] = q
      BY <1>3, <1>6, <1>7, <1>11, <3>1 DEF FillsInTurn
    <3>3. q \in ToSet(a)
      BY <1>2, <1>4, <3>2 DEF ToSet
    <3> QED BY <3>1, <3>3
  <2>2. fit = {}
    BY <2>1
  <2> QED BY <1>2, <1>3, <1>8, <1>9, <1>11, <2>2 DEF Options
<1> QED BY <1>10, <1>11

\* The bound is one, if nobody hurts: no completion of a plan is worth more, and
\* none changes less.
LEMMA BoundHolds ==
    ASSUME TeamIsTyped, NEW a, Proper(a), NEW c, Complete(c), Extends(c, a)
    PROVE  /\ UpperBound(a) \in Int /\ (NoneBelowZero => Total(Placed(c)) <= UpperBound(a))
           /\ Changes(a) <= Changes(c)
<1>1. a \in Plans /\ c \in Plans /\ Fitting(c)
  BY DEF Proper, Complete
<1>2. PICK n \in Nat, m \in Nat :
        n = Len(a) /\ DOMAIN a = 1..n /\ m = Len(c) /\ m = Len(Open) /\ DOMAIN c = 1..m /\ n <= m
  <2>1. Len(a) \in Nat /\ Len(c) \in Nat /\ DOMAIN a = 1..Len(a) /\ DOMAIN c = 1..Len(c)
    BY <1>1, PlanIs
  <2> QED BY <2>1 DEF Complete, Extends
<1>3. \A k \in 1..n : k \in 1..m /\ c[k] = a[k]
  BY <1>2 DEF Extends
<1>4. PICK I, X : I = {k \in (n + 1)..m : c[k] # 0} /\ X = {c[k] : k \in I}
  OBVIOUS
<1>5. \A k \in 1..m : k \in 1..n \/ k \in (n + 1)..m
  BY <1>2
<1>6. \A k \in (n + 1)..m : k \in 1..m /\ k \notin 1..n
  BY <1>2
<1>7. Placed(a) = {a[k] : k \in 1..n} \ {0} /\ Placed(c) = {c[k] : k \in 1..m} \ {0}
  BY <1>2 DEF Placed, ToSet
<1>8. Placed(c) = Placed(a) \cup X
  BY <1>3, <1>4, <1>5, <1>6, <1>7
<1>9. X \in SUBSET Unused(a)
  <2> SUFFICES ASSUME NEW k \in I PROVE c[k] \in Movable /\ c[k] \notin ToSet(a)
    BY <1>4 DEF Unused
  <2>1. k \in (n + 1)..m /\ c[k] # 0 /\ k \in 1..m
    BY <1>4, <1>6
  <2>2. c[k] \in Movable
    BY <1>1, <1>2, <2>1 DEF Fitting
  <2>3. \A j \in 1..n : j # k /\ c[k] # c[j]
    BY <1>1, <1>2, <1>3, <1>6, <2>1 DEF Fitting
  <2> QED BY <1>2, <1>3, <2>2, <2>3 DEF ToSet
<1>10. PICK d \in Nat : d = Len(Open) - Len(a) /\ d = m - n
  BY <1>2
<1>11. Cardinality(X) <= d
  <2>1. IsFiniteSet((n + 1)..m) /\ Cardinality((n + 1)..m) <= d
    <3>1. PICK e \in Nat : e = n + 1
      OBVIOUS
    <3>2. IsFiniteSet(e..m) /\ Cardinality(e..m) = IF e > m THEN 0 ELSE m - e + 1
      BY FS_Interval
    <3>3. (IF e > m THEN 0 ELSE m - e + 1) <= d
      BY <1>10, <3>1
    <3> QED BY <3>1, <3>2, <3>3
  <2>2. I \in SUBSET ((n + 1)..m)
    BY <1>4
  <2>3. IsFiniteSet(I) /\ Cardinality(I) <= Cardinality((n + 1)..m)
    BY <2>1, <2>2, FS_Subset
  <2>4. PICK h : h = [k \in I |-> c[k]]
    OBVIOUS
  <2>5. h \in Surjection(I, X)
    BY <1>4, <2>4 DEF Surjection
  <2>6. Cardinality(X) <= Cardinality(I)
    BY <2>3, <2>5, FS_Surjection
  <2>7. IsFiniteSet(X)
    BY <2>3, <2>5, FS_Surjection
  <2>8. Cardinality(X) \in Nat /\ Cardinality(I) \in Nat /\ Cardinality((n + 1)..m) \in Nat
    BY <2>1, <2>3, <2>7, FS_CardinalityType
  <2> QED BY <2>1, <2>3, <2>6, <2>8
<1>12. Unused(a) \in SUBSET Men
  BY MovableAreMen DEF Unused
<1>13. ASSUME NoneBelowZero PROVE Total(X) <= Total(Leaders(d, Unused(a)))
  <2>1. Sane(Unused(a))
    BY <1>12, <1>13, FormIs DEF NoneBelowZero, Sane, Unused
  <2> QED BY <1>9, <1>11, <1>12, <2>1, LeadersAreWorthMost
<1>14. Total(Placed(c)) = Total(Placed(a)) + Total(X)
  <2>1. Placed(a) \in SUBSET Men /\ X \in SUBSET Men
    BY <1>1, <1>9, <1>12, PlanIs
  <2>2. Placed(a) \cap X = {}
    BY <1>9 DEF Unused, Placed
  <2> QED BY <1>8, <2>1, <2>2, TotalAdds
<1>15. PICK x \in Int, y \in Int, z \in Int :
         x = Total(Placed(a)) /\ y = Total(X) /\ z = Total(Leaders(d, Unused(a)))
  <2>1. Total(Placed(a)) \in Int
    BY <1>1, PlanIs
  <2>2. X \in SUBSET Men /\ Leaders(d, Unused(a)) \in SUBSET Men
    BY <1>9, <1>12 DEF Leaders
  <2> QED BY <2>1, <2>2, TotalIsInt
<1>16. UpperBound(a) = x + z
  BY <1>10, <1>15 DEF UpperBound
<1>17. (NoneBelowZero => Total(Placed(c)) <= x + z) /\ x + z \in Int
  BY <1>13, <1>14, <1>15
<1>18. Changes(a) <= Changes(c)
  <2>1. PICK A, C : /\ A = {k \in DOMAIN a : a[k] # 0 /\ At(a[k]) # Open[k]}
                    /\ C = {k \in DOMAIN c : c[k] # 0 /\ At(c[k]) # Open[k]}
    OBVIOUS
  <2>2. A \in SUBSET C
    BY <1>2, <1>3, <2>1
  <2>3. IsFiniteSet(C)
    <3>1. C \in SUBSET (1..m) /\ IsFiniteSet(1..m)
      BY <1>2, <2>1, FS_Interval
    <3> QED BY <3>1, FS_Subset
  <2> QED BY <2>1, <2>2, <2>3, FS_Subset DEF Changes
<1> QED BY <1>16, <1>17, <1>18

SoundBest(b) ==
    \/ b = NoBest
    \/ /\ Complete(b.picks)
       /\ b = [total |-> Total(Placed(b.picks)), changes |-> Changes(b.picks), picks |-> b.picks]
\* At least as good as another result, and as a plan.
AtLeast(r, b) ==
    \/ b = NoBest
    \/ r # NoBest /\ (r.total > b.total \/ (r.total = b.total /\ r.changes <= b.changes))
Wins(r, c) ==
    \/ r.total > Total(Placed(c))
    \/ r.total = Total(Placed(c)) /\ r.changes <= Changes(c)
Beats(r, c) == r # NoBest /\ (NoneBelowZero => Wins(r, c))

LEMMA SoundIsBest ==
    ASSUME TeamIsTyped, NEW b, SoundBest(b)
    PROVE  b \in Bests /\ b.total \in Int /\ b.changes \in Int
<1>1. CASE b = NoBest
  <2>1. <<>> \in Plans
    <3>1. <<>> \in [1..0 -> Men \cup {0}] /\ 0 \in 0..Len(Open)
      BY OpenIs
    <3> QED BY <3>1 DEF Plans
  <2> QED BY <1>1, <2>1 DEF NoBest, Bests
<1>2. CASE b # NoBest
  <2>1. /\ b.picks \in Plans
        /\ b = [total |-> Total(Placed(b.picks)), changes |-> Changes(b.picks), picks |-> b.picks]
    BY <1>2 DEF SoundBest, Complete, Proper
  <2>2. Total(Placed(b.picks)) \in Int /\ Changes(b.picks) \in Int
    BY <2>1, PlanIs
  <2> QED BY <2>1, <2>2 DEF Bests
<1> QED BY <1>1, <1>2

LEMMA AtLeastIsOrder ==
    ASSUME TeamIsTyped, NEW r, NEW b, NEW d, SoundBest(r), SoundBest(b), SoundBest(d)
    PROVE  /\ AtLeast(r, r)
           /\ AtLeast(r, b) /\ AtLeast(b, d) => AtLeast(r, d)
           /\ \A c \in Plans : AtLeast(r, b) /\ Beats(b, c) => Beats(r, c)
<1>1. /\ r.total \in Int /\ r.changes \in Int /\ b.total \in Int /\ b.changes \in Int
      /\ d.total \in Int /\ d.changes \in Int
  BY SoundIsBest
<1>2. \A c \in Plans : Total(Placed(c)) \in Int /\ Changes(c) \in Nat
  BY PlanIs
<1>3. AtLeast(r, r) /\ (AtLeast(r, b) /\ AtLeast(b, d) => AtLeast(r, d))
  BY <1>1 DEF AtLeast
<1>4. ASSUME NEW c \in Plans, AtLeast(r, b), Beats(b, c) PROVE Beats(r, c)
  <2>1. b # NoBest /\ r # NoBest
    BY <1>4 DEF AtLeast, Beats
  <2>2. Wins(b, c) => Wins(r, c)
    BY <1>1, <1>2, <1>4, <2>1 DEF AtLeast, Wins
  <2> QED BY <1>4, <2>1, <2>2 DEF Beats
<1> QED BY <1>3, <1>4

\* What a call comes to, if the loop over its slot keeps its word.
LEMMA VisitWins ==
    ASSUME TeamIsTyped, NEW a, Proper(a), NEW b, SoundBest(b), NEW t,
           Len(a) # Len(Open) =>
               /\ SoundBest(t) /\ AtLeast(t, b)
               /\ \A c \in Plans : Complete(c) /\ Extends(c, a) => Beats(t, c)
    PROVE  /\ SoundBest(Visit(a, b, t)) /\ AtLeast(Visit(a, b, t), b)
           /\ \A c \in Plans : Complete(c) /\ Extends(c, a) => Beats(Visit(a, b, t), c)
<1>1. b.total \in Int /\ b.changes \in Int /\ AtLeast(b, b)
  BY SoundIsBest, AtLeastIsOrder
<1>2. a \in Plans
  BY DEF Proper
<1>3. PICK s \in Int, k \in Nat : s = Total(Placed(a)) /\ k = Changes(a)
  BY <1>2, PlanIs
<1>4. CASE Len(a) = Len(Open)
  <2>1. Visit(a, b, t) = Better(a, b)
    BY <1>4 DEF Visit
  <2>2. ASSUME NEW c \in Plans, Complete(c), Extends(c, a) PROVE c = a
    <3>1. Len(c) = Len(a) /\ \A i \in 1..Len(a) : c[i] = a[i]
      BY <1>4, <2>2 DEF Complete, Extends
    <3>2. PICK S : S = Men \cup {0}
      OBVIOUS
    <3>3. c \in Seq(S) /\ a \in Seq(S)
      BY <1>2, <3>2, PlanIs
    <3> QED BY <3>1, <3>3
  <2>3. CASE b = NoBest \/ s > b.total \/ (s = b.total /\ k < b.changes)
    <3>1. PICK r : r = [total |-> s, changes |-> k, picks |-> a]
      OBVIOUS
    <3>2. Better(a, b) = r
      BY <1>3, <2>3, <3>1 DEF Better
    <3>3. Complete(a)
      BY <1>4 DEF Complete
    <3>4. SoundBest(r)
      BY <1>3, <3>1, <3>3 DEF SoundBest
    <3>5. r # NoBest
      <4>1. r.changes # NoBest.changes
        BY <1>3, <3>1 DEF NoBest
      <4> QED BY <4>1
    <3>6. AtLeast(r, b)
      BY <1>1, <2>3, <3>1, <3>5 DEF AtLeast
    <3>7. Beats(r, a)
      BY <1>3, <3>1, <3>5 DEF Beats, Wins
    <3> QED BY <2>1, <2>2, <3>2, <3>4, <3>6, <3>7
  <2>4. CASE ~(b = NoBest \/ s > b.total \/ (s = b.total /\ k < b.changes))
    <3>1. Better(a, b) = b
      BY <1>3, <2>4 DEF Better
    <3>2. Beats(b, a)
      BY <1>1, <1>3, <2>4 DEF Beats, Wins
    <3> QED BY <1>1, <2>1, <2>2, <3>1, <3>2
  <2> QED BY <2>3, <2>4
<1>5. CASE Len(a) # Len(Open) /\ Pruned(a, b)
  <2>1. Visit(a, b, t) = b
    BY <1>5 DEF Visit
  <2>2. ASSUME NEW c \in Plans, Complete(c), Extends(c, a) PROVE Beats(b, c)
    <3>1. /\ UpperBound(a) \in Int /\ (NoneBelowZero => Total(Placed(c)) <= UpperBound(a))
          /\ Changes(a) <= Changes(c)
      BY <2>2, BoundHolds
    <3>2. PICK u \in Int, x \in Int, y \in Nat : u = UpperBound(a) /\ x = Total(Placed(c)) /\ y = Changes(c)
      BY <3>1, PlanIs
    <3>3. u < b.total \/ (u = b.total /\ k >= b.changes)
      BY <1>3, <1>5, <3>2 DEF Pruned
    <3>4. NoneBelowZero => b.total > x \/ (b.total = x /\ b.changes <= y)
      BY <1>1, <1>3, <3>1, <3>2, <3>3
    <3>5. b # NoBest
      BY <1>5 DEF Pruned
    <3> QED BY <3>2, <3>4, <3>5 DEF Beats, Wins
  <2> QED BY <1>1, <2>1, <2>2
<1>6. CASE Len(a) # Len(Open) /\ ~Pruned(a, b)
  <2>1. Visit(a, b, t) = t
    BY <1>6 DEF Visit
  <2> QED BY <1>6, <2>1
<1> QED BY <1>4, <1>5, <1>6

\* The loop over a slot beats every completion that takes one of its players.
Keeps(l) ==
    Proper(l.plan) /\ SoundBest(l.best) =>
        /\ SoundBest(Search[l]) /\ AtLeast(Search[l], l.best)
        /\ \A c \in Plans :
              Complete(c) /\ Extends(c, l.plan) /\ c[Len(l.plan) + 1] \in l.rest => Beats(Search[l], c)

LEMMA SearchIs ==
    ASSUME TeamIsTyped, NEW l \in Loops
    PROVE  Search[l] = Trial(Search, l)
<1>1. PICK f : f = Search
  OBVIOUS
<1>2. IsSearch(f, Loops)
  BY <1>1, SearchExists, SearchIsChosen
<1> QED BY <1>1, <1>2 DEF IsSearch

LEMMA SearchKeeps ==
    ASSUME TeamIsTyped, NEW l \in Loops
    PROVE  Keeps(l)
<1> DEFINE T == {Weight(x) : x \in {y \in Loops : ~Keeps(y)}}
<1> SUFFICES ASSUME ~Keeps(l) PROVE FALSE
  OBVIOUS
<1>1. T \in SUBSET Nat /\ T # {}
  BY LoopIs
<1>2. PICK n \in T : \A m \in T : n <= m
  <2> HIDE DEF T
  <2> QED BY <1>1, LeastNumber
<1>3. PICK x \in Loops : n = Weight(x) /\ ~Keeps(x)
  BY <1>2
<1>4. ASSUME NEW y \in Loops, Weight(y) < Weight(x) PROVE Keeps(y)
  <2> SUFFICES ASSUME ~Keeps(y) PROVE FALSE
    OBVIOUS
  <2>1. Weight(y) \in T
    OBVIOUS
  <2>2. n <= Weight(y)
    <3> HIDE DEF T
    <3> QED BY <1>2, <2>1
  <2>3. Weight(y) \in Nat /\ Weight(x) \in Nat
    BY LoopIs
  <2> HIDE DEF T
  <2> QED BY <1>3, <1>4, <2>2, <2>3
<1> HIDE DEF T
<1>5. Search[x] = Trial(Search, x)
  BY SearchIs
<1>6. Proper(x.plan) /\ SoundBest(x.best) /\ Len(x.plan) < Len(Open) /\ x.plan \in Plans
  BY <1>3, LoopIs DEF Keeps
<1>7. CASE x.rest = {}
  <2>1. Search[x] = x.best
    BY <1>5, <1>7 DEF Trial
  <2>2. AtLeast(x.best, x.best)
    BY <1>6, AtLeastIsOrder
  <2> QED BY <1>3, <1>6, <1>7, <2>1, <2>2 DEF Keeps
<1>8. CASE x.rest # {}
  <2>1. PICK p, a, q : p = Foremost(x.rest) /\ a = Append(x.plan, p) /\ q = Loop(a, Options(a), x.best)
    OBVIOUS
  <2>2. PICK v : v = Visit(a, x.best, Search[q])
    OBVIOUS
  <2>3. PICK y : y = Loop(x.plan, x.rest \ {p}, v)
    OBVIOUS
  <2>4. Search[x] = Search[y]
    BY <1>5, <1>8, <2>1, <2>2, <2>3 DEF Trial
  <2>5. /\ p \in x.rest /\ a \in Plans /\ Len(a) = Len(x.plan) + 1
        /\ \A b \in Bests :
              /\ Loop(x.plan, x.rest \ {p}, b) \in Loops
              /\ Weight(Loop(x.plan, x.rest \ {p}, b)) < Weight(x)
              /\ Len(a) # Len(Open) =>
                    /\ Loop(a, Options(a), b) \in Loops
                    /\ Weight(Loop(a, Options(a), b)) < Weight(x)
    BY <1>8, <2>1, LoopsShrink
  <2>6. Proper(a)
    BY <1>6, <2>1, <2>5, ProperAppend, LoopIs
  <2>7. ASSUME Len(a) # Len(Open)
        PROVE  /\ SoundBest(Search[q]) /\ AtLeast(Search[q], x.best)
               /\ \A c \in Plans : Complete(c) /\ Extends(c, a) => Beats(Search[q], c)
    <3>1. q \in Loops /\ Keeps(q)
      BY <1>4, <1>6, <2>1, <2>5, <2>7, SoundIsBest
    <3>2. q.plan = a /\ q.rest = Options(a) /\ q.best = x.best
      BY <2>1 DEF Loop
    <3>3. Len(a) < Len(Open)
      BY <1>6, <2>5, <2>7, PlanIs, OpenIs
    <3>4. \A c \in Plans : Complete(c) /\ Extends(c, a) => c[Len(a) + 1] \in Options(a)
      BY <2>6, <3>3, NextIsOption
    <3> QED BY <1>6, <2>6, <3>1, <3>2, <3>4 DEF Keeps
  <2>8. /\ SoundBest(v) /\ AtLeast(v, x.best)
        /\ \A c \in Plans : Complete(c) /\ Extends(c, a) => Beats(v, c)
    BY <1>6, <2>2, <2>6, <2>7, VisitWins
  <2>9. y \in Loops /\ Keeps(y)
    BY <1>4, <2>3, <2>5, <2>8, SoundIsBest
  <2>10. y.plan = x.plan /\ y.rest = x.rest \ {p} /\ y.best = v
    BY <2>3 DEF Loop
  <2>11. /\ SoundBest(Search[y]) /\ AtLeast(Search[y], v)
         /\ \A c \in Plans :
               Complete(c) /\ Extends(c, x.plan) /\ c[Len(x.plan) + 1] \in x.rest \ {p}
                   => Beats(Search[y], c)
    BY <1>6, <2>8, <2>9, <2>10 DEF Keeps
  <2>12. AtLeast(Search[y], x.best)
    BY <1>6, <2>8, <2>11, AtLeastIsOrder
  <2>13. ASSUME NEW c \in Plans, Complete(c), Extends(c, x.plan), c[Len(x.plan) + 1] \in x.rest
         PROVE  Beats(Search[y], c)
    <3>1. CASE c[Len(x.plan) + 1] = p
      <4>1. Extends(c, a)
        BY <1>6, <2>1, <2>13, <3>1, NextIsOption
      <4>2. Beats(v, c)
        BY <2>8, <2>13, <4>1
      <4> QED BY <2>8, <2>11, <4>2, AtLeastIsOrder
    <3>2. CASE c[Len(x.plan) + 1] # p
      BY <2>11, <2>13, <3>2
    <3> QED BY <3>1, <3>2
  <2> QED BY <1>3, <2>4, <2>11, <2>12, <2>13 DEF Keeps
<1> QED BY <1>7, <1>8

-----------------------------------------------------------------------------
(* Every assignment is worth no more than one that fills the slots in turn.    *)

LEMMA LargerIsWorthMore ==
    ASSUME TeamIsTyped, NEW Q \in SUBSET Men, Sane(Q), NEW P \in SUBSET Q
    PROVE  Total(P) <= Total(Q)
<1>1. PICK R \in SUBSET Men : R = Q \ P
  OBVIOUS
<1>2. P \cup R = Q /\ P \cap R = {} /\ P \in SUBSET Men
  BY <1>1
<1>3. Total(Q) = Total(P) + Total(R)
  BY <1>2, TotalAdds
<1>4. Total(P) \in Int /\ Total(R) \in Nat
  <2>1. Sane(R)
    BY <1>1 DEF Sane
  <2> QED BY <1>2, <2>1, TotalIsInt, TotalIsNat
<1> QED BY <1>3, <1>4

\* At least as much, if nobody hurts.
AsGood(b, a) == NoneBelowZero => Total(Placed(a)) <= Total(Placed(b))

FilledTo(b, m) ==
    \A k \in 1..m : b[k] = 0 =>
        \A p \in Movable : Open[k] \in Form(p).fits => \E j \in 1..(k - 1) : b[j] = p

LEMMA AssignmentIs ==
    ASSUME TeamIsTyped, NEW a \in Assignments
    PROVE  /\ a \in [1..Len(Open) -> Movable \cup {0}] /\ DOMAIN a = 1..Len(Open)
           /\ a \in Plans /\ Len(a) = Len(Open) /\ Fitting(a)
<1>1. PICK n \in Nat : n = Len(Open)
  BY OpenIs
<1>2. a \in [1..n -> Movable \cup {0}] /\ DOMAIN a = 1..n
  BY <1>1 DEF Assignments
<1>3. a \in [1..n -> Men \cup {0}]
  BY <1>2, MovableAreMen
<1>4. a \in Plans
  BY <1>1, <1>3 DEF Plans
<1>5. Len(a) = n
  BY <1>2
<1>6. Fitting(a)
  BY <1>2 DEF Assignments, Fitting
<1> QED BY <1>1, <1>2, <1>4, <1>5, <1>6

LEMMA FillOne ==
    ASSUME TeamIsTyped, NEW b \in Assignments, NEW m \in 1..Len(Open), FilledTo(b, m - 1)
    PROVE  \E c \in Assignments : FilledTo(c, m) /\ AsGood(c, b)
<1>1. PICK n \in Nat : n = Len(Open) /\ m \in 1..n /\ DOMAIN b = 1..n /\ b \in [1..n -> Movable \cup {0}]
  BY AssignmentIs, OpenIs
<1>2. Fitting(b) /\ b \in Plans
  BY AssignmentIs
<1>3. \A k \in 1..m : k \in 1..n /\ (k \in 1..(m - 1) \/ k = m)
  BY <1>1
<1>4. CASE FilledTo(b, m)
  <2>1. AsGood(b, b)
    BY <1>2, PlanIs DEF AsGood
  <2> QED BY <1>4, <2>1
<1>5. CASE ~FilledTo(b, m)
  <2>1. PICK p \in Movable :
          b[m] = 0 /\ Open[m] \in Form(p).fits /\ \A j \in 1..(m - 1) : b[j] # p
    BY <1>3, <1>5 DEF FilledTo
  <2>2. p # 0 /\ Movable \in SUBSET Men
    BY <2>1, MovableAreMen, MenAreFinite
  <2>3. PICK c : c = [k \in 1..n |-> IF k = m THEN p ELSE IF b[k] = p THEN 0 ELSE b[k]]
    OBVIOUS
  <2>4. c \in [1..n -> Movable \cup {0}] /\ DOMAIN c = 1..n
    BY <1>1, <2>1, <2>3
  <2>5. /\ c[m] = p
        /\ \A k \in 1..n : k # m => c[k] = 0 \/ (c[k] = b[k] /\ b[k] # p)
        /\ \A k \in 1..n : k # m /\ b[k] # p => c[k] = b[k]
    BY <1>1, <2>3
  <2>6. ASSUME NEW k \in 1..n, c[k] # 0 PROVE Open[k] \in Form(c[k]).fits
    <3>1. CASE k = m
      BY <2>1, <2>5, <3>1
    <3>2. CASE k # m
      BY <1>1, <1>2, <2>5, <2>6, <3>2 DEF Fitting
    <3> QED BY <3>1, <3>2
  <2>7. ASSUME NEW j \in 1..n, NEW k \in 1..n, j # k, c[j] # 0 PROVE c[j] # c[k]
    <3>1. CASE j = m
      BY <2>2, <2>5, <2>7, <3>1
    <3>2. CASE k = m
      BY <2>5, <2>7, <3>2
    <3>3. CASE j # m /\ k # m
      <4>1. c[j] = b[j] /\ b[j] # 0 /\ (c[k] = 0 \/ c[k] = b[k])
        BY <2>5, <2>7, <3>3
      <4> QED BY <1>1, <1>2, <2>7, <4>1 DEF Fitting
    <3> QED BY <3>1, <3>2, <3>3
  <2>8. c \in Assignments
    BY <1>1, <2>4, <2>6, <2>7 DEF Assignments
  <2>9. ASSUME NoneBelowZero PROVE Total(Placed(b)) <= Total(Placed(c))
    <3>1. Placed(b) = {b[k] : k \in 1..n} \ {0} /\ Placed(c) = {c[k] : k \in 1..n} \ {0}
      BY <1>1, <2>4 DEF Placed, ToSet
    <3>2. Placed(b) \in SUBSET Placed(c)
      <4> SUFFICES ASSUME NEW k \in 1..n, b[k] # 0 PROVE b[k] \in {c[i] : i \in 1..n}
        BY <3>1
      <4> QED BY <1>1, <2>1, <2>5
    <3>3. Placed(c) \in SUBSET Men
      BY <2>8, AssignmentIs, PlanIs
    <3>4. Sane(Placed(c))
      <4>1. Placed(c) \in SUBSET Movable
        BY <2>4, <3>1
      <4> QED BY <2>9, <3>3, <4>1, FormIs DEF NoneBelowZero, Sane
    <3> QED BY <3>2, <3>3, <3>4, LargerIsWorthMore
  <2>10. FilledTo(c, m)
    <3> SUFFICES ASSUME NEW k \in 1..m, c[k] = 0, NEW q \in Movable, Open[k] \in Form(q).fits
                 PROVE  \E j \in 1..(k - 1) : c[j] = q
      BY DEF FilledTo
    <3>1. k \in 1..(m - 1) /\ k \in 1..n /\ k # m
      BY <1>1, <1>3, <2>2, <2>5
    <3>2. b[k] # p
      BY <2>1, <3>1
    <3>3. b[k] = 0
      BY <2>5, <3>1, <3>2
    <3>4. PICK j \in 1..(k - 1) : b[j] = q
      BY <3>1, <3>3 DEF FilledTo
    <3>5. j \in 1..(m - 1) /\ j \in 1..n /\ j # m
      BY <1>1, <3>1
    <3>6. c[j] = b[j]
      BY <2>1, <2>5, <3>5
    <3> QED BY <3>4, <3>6
  <2> QED BY <2>8, <2>9, <2>10 DEF AsGood
<1> QED BY <1>4, <1>5

LEMMA FillUp ==
    ASSUME TeamIsTyped, NEW a \in Assignments
    PROVE  \E c \in Plans : Complete(c) /\ AsGood(c, a)
<1> DEFINE Done(m) == \E b \in Assignments : FilledTo(b, m) /\ AsGood(b, a)
           T == {m \in 0..Len(Open) : ~Done(m)}
<1>1. PICK n \in Nat : n = Len(Open)
  BY OpenIs
<1>2. \A b \in Assignments : Total(Placed(b)) \in Int
  BY AssignmentIs, PlanIs
<1>3. T = {}
  <2> SUFFICES ASSUME T # {} PROVE FALSE
    OBVIOUS
  <2>1. PICK m \in T : \A l \in T : m <= l
    <3>1. T \in SUBSET Nat
      BY <1>1
    <3> HIDE DEF T
    <3> QED BY <3>1, LeastNumber
  <2>2. m \in 0..n /\ ~Done(m)
    BY <1>1, <2>1
  <2>3. CASE m = 0
    <3>1. FilledTo(a, 0)
      BY DEF FilledTo
    <3>2. AsGood(a, a)
      BY <1>2 DEF AsGood
    <3> QED BY <2>2, <2>3, <3>1, <3>2
  <2>4. CASE m # 0
    <3>1. m \in 1..n /\ m - 1 \in 0..n /\ ~(m <= m - 1)
      BY <2>2, <2>4
    <3>2. Done(m - 1)
      <4>1. m - 1 \notin T
        <5> HIDE DEF T
        <5> QED BY <2>1, <3>1
      <4> QED BY <1>1, <3>1, <4>1
    <3>3. PICK b \in Assignments : FilledTo(b, m - 1) /\ AsGood(b, a)
      BY <3>2
    <3>4. PICK c \in Assignments : FilledTo(c, m) /\ AsGood(c, b)
      BY <1>1, <3>1, <3>3, FillOne
    <3>5. AsGood(c, a)
      BY <1>2, <3>3, <3>4 DEF AsGood
    <3> QED BY <2>2, <3>4, <3>5
  <2> QED BY <2>3, <2>4
<1>4. Done(n)
  BY <1>1, <1>3
<1>5. PICK c \in Assignments : FilledTo(c, n) /\ AsGood(c, a)
  BY <1>4
<1>6. c \in Plans /\ DOMAIN c = 1..n /\ Len(c) = Len(Open) /\ Fitting(c)
  BY <1>1, AssignmentIs
<1>7. FillsInTurn(c)
  BY <1>5, <1>6 DEF FilledTo, FillsInTurn
<1> QED BY <1>5, <1>6, <1>7 DEF Complete, Proper

LEMMA APlanIsComplete == ASSUME TeamIsTyped PROVE \E c \in Plans : Complete(c)
<1>1. PICK n \in Nat : n = Len(Open)
  BY OpenIs
<1>2. PICK a : a = [k \in 1..n |-> 0]
  OBVIOUS
<1>3. a \in Assignments
  BY <1>1, <1>2 DEF Assignments
<1> QED BY <1>3, FillUp

\* What the search picks is a finished plan, and no other beats it if nobody hurts.
LEMMA PicksAreBest ==
    ASSUME TeamIsTyped
    PROVE  /\ Complete(Picks)
           /\ NoneBelowZero => \A c \in Plans : Complete(c) =>
                 \/ Total(Placed(Picks)) > Total(Placed(c))
                 \/ Total(Placed(Picks)) = Total(Placed(c)) /\ Changes(Picks) <= Changes(c)
<1>1. PICK e, q : e = <<>> /\ q = Loop(e, Options(e), NoBest)
  OBVIOUS
<1>2. PICK v : v = Visit(e, NoBest, Search[q])
  OBVIOUS
<1>3. Picks = v.picks
  BY <1>1, <1>2 DEF Picks
<1>4. e \in Plans /\ Len(e) = 0 /\ DOMAIN e = {}
  <2>1. e \in [1..0 -> Men \cup {0}] /\ 0 \in 0..Len(Open)
    BY <1>1, OpenIs
  <2> QED BY <1>1, <2>1 DEF Plans
<1>5. Proper(e)
  BY <1>4 DEF Proper, Fitting, FillsInTurn
<1>6. SoundBest(NoBest)
  BY DEF SoundBest
<1>7. \A c \in Plans : Extends(c, e)
  BY <1>4, PlanIs DEF Extends
<1>8. ASSUME Len(e) # Len(Open)
      PROVE  /\ SoundBest(Search[q]) /\ AtLeast(Search[q], NoBest)
             /\ \A c \in Plans : Complete(c) /\ Extends(c, e) => Beats(Search[q], c)
  <2>1. Len(e) < Len(Open)
    BY <1>4, <1>8, OpenIs
  <2>2. q.plan = e /\ q.rest = Options(e) /\ q.best = NoBest
    BY <1>1 DEF Loop
  <2>3. q \in Loops
    <3>1. Options(e) \in SUBSET (Men \cup {0}) /\ NoBest \in Bests
      BY <1>4, <1>6, OptionsAre, SoundIsBest
    <3> QED BY <1>1, <1>4, <2>1, <3>1 DEF Loop, Loops
  <2>4. Keeps(q)
    BY <2>3, SearchKeeps
  <2>5. \A c \in Plans : Complete(c) /\ Extends(c, e) => c[Len(e) + 1] \in Options(e)
    BY <1>5, <2>1, NextIsOption
  <2> QED BY <1>5, <1>6, <2>2, <2>4, <2>5 DEF Keeps
<1>9. SoundBest(v) /\ \A c \in Plans : Complete(c) => Beats(v, c)
  BY <1>2, <1>5, <1>6, <1>7, <1>8, VisitWins
<1>10. v # NoBest
  <2>1. PICK c \in Plans : Complete(c)
    BY APlanIsComplete
  <2> QED BY <1>9, <2>1 DEF Beats
<1>11. Complete(Picks) /\ v.total = Total(Placed(Picks)) /\ v.changes = Changes(Picks)
  BY <1>3, <1>9, <1>10 DEF SoundBest
<1> QED BY <1>9, <1>11 DEF Beats, Wins

-----------------------------------------------------------------------------
(* The lineup.                                                                 *)

\* Where a plan has its k-th player.
LEMMA ChosenIs ==
    ASSUME TeamIsTyped, NEW a, Complete(a)
    PROVE  /\ Placed(a) \in SUBSET (Men \ Locked) /\ Placed(a) \in SUBSET Movable
           /\ \A k \in 1..Len(Open) : a[k] # 0 => /\ a[k] \in Placed(a) /\ Chosen(a)[a[k]] = Open[k]
                                                  /\ Open[k] \in Form(a[k]).fits
           /\ \A p \in Placed(a) : \E k \in 1..Len(Open) : a[k] = p /\ a[k] # 0
           /\ \A p \in Locked : Chosen(a)[p] = At(p)
           /\ \A p \in Men \ (Locked \cup Placed(a)) : Chosen(a)[p] = Reserve
<1>1. PICK n : n = Len(Open) /\ DOMAIN a = 1..n /\ a \in Plans /\ Fitting(a)
  BY PlanIs DEF Complete, Proper
<1>2. ToSet(a) = {a[k] : k \in 1..n} /\ Placed(a) = {a[k] : k \in 1..n} \ {0}
  BY <1>1 DEF ToSet, Placed
<1>3. \A k \in 1..n : a[k] # 0 => a[k] \in Placed(a) /\ a[k] \in Movable /\ Open[k] \in Form(a[k]).fits
  BY <1>1, <1>2 DEF Fitting
<1>4. \A p \in Placed(a) : \E k \in 1..n : a[k] = p /\ a[k] # 0
  BY <1>2
<1>5. Placed(a) \in SUBSET Movable /\ Movable \in SUBSET (Men \ Locked)
  BY <1>3, <1>4 DEF Movable
<1>6. ASSUME NEW k \in 1..n, a[k] # 0 PROVE Chosen(a)[a[k]] = Open[k]
  <2>1. a[k] \in Men \ Locked /\ a[k] \in ToSet(a)
    BY <1>2, <1>3, <1>5, <1>6
  <2>2. Chosen(a)[a[k]] = Open[CHOOSE j \in DOMAIN a : a[j] = a[k]]
    BY <2>1 DEF Chosen
  <2>3. PICK i : i = CHOOSE j \in DOMAIN a : a[j] = a[k]
    OBVIOUS
  <2>4. i \in 1..n /\ a[i] = a[k]
    BY <1>1, <1>6, <2>3
  <2>5. i = k
    BY <1>1, <1>6, <2>4 DEF Fitting
  <2> QED BY <2>2, <2>3, <2>5
<1>7. Locked \in SUBSET Men
  BY TeamFacts
<1>8. ASSUME NEW p \in Men \ (Locked \cup Placed(a)) PROVE Chosen(a)[p] = Reserve
  <2>1. p # 0 /\ p \notin ToSet(a)
    BY MenAreFinite DEF Placed
  <2> QED BY <2>1 DEF Chosen
<1> QED BY <1>1, <1>3, <1>4, <1>5, <1>6, <1>7, <1>8 DEF Chosen

\* A plan and the locked players leave the slots of a name that they do not take.
LEMMA RoomIs ==
    ASSUME TeamIsTyped, NEW a, Complete(a), NEW x \in ToSet(Spots)
    PROVE  /\ Room(Chosen(a), x) \in Nat
           /\ IsFiniteSet({p \in Men : Chosen(a)[p] = x})
           /\ Cardinality({p \in Men : Chosen(a)[p] = x}) \in Nat
           /\ Cardinality({p \in Men : Chosen(a)[p] = x}) + Room(Chosen(a), x) = Capacity(Spots, x)
           /\ (\A k \in 1..Len(Open) : Open[k] = x => a[k] # 0) => Room(Chosen(a), x) = 0
<1>1. PICK c, n : c = Chosen(a) /\ n = Len(Open)
  OBVIOUS
<1>2. PICK I, J, C, D, L :
        /\ I = {k \in 1..n : Open[k] = x} /\ J = {k \in I : a[k] # 0}
        /\ C = {p \in Placed(a) : c[p] = x} /\ D = {p \in Men : c[p] = x} /\ L = LockedAt(x)
  OBVIOUS
<1>3. /\ IsFiniteSet(L) /\ Cardinality(L) \in Nat /\ Capacity(Spots, x) \in Nat
      /\ IsFiniteSet(I) /\ Cardinality(I) = Capacity(Spots, x) - Cardinality(L)
  BY <1>1, <1>2, OpenPlaces
<1>4. x # Reserve /\ Locked \in SUBSET Men
  BY TeamFacts
<1>5. D = L \cup C /\ L \cap C = {}
  <2>1. /\ Placed(a) \in SUBSET (Men \ Locked) /\ \A p \in Locked : c[p] = At(p)
        /\ \A p \in Men \ (Locked \cup Placed(a)) : c[p] = Reserve
    BY <1>1, ChosenIs
  <2> QED BY <1>2, <1>4, <2>1 DEF LockedAt
<1>6. IsFiniteSet(C) /\ IsFiniteSet(D) /\ Cardinality(C) \in Nat /\ Cardinality(D) \in Nat
  <2>1. D \in SUBSET Men /\ C \in SUBSET Men
    BY <1>2, <1>5
  <2> QED BY <2>1, MenAreFinite
<1>7. Cardinality(D) = Cardinality(L) + Cardinality(C)
  <2>1. Cardinality(L \cap C) = 0
    BY <1>5, FS_EmptySet
  <2>2. Cardinality(L \cup C) = Cardinality(L) + Cardinality(C) - Cardinality(L \cap C)
    BY <1>3, <1>6, FS_Union
  <2> QED BY <1>3, <1>5, <1>6, <2>1, <2>2
<1>8. PICK h : h = [k \in J |-> a[k]]
  OBVIOUS
<1>9. h \in Bijection(J, C)
  <2>1. \A k \in 1..n : a[k] # 0 => a[k] \in Placed(a) /\ c[a[k]] = Open[k]
    BY <1>1, ChosenIs
  <2>2. h \in [J -> C]
    BY <1>2, <1>8, <2>1
  <2>3. \A i, j \in J : h[i] = h[j] => i = j
    <3>1. \A i, j \in J : a[i] = a[j] => i = j
      BY <1>1, <1>2, PlanIs DEF Complete, Proper, Fitting
    <3> QED BY <1>8, <3>1
  <2>4. \A p \in C : \E k \in J : h[k] = p
    <3>1. \A p \in Placed(a) : \E k \in 1..n : a[k] = p /\ a[k] # 0
      BY <1>1, ChosenIs
    <3> QED BY <1>2, <1>8, <2>1, <3>1
  <2> QED BY <2>2, <2>3, <2>4 DEF Bijection, Injection, Surjection, IsInjective
<1>10. IsFiniteSet(J) /\ Cardinality(J) \in Nat /\ Cardinality(J) <= Cardinality(I) /\ Cardinality(J) = Cardinality(C)
  <2>1. J \in SUBSET I
    BY <1>2
  <2>2. IsFiniteSet(J) /\ Cardinality(J) <= Cardinality(I)
    BY <1>3, <2>1, FS_Subset
  <2>3. ExistsBijection(J, C)
    BY <1>9 DEF ExistsBijection
  <2> QED BY <2>2, <2>3, FS_Bijection, FS_CardinalityType
<1>11. Room(c, x) = Capacity(Spots, x) - Cardinality(D)
  BY <1>2 DEF Room
<1>12. (\A k \in 1..n : Open[k] = x => a[k] # 0) => J = I
  BY <1>2
<1>13. PICK i \in Nat, j \in Nat, l \in Nat, t \in Nat :
         i = Cardinality(I) /\ j = Cardinality(J) /\ l = Cardinality(L) /\ t = Capacity(Spots, x)
  <2>1. Cardinality(I) \in Nat
    BY <1>3, FS_CardinalityType
  <2> QED BY <1>3, <1>10, <2>1
<1>14. i = t - l /\ j <= i /\ Cardinality(D) = l + j /\ Room(c, x) = t - (l + j)
  BY <1>3, <1>7, <1>10, <1>11, <1>13
<1>15. Room(c, x) \in Nat /\ Cardinality(D) + Room(c, x) = Capacity(Spots, x)
  <2>1. j <= t - l
    BY <1>14
  <2>2. t - (l + j) \in Nat /\ (l + j) + (t - (l + j)) = t
    BY <2>1
  <2> QED BY <1>13, <1>14, <2>2
<1>16. J = I => Room(c, x) = 0
  <2>1. J = I => i = j
    BY <1>13
  <2>2. i = j => t - (l + j) = 0
    BY <1>14
  <2> QED BY <1>14, <2>1, <2>2
<1> QED BY <1>1, <1>2, <1>6, <1>12, <1>15, <1>16

LEMMA TotalOfZeros ==
    ASSUME TeamIsTyped, NEW P \in SUBSET Men, \A p \in P : Worth(p) = 0
    PROVE  Total(P) = 0
<1> DEFINE B == {s \in SUBSET P : Total(s) # 0}
<1> SUFFICES ASSUME B # {} PROVE FALSE
  OBVIOUS
<1>1. PICK s \in B : \A x \in s : s \ {x} \notin B
  <2>1. B \in SUBSET (SUBSET P) /\ IsFiniteSet(P)
    BY MenAreFinite
  <2> HIDE DEF B
  <2> QED BY <2>1, SmallestSet
<1>2. s \in SUBSET Men /\ s \in SUBSET P /\ Total(s) # 0
  BY <1>1
<1>3. PICK p : p \in s
  BY <1>2, TotalOfPick
<1>4. Total(s \ {p}) = 0
  BY <1>1, <1>2, <1>3
<1>5. Total(s) = Worth(p) + Total(s \ {p}) /\ Worth(p) = 0
  BY <1>2, <1>3, TotalStep
<1> QED BY <1>2, <1>4, <1>5

\* What LineupIsBest says of a lineup w of the team.
ScoringIn(w) == {p \in Men \ Locked : w[p] \in Form(p).fits}
MovedIn(w) == {p \in Men : w[p] \notin {Reserve, At(p)}}
IsPlace(w, p) == w[p] \in Form(p).fits \cup {Reserve} \/ (pool.pitching /\ w[p] = At(p))
IsLegal(w) ==
    /\ Holds(Spots, w)
    /\ \A p \in Locked : w[p] = At(p)
    /\ \A p \in Men \ Locked : IsPlace(w, p)
IsBest(w) ==
    /\ IsLegal(w)
    /\ NoneBelowZero =>
          \A a \in Assignments :
             /\ Total(Placed(a)) <= Total(ScoringIn(w))
             /\ Total(Placed(a)) = Total(ScoringIn(w)) /\ FillsInTurn(a)
                   => Cardinality(MovedIn(w)) <= Changes(a)

\* The lineup made of the picks and of those who keep their slots.
IsMade(w, c, kept) ==
    /\ kept \in SUBSET Displaced(c) /\ KeepSlots(c, kept)
    /\ w = [p \in Men |-> IF p \in kept THEN At(p) ELSE c[p]]

\* Whoever keeps a slot he fits has no game: a slot he could have played in is
\* not left empty.
LEMMA KeptAreIdle ==
    ASSUME TeamIsTyped, NEW kept, NEW w, IsMade(w, Chosen(Picks), kept)
    PROVE  /\ kept \in SUBSET (Men \ (Locked \cup Placed(Picks)))
           /\ \A p \in kept : At(p) \in ToSet(Spots) /\ Chosen(Picks)[p] = Reserve /\ pool.pitching
           /\ \A p \in kept : At(p) \in Form(p).fits => Worth(p) = 0
<1>1. PICK a, c : a = Picks /\ c = Chosen(a)
  OBVIOUS
<1>2. Complete(a) /\ kept \in SUBSET Displaced(c) /\ KeepSlots(c, kept)
  BY <1>1, PicksAreBest DEF IsMade
<1>3. ASSUME NEW p \in kept
      PROVE  /\ p \in Men \ (Locked \cup Placed(a)) /\ At(p) \in ToSet(Spots)
             /\ c[p] = Reserve /\ pool.pitching /\ (At(p) \in Form(p).fits => Worth(p) = 0)
  <2>1. p \in Men \ Locked /\ pool.pitching /\ c[p] = Reserve /\ At(p) # Reserve
    BY <1>2 DEF Displaced
  <2>2. PICK x : x = At(p)
    OBVIOUS
  <2>3. x \in ToSet(Spots)
    BY <2>1, <2>2, TeamFacts
  <2>4. p \notin Placed(a)
    <3> SUFFICES ASSUME p \in Placed(a) PROVE FALSE
      OBVIOUS
    <3>1. PICK k \in 1..Len(Open) : a[k] = p /\ a[k] # 0
      BY <1>2, ChosenIs
    <3>2. c[p] = Open[k]
      BY <1>1, <1>2, <3>1, ChosenIs
    <3> QED BY <2>1, <3>2, OpenIs
  <2>5. ASSUME x \in Form(p).fits PROVE ~Form(p).game
    <3> SUFFICES ASSUME Form(p).game PROVE FALSE
      OBVIOUS
    <3>1. p \in Movable
      BY <2>1 DEF Movable
    <3>2. p \notin ToSet(a)
      BY <2>1, <2>4, MenAreFinite DEF Placed
    <3>3. ASSUME NEW k \in 1..Len(Open), Open[k] = x, a[k] = 0 PROVE FALSE
      <4>1. DOMAIN a = 1..Len(Open) /\ FillsInTurn(a)
        BY <1>2, PlanIs DEF Complete, Proper
      <4>2. PICK j \in 1..(k - 1) : a[j] = p
        BY <2>5, <3>1, <3>3, <4>1 DEF FillsInTurn
      <4>3. j \in 1..Len(Open)
        BY OpenIs
      <4> QED BY <3>2, <4>1, <4>2, <4>3 DEF ToSet
    <3>4. Room(c, x) = 0
      BY <1>1, <1>2, <2>3, <3>3, RoomIs
    <3>5. PICK idle : idle = {q \in Displaced(c) : At(q) = x}
      OBVIOUS
    <3>6. p \in kept \cap idle /\ idle \in SUBSET Men
      BY <1>2, <2>2, <3>5 DEF Displaced
    <3>7. IsFiniteSet(idle) /\ Cardinality(idle) \in Nat /\ IsFiniteSet(kept \cap idle)
      BY <3>6, MenAreFinite
    <3>8. Cardinality(kept \cap idle) = IF Cardinality(idle) < Room(c, x) THEN Cardinality(idle) ELSE Room(c, x)
      BY <1>2, <2>3, <3>5 DEF KeepSlots
    <3>9. Cardinality(kept \cap idle) = 0
      BY <3>4, <3>7, <3>8
    <3> QED BY <3>6, <3>7, <3>9, FS_EmptySet
  <2>6. x \in Form(p).fits => Worth(p) = 0
    BY <2>5 DEF Worth
  <2> QED BY <2>1, <2>2, <2>3, <2>4, <2>6
<1> QED BY <1>1, <1>3

LEMMA MadeIs ==
    ASSUME TeamIsTyped, NEW kept, NEW w, IsMade(w, Chosen(Picks), kept)
    PROVE  /\ \A p \in Locked : w[p] = At(p)
           /\ ScoringIn(w) = Placed(Picks) \cup {p \in kept : At(p) \in Form(p).fits}
           /\ Placed(Picks) \cap kept = {}
           /\ \A p \in kept : w[p] = At(p)
           /\ \A p \in Men \ kept : w[p] = Chosen(Picks)[p]
           /\ \A k \in 1..Len(Open) : Picks[k] # 0 => w[Picks[k]] = Open[k] /\ Picks[k] \in Men
           /\ \A p \in Men \ (Locked \cup Placed(Picks) \cup kept) : w[p] = Reserve
<1>1. PICK a, c : a = Picks /\ c = Chosen(a)
  OBVIOUS
<1>2. Complete(a)
  BY <1>1, PicksAreBest
<1>3. /\ kept \in SUBSET (Men \ (Locked \cup Placed(a)))
      /\ \A p \in kept : At(p) \in ToSet(Spots) /\ c[p] = Reserve /\ pool.pitching
  BY <1>1, KeptAreIdle
<1>4. Locked \in SUBSET Men /\ Reserve \notin ToSet(Spots)
  BY TeamFacts
<1>5. (\A p \in kept : w[p] = At(p)) /\ \A p \in Men \ kept : w[p] = c[p]
  BY <1>1, <1>3 DEF IsMade
<1>6. /\ Placed(a) \in SUBSET (Men \ Locked)
      /\ \A k \in 1..Len(Open) : a[k] # 0 => a[k] \in Placed(a) /\ c[a[k]] = Open[k]
      /\ \A p \in Placed(a) : \E k \in 1..Len(Open) : a[k] = p /\ a[k] # 0
      /\ \A p \in Locked : c[p] = At(p)
      /\ \A p \in Men \ (Locked \cup Placed(a)) : c[p] = Reserve
  BY <1>1, <1>2, ChosenIs
<1>7. \A p \in Locked : w[p] = At(p)
  BY <1>3, <1>4, <1>5, <1>6
<1>8. \A k \in 1..Len(Open) : a[k] # 0 => w[a[k]] = Open[k] /\ a[k] \in Men
  BY <1>3, <1>5, <1>6
<1>9. \A p \in Men \ (Locked \cup Placed(a) \cup kept) : w[p] = Reserve
  BY <1>5, <1>6
<1>10. \A p \in Placed(a) : w[p] \in Form(p).fits
  BY <1>1, <1>2, <1>6, <1>8, ChosenIs
<1>11. \A p \in Men : Reserve \notin Form(p).fits
  BY FormIs
<1>12. ScoringIn(w) = Placed(a) \cup {p \in kept : At(p) \in Form(p).fits}
  BY <1>3, <1>5, <1>6, <1>9, <1>10, <1>11 DEF ScoringIn
<1> QED BY <1>1, <1>3, <1>5, <1>7, <1>8, <1>9, <1>12

LEMMA MadeIsLegal ==
    ASSUME TeamIsTyped, NEW kept, NEW w, IsMade(w, Chosen(Picks), kept)
    PROVE  IsLegal(w) /\ w \in [Men -> ToSet(Spots) \cup {Reserve}]
<1>1. PICK a, c : a = Picks /\ c = Chosen(a)
  OBVIOUS
<1>2. Complete(a)
  BY <1>1, PicksAreBest
<1>3. /\ kept \in SUBSET (Men \ (Locked \cup Placed(a)))
      /\ \A p \in kept : At(p) \in ToSet(Spots) /\ c[p] = Reserve /\ pool.pitching
  BY <1>1, KeptAreIdle
<1>4. /\ \A p \in Locked : w[p] = At(p)
      /\ \A p \in kept : w[p] = At(p)
      /\ \A p \in Men \ kept : w[p] = c[p]
      /\ \A k \in 1..Len(Open) : a[k] # 0 => w[a[k]] = Open[k] /\ a[k] \in Men
      /\ \A p \in Men \ (Locked \cup Placed(a) \cup kept) : w[p] = Reserve
  BY <1>1, MadeIs
<1>5. ASSUME NEW p \in Men
      PROVE  w[p] \in ToSet(Spots) \cup {Reserve} /\ (p \notin Locked => IsPlace(w, p))
  <2>1. CASE p \in Locked
    BY <1>4, <2>1, TeamFacts
  <2>2. CASE p \in kept
    BY <1>3, <1>4, <2>2 DEF IsPlace
  <2>3. CASE p \in Placed(a)
    <3>1. PICK k \in 1..Len(Open) : a[k] = p /\ a[k] # 0 /\ Open[k] \in Form(p).fits
      BY <1>2, <2>3, ChosenIs
    <3> QED BY <1>4, <3>1, OpenIs DEF IsPlace
  <2>4. CASE p \notin Locked \cup Placed(a) \cup kept
    BY <1>4, <2>4 DEF IsPlace
  <2> QED BY <2>1, <2>2, <2>3, <2>4
<1>6. ASSUME NEW x \in ToSet(Spots) PROVE Cardinality({p \in Men : w[p] = x}) <= Capacity(Spots, x)
  <2>1. PICK D, W, idle : /\ D = {p \in Men : c[p] = x} /\ W = {p \in Men : w[p] = x}
                          /\ idle = {q \in Displaced(c) : At(q) = x}
    OBVIOUS
  <2>2. x # Reserve /\ KeepSlots(c, kept) /\ kept \in SUBSET Displaced(c)
    BY <1>1, TeamFacts DEF IsMade
  <2>3. /\ Room(c, x) \in Nat /\ IsFiniteSet(D) /\ Cardinality(D) \in Nat
        /\ Cardinality(D) + Room(c, x) = Capacity(Spots, x)
    BY <1>1, <1>2, <2>1, RoomIs
  <2>4. W = D \cup (kept \cap idle) /\ D \cap (kept \cap idle) = {}
    BY <1>3, <1>4, <2>1, <2>2
  <2>5. IsFiniteSet(idle) /\ Cardinality(idle) \in Nat /\ IsFiniteSet(kept \cap idle) /\ Cardinality(kept \cap idle) \in Nat
    <3>1. idle \in SUBSET Men /\ kept \cap idle \in SUBSET Men
      BY <1>3, <2>1 DEF Displaced
    <3> QED BY <3>1, MenAreFinite
  <2>6. Cardinality(kept \cap idle) = IF Cardinality(idle) < Room(c, x) THEN Cardinality(idle) ELSE Room(c, x)
    BY <2>1, <2>2 DEF KeepSlots
  <2>7. Cardinality(kept \cap idle) <= Room(c, x)
    BY <2>3, <2>5, <2>6
  <2>8. Cardinality(W) = Cardinality(D) + Cardinality(kept \cap idle)
    <3>1. PICK K : K = kept \cap idle
      OBVIOUS
    <3>2. Cardinality(D \cap K) = 0
      BY <2>4, <3>1, FS_EmptySet
    <3>3. Cardinality(D \cup K) = Cardinality(D) + Cardinality(K) - Cardinality(D \cap K)
      BY <2>3, <2>5, <3>1, FS_Union
    <3> QED BY <2>3, <2>4, <2>5, <3>1, <3>2, <3>3
  <2> QED BY <2>1, <2>3, <2>5, <2>7, <2>8
<1>7. IsLegal(w)
  BY <1>4, <1>5, <1>6 DEF IsLegal, Holds
<1>8. w \in [Men -> ToSet(Spots) \cup {Reserve}]
  <2>1. w = [p \in Men |-> w[p]]
    BY DEF IsMade
  <2>2. \A p \in Men : w[p] \in ToSet(Spots) \cup {Reserve}
    BY <1>5
  <2> QED BY <2>1, <2>2
<1> QED BY <1>7, <1>8

LEMMA MadeIsBest ==
    ASSUME TeamIsTyped, NEW kept, NEW w, IsMade(w, Chosen(Picks), kept)
    PROVE  IsBest(w)
<1>1. PICK a : a = Picks
  OBVIOUS
<1>2. Complete(a) /\ a \in Plans
  BY <1>1, PicksAreBest DEF Complete, Proper
<1>3. PICK n : n = Len(Open) /\ DOMAIN a = 1..n
  BY <1>2, PlanIs DEF Complete
<1>4. IsLegal(w)
  BY MadeIsLegal
<1>5. /\ \A p \in Locked : w[p] = At(p)
      /\ ScoringIn(w) = Placed(a) \cup {p \in kept : At(p) \in Form(p).fits}
      /\ Placed(a) \cap kept = {}
      /\ \A p \in kept : w[p] = At(p)
      /\ \A k \in 1..n : a[k] # 0 => w[a[k]] = Open[k] /\ a[k] \in Men
      /\ \A p \in Men \ (Locked \cup Placed(a) \cup kept) : w[p] = Reserve
  BY <1>1, <1>3, MadeIs
<1>6. Total(ScoringIn(w)) = Total(Placed(a))
  <2>1. PICK K : K = {p \in kept : At(p) \in Form(p).fits}
    OBVIOUS
  <2>2. K \in SUBSET Men /\ \A p \in K : Worth(p) = 0
    BY <2>1, KeptAreIdle
  <2>3. Total(K) = 0
    BY <2>2, TotalOfZeros
  <2>4. Placed(a) \in SUBSET Men /\ Total(Placed(a)) \in Int
    BY <1>2, PlanIs
  <2>5. Placed(a) \cap K = {}
    BY <1>5, <2>1
  <2>6. Total(Placed(a) \cup K) = Total(Placed(a)) + Total(K)
    BY <2>2, <2>4, <2>5, TotalAdds
  <2> QED BY <1>5, <2>1, <2>3, <2>4, <2>6
<1>7. Cardinality(MovedIn(w)) <= Changes(a)
  <2>1. PICK K, M : K = {k \in DOMAIN a : a[k] # 0 /\ At(a[k]) # Open[k]} /\ M = MovedIn(w)
    OBVIOUS
  <2>2. IsFiniteSet(K)
    <3>1. K \in SUBSET (1..n) /\ IsFiniteSet(1..n)
      BY <1>3, <2>1, OpenIs, FS_Interval
    <3> QED BY <3>1, FS_Subset
  <2>3. PICK h : h = [k \in K |-> a[k]]
    OBVIOUS
  <2>4. h \in [K -> M]
    <3> SUFFICES ASSUME NEW k \in K PROVE a[k] \in M
      BY <2>3
    <3>1. k \in 1..n /\ a[k] # 0 /\ At(a[k]) # Open[k]
      BY <1>3, <2>1
    <3>2. w[a[k]] = Open[k] /\ a[k] \in Men /\ Open[k] # Reserve
      BY <1>3, <1>5, <3>1, OpenIs
    <3> QED BY <2>1, <3>1, <3>2 DEF MovedIn
  <2>5. ASSUME NEW p \in M PROVE \E k \in K : h[k] = p
    <3>1. p \in Men /\ w[p] # Reserve /\ w[p] # At(p)
      BY <2>1 DEF MovedIn
    <3>2. p \in Placed(a)
      BY <1>5, <3>1
    <3>3. PICK k \in 1..n : a[k] = p /\ a[k] # 0
      BY <1>2, <1>3, <3>2, ChosenIs
    <3>4. w[p] = Open[k]
      BY <1>5, <3>3
    <3>5. k \in K
      BY <1>3, <2>1, <3>1, <3>3, <3>4
    <3> QED BY <2>3, <3>3, <3>5
  <2>6. h \in Surjection(K, M)
    BY <2>4, <2>5 DEF Surjection
  <2>7. Cardinality(M) <= Cardinality(K)
    BY <2>2, <2>6, FS_Surjection
  <2> QED BY <2>1, <2>7 DEF Changes
<1>8. ASSUME NoneBelowZero, NEW b \in Assignments
      PROVE  /\ Total(Placed(b)) <= Total(Placed(a))
             /\ Total(Placed(b)) = Total(Placed(a)) /\ FillsInTurn(b) => Changes(a) <= Changes(b)
  <2>1. b \in Plans /\ Fitting(b) /\ Len(b) = Len(Open)
    BY AssignmentIs
  <2>2. \A c \in Plans : Total(Placed(c)) \in Int
    BY PlanIs
  <2>3. \A c \in Plans : Complete(c) =>
           \/ Total(Placed(a)) > Total(Placed(c))
           \/ Total(Placed(a)) = Total(Placed(c)) /\ Changes(a) <= Changes(c)
    BY <1>1, <1>8, PicksAreBest
  <2>4. PICK c \in Plans : Complete(c) /\ Total(Placed(b)) <= Total(Placed(c))
    BY <1>8, FillUp DEF AsGood
  <2>5. Total(Placed(b)) <= Total(Placed(a))
    BY <1>2, <2>1, <2>2, <2>3, <2>4
  <2>6. FillsInTurn(b) => Complete(b)
    BY <2>1 DEF Complete, Proper
  <2>7. Total(Placed(b)) = Total(Placed(a)) /\ FillsInTurn(b) => Changes(a) <= Changes(b)
    BY <1>2, <2>1, <2>2, <2>3, <2>6
  <2> QED BY <2>5, <2>7
<1>9. ASSUME NoneBelowZero, NEW b \in Assignments, Total(Placed(b)) = Total(Placed(a)), FillsInTurn(b)
      PROVE  Cardinality(MovedIn(w)) <= Changes(b)
  <2>1. PICK x \in Nat, y \in Nat : x = Changes(a) /\ y = Changes(b)
    BY <1>2, AssignmentIs, PlanIs
  <2>2. x <= y
    BY <1>8, <1>9, <2>1
  <2>3. MovedIn(w) \in SUBSET Men
    BY DEF MovedIn
  <2>4. Cardinality(MovedIn(w)) \in Nat
    BY <2>3, MenAreFinite
  <2> QED BY <1>7, <2>1, <2>2, <2>4
<1> QED BY <1>4, <1>6, <1>8, <1>9 DEF IsBest

LineupInv == OptimizerTypeOK /\ LineupIsBest

\* The team is the one the lineup is made for.
LEMMA TeamStays ==
    ASSUME pool' = pool, NEW w, w = lineup'
    PROVE  LineupIsBest' <=> (w # Unknown => IsBest(w))
<1>1. /\ Spots' = Spots /\ Locked' = Locked /\ Movable' = Movable /\ Open' = Open
      /\ Assignments' = Assignments
  BY DEF Spots, Locked, Movable, Open, Assignments, Form, Free, FreeSpot, LockedAt, At
<1>2. \A P : Total(P)' = Total(P)
  BY DEF Total, MapThenSumSet, MapThenFoldSet, Worth, Value, Form
<1>3. \A a : FillsInTurn(a)' <=> FillsInTurn(a)
  BY <1>1 DEF FillsInTurn, Form
<1>4. \A a : Changes(a)' = Changes(a)
  BY <1>1 DEF Changes, At
<1>5. Scoring' = ScoringIn(w) /\ Moved' = MovedIn(w)
  BY DEF Scoring, ScoringIn, Moved, MovedIn, At, Locked, Form
<1>6. NoneBelowZero' <=> NoneBelowZero
  BY <1>1 DEF NoneBelowZero, Worth, Value, Form
<1> QED BY <1>1, <1>2, <1>3, <1>4, <1>5, <1>6 DEF LineupIsBest, IsBest, IsLegal, IsPlace, Holds, At, Form

LEMMA InitIsBest == OptimizerInit => LineupInv
<1> SUFFICES ASSUME OptimizerInit PROVE LineupInv
  OBVIOUS
<1>1. PICK s \in SpotLists, b \in BOOLEAN : \E t \in Squads(s, IF b THEN Pitchers ELSE Hitters) :
         pool = [spots |-> s, pitching |-> b, team |-> t]
  BY DEF OptimizerInit
<1>2. OptimizerTypeOK
  BY <1>1 DEF OptimizerInit, OptimizerTypeOK, Spots
<1>3. lineup = Unknown
  BY DEF OptimizerInit
<1> QED BY <1>2, <1>3 DEF LineupInv, LineupIsBest

LEMMA StepIsBest == LineupInv /\ [OptimizerNext]_optimizerVars => LineupInv'
<1> SUFFICES ASSUME LineupInv, [OptimizerNext]_optimizerVars PROVE LineupInv'
  OBVIOUS
<1>1. TeamIsTyped
  BY DEF LineupInv, OptimizerTypeOK, TeamIsTyped
<1>2. PICK w : w = lineup'
  OBVIOUS
<1>3. CASE Assign
  <2>1. pool' = pool
    BY <1>3 DEF Assign
  <2>2. PICK kept \in SUBSET Displaced(Chosen(Picks)) : IsMade(w, Chosen(Picks), kept)
    BY <1>2, <1>3 DEF Assign, IsMade
  <2>3. IsBest(w) /\ w \in [Men -> ToSet(Spots) \cup {Reserve}]
    BY <1>1, <2>2, MadeIsBest, MadeIsLegal
  <2>4. LineupIsBest'
    BY <1>2, <2>1, <2>3, TeamStays
  <2>5. OptimizerTypeOK'
    BY <1>1, <1>2, <2>1, <2>3 DEF OptimizerTypeOK, TeamIsTyped, Spots
  <2> QED BY <2>4, <2>5 DEF LineupInv
<1>4. CASE UNCHANGED optimizerVars
  <2>1. pool' = pool /\ lineup' = lineup
    BY <1>4 DEF optimizerVars
  <2>2. OptimizerTypeOK'
    BY <2>1 DEF LineupInv, OptimizerTypeOK, Spots
  <2>3. LineupIsBest <=> (w # Unknown => IsBest(w))
    BY <1>2, <2>1 DEF LineupIsBest, IsBest, IsLegal, IsPlace, Scoring, ScoringIn, Moved, MovedIn
  <2>4. LineupIsBest'
    BY <1>2, <2>1, <2>3, TeamStays DEF LineupInv
  <2> QED BY <2>2, <2>4 DEF LineupInv
<1> QED BY <1>3, <1>4 DEF OptimizerNext

(* The team, its slots and the lineup are well typed (OptimizeLineup,          *)
(* OptimizePitcherLineup).                                                     *)
THEOREM OptimizerTypeCorrect == OptimizerSpec => []OptimizerTypeOK
<1>1. LineupInv => OptimizerTypeOK
  BY DEF LineupInv
<1> QED BY <1>1, InitIsBest, StepIsBest, PTL DEF OptimizerSpec

(* For any slots, players and locks, points below zero and players in slots    *)
(* they no longer fit included, the lineup can be realized; and where no       *)
(* player who may be placed is worth less than nothing the pruned search loses *)
(* nothing: the lineup is worth as much as any assignment to the open slots,   *)
(* and no equally good one moves fewer players (optimalAssignment).            *)
THEOREM SearchFindsTheBest == OptimizerSpec => []LineupIsBest
<1>1. LineupInv => LineupIsBest
  BY DEF LineupInv
<1> QED BY <1>1, InitIsBest, StepIsBest, PTL DEF OptimizerSpec
=============================================================================
