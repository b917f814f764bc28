------------------------------ MODULE Pickups -------------------------------
(***************************************************************************)
(* football-pickups (cmd/football_pickups.go, internal/dynasty/pickups*.go):  *)
(* every run diffs the player dump and the leagues' transactions against ONE   *)
(* baseline, the snapshot pointer, and alerts each league with a digest that   *)
(* may not carry everything.  The pointer moves only when nothing is owed.     *)
(***************************************************************************)
EXTENDS Integers, FiniteSets

CONSTANTS
    Leagues,       \* the leagues of the operator
    Players,       \* players who may become a starter, unrostered everywhere
    Drops,         \* players released by a transaction
    LeagueOf,      \* drop -> its league
    MayBeLong,     \* the items whose line may be too long for any digest
    FeedTTL,       \* sleeper.RosterTTL: how old the cached transactions may be
    Overlap,       \* pickupOverlap: how far a run looks behind its baseline
    WeeksBack,     \* the weeks before the current one whose transactions a run reads
    MaxClock,      \* bound on time
    MaxFaults      \* bound on marker faults, stopped runs, dumps without depth data

ASSUME PickupAssumption ==
    /\ LeagueOf \in [Drops -> Leagues] /\ MayBeLong \subseteq Players \cup Drops
    /\ FeedTTL \in Nat /\ Overlap \in Nat \ {0} /\ Overlap >= FeedTTL
    /\ WeeksBack \in Nat
    /\ MaxClock \in Nat \ {0} /\ MaxFaults \in Nat

VARIABLES
    clock,
    starters,   \* the players at the top of a depth chart
    dump,       \* the cached player dump: its starters, if it has depth data
    doneAt,     \* drop -> when its transaction completed; 0, not yet
    weeksAgo,   \* drop -> the weeks since, up to one that is no longer read
    taken,      \* <<league, player>> of drops and starters rostered by now
    drafted,    \* the leagues that have drafted
    tooLong,    \* the items no digest can carry
    baseline,   \* the snapshot pointer: when it was captured, and that dump
    marks,      \* <<league, key>> with a marker
    hunt,       \* the run
    sent,       \* history: event -> times told, up to two
    excused,    \* history: the events nobody is to be told
    unsure,     \* history: the events whose marker cannot be relied on
    faults      \* how many of MaxFaults there were

pickupVars == <<clock, starters, dump, doneAt, weeksAgo, taken, drafted, tooLong, baseline,
                marks, hunt, sent, excused, unsure, faults>>
world == <<starters, dump, doneAt, weeksAgo, taken, drafted, tooLong>>
history == <<sent, excused, unsure, faults>>

Times == 1..MaxClock
\* A drop is one transaction's; a role change is scoped to the baseline.
Keys == Drops \cup (Players \X Times)
Items == Leagues \X Keys
\* A dump an older binary cached gives nobody's place in a depth chart.
Dumps == {d \in [starters : SUBSET Players, depth : BOOLEAN] : d.depth \/ d.starters = {}}
NoDepth == [starters |-> {}, depth |-> FALSE]
Baselines == [at : 0..MaxClock, starters : SUBSET Players, depth : BOOLEAN]
NoBaseline == [at |-> 0, starters |-> {}, depth |-> FALSE]
NotHunting == [pc |-> "idle"]
Hunts ==
    [pc : {"league", "mark"}, at : Times, cur : Dumps, todo : SUBSET Leagues,
     toMark : SUBSET Items, held : BOOLEAN, tail : BOOLEAN, markersOK : BOOLEAN]

PickupTypeOK ==
    /\ clock \in Times /\ starters \subseteq Players /\ dump \in Dumps
    /\ doneAt \in [Drops -> 0..MaxClock] /\ weeksAgo \in [Drops -> 0..(WeeksBack + 1)]
    /\ taken \subseteq Leagues \X (Players \cup Drops)
    /\ drafted \subseteq Leagues /\ tooLong \subseteq MayBeLong
    /\ baseline \in Baselines
    /\ marks \subseteq Items
    /\ hunt \in Hunts \cup {NotHunting}
    /\ sent \in [Items -> 0..2] /\ excused \subseteq Items /\ unsure \subseteq Items
    /\ faults \in 0..MaxFaults

PickupInit ==
    /\ clock = 1 /\ starters = {} /\ dump = [NoDepth EXCEPT !.depth = TRUE]
    /\ doneAt = [d \in Drops |-> 0] /\ weeksAgo = [d \in Drops |-> 0]
    /\ taken \in SUBSET (Leagues \X Players) /\ drafted \in SUBSET Leagues
    /\ tooLong \in SUBSET MayBeLong /\ baseline = NoBaseline
    /\ marks = {} /\ hunt = NotHunting
    /\ sent = [e \in Items |-> 0] /\ excused = {} /\ unsure = {} /\ faults = 0

-----------------------------------------------------------------------------
(* The world outside *)

\* A run asks for the week once, at its start: a week that turns during a run
\* is as good as one that turns after it.
Tick(newWeek) ==
    /\ clock < MaxClock /\ clock' = clock + 1
    /\ newWeek => hunt = NotHunting
    /\ weeksAgo' = [d \in Drops |->
                      IF newWeek /\ doneAt[d] > 0 /\ weeksAgo[d] <= WeeksBack
                      THEN weeksAgo[d] + 1 ELSE weeksAgo[d]]
    /\ UNCHANGED <<starters, dump, doneAt, taken, drafted, tooLong, baseline, marks, hunt,
                   history>>

\* A run reads the dump once, at its start, and each league's rosters once: a
\* change in between is as good as one before or after the run.
DepthChartMoves(p) ==
    /\ hunt = NotHunting
    /\ starters' = IF p \in starters THEN starters \ {p} ELSE starters \cup {p}
    /\ UNCHANGED <<clock, dump, doneAt, weeksAgo, taken, drafted, tooLong, baseline, marks, hunt,
                   history>>

Dropped(d) ==
    /\ doneAt[d] = 0 /\ LeagueOf[d] \in drafted
    /\ doneAt' = [doneAt EXCEPT ![d] = clock]
    /\ UNCHANGED <<clock, starters, dump, weeksAgo, taken, drafted, tooLong, baseline, marks, hunt,
                   history>>

Rostered(l, x) ==
    /\ hunt = NotHunting /\ l \in drafted /\ <<l, x>> \notin taken
    /\ x \in Drops /\ LeagueOf[x] = l /\ doneAt[x] > 0
    /\ taken' = taken \cup {<<l, x>>}
    /\ UNCHANGED <<clock, starters, dump, doneAt, weeksAgo, drafted, tooLong, baseline, marks,
                   hunt, history>>

-----------------------------------------------------------------------------
(* What a run detects *)

\* A starter now who was not one in the baseline; nobody, unless both captures
\* have depth data.
Risen ==
    IF baseline.depth /\ hunt.cur.depth THEN hunt.cur.starters \ baseline.starters ELSE {}

\* Mutant: the key carries the run's own day.
MutTodayKey(l) == {<<l, <<p, hunt.at>>>> : p \in Risen}

DetectRoleChanges(l) == {<<l, <<p, baseline.at>>>> : p \in Risen}

\* Mutant: a drop counts from the baseline's capture on.
MutSince == baseline.at
Since == baseline.at - Overlap

\* The transactions of recentWeeks that completed since, as far as a feed filled
\* at f shows them.
DetectDrops(l, f) ==
    {<<l, d>> : d \in {x \in Drops : /\ LeagueOf[x] = l /\ weeksAgo[x] <= WeeksBack
                                    /\ doneAt[x] > Since /\ doneAt[x] \in 1..f}}

\* What a key is about: a player's rise since the baseline, or one drop.
EventOf(e) == IF e[2] \in Drops THEN e ELSE <<e[1], <<e[2][1], baseline.at>>>>
PlayerOf(e) == IF e[2] \in Drops THEN e[2] ELSE e[2][1]
Available(es) == {e \in es : <<e[1], PlayerOf(e)>> \notin taken}

\* The items of a digest: some of what is new, at least one; the ones that do
\* not fit on their own cannot be among them.
Digests(fresh) == {s \in SUBSET fresh : s # {} /\ \A e \in s : PlayerOf(e) \notin tooLong}

-----------------------------------------------------------------------------
(* The run *)

Fault(is) == (is => faults < MaxFaults) /\ faults' = IF is THEN faults + 1 ELSE faults

\* Mutant: an unsent tail does not hold the pointer.
MutAdvance == ~hunt.held

\* shouldAdvancePointer; without markers a tail would only repeat itself.
ShouldAdvance == ~hunt.held /\ (~hunt.tail \/ ~hunt.markersOK)

\* The capture: today's dump, or the cached one, which an older binary may have
\* filled.  Without a baseline it becomes the baseline and nothing is told.
BeginHunt(cur, markersOK) ==
    /\ hunt = NotHunting /\ baseline.at < clock
    /\ cur \in {[starters |-> starters, depth |-> TRUE], dump, NoDepth}
    /\ Fault(~markersOK \/ (cur = NoDepth /\ dump # NoDepth)) /\ dump' = cur
    /\ hunt' = [pc |-> "league", at |-> clock, cur |-> cur,
                todo |-> IF baseline = NoBaseline THEN {} ELSE Leagues,
                toMark |-> {}, held |-> FALSE, tail |-> FALSE, markersOK |-> markersOK]
    /\ UNCHANGED <<clock, starters, doneAt, weeksAgo, taken, drafted, tooLong, baseline, marks,
                   sent, excused, unsure>>

Turn(l) == hunt.pc = "league" /\ l \in hunt.todo

\* A league that does not load holds the pointer; the others still run.
LeagueFails(l) ==
    /\ Turn(l)
    /\ hunt' = [hunt EXCEPT !.todo = @ \ {l}, !.held = TRUE]
    /\ UNCHANGED <<clock, world, baseline, marks, history>>

\* A league before its draft has no rosters and is skipped.
LeagueSkipped(l) ==
    /\ Turn(l) /\ l \notin drafted
    /\ hunt' = [hunt EXCEPT !.todo = @ \ {l}]
    /\ excused' = excused \cup DetectRoleChanges(l)
    /\ UNCHANGED <<clock, world, baseline, marks, sent, unsure, faults>>

\* alertPickups: one digest of what has no marker.
Alert(l, f, readable, sends) ==
    LET found == DetectRoleChanges(l) \cup DetectDrops(l, f)
        known == readable /\ hunt.markersOK
        fresh == Available(found) \ (IF known THEN marks ELSE {})
    IN  /\ Turn(l) /\ l \in drafted /\ Fault(~readable)
        /\ unsure' = unsure \cup (IF known THEN {} ELSE fresh)
        /\ \/ /\ ~sends /\ fresh # {}
              /\ hunt' = [hunt EXCEPT !.todo = @ \ {l}, !.held = TRUE]
              /\ excused' = excused \cup (found \ Available(found))
              /\ UNCHANGED sent
           \/ \E shown \in IF fresh = {} THEN {{}} ELSE Digests(fresh) :
              /\ sends
              /\ sent' = [e \in Items |->
                    IF e \in {EventOf(x) : x \in shown} /\ sent[e] < 2
                    THEN sent[e] + 1 ELSE sent[e]]
              /\ hunt' = [hunt EXCEPT !.todo = @ \ {l}, !.tail = @ \/ shown # fresh,
                             !.toMark = IF hunt.markersOK THEN shown ELSE {},
                             !.pc = IF hunt.markersOK /\ shown # {} THEN "mark" ELSE @]
              /\ excused' = excused \cup (found \ Available(found))
                            \cup (IF hunt.markersOK THEN {} ELSE fresh \ shown)
        /\ UNCHANGED <<clock, world, baseline, marks>>

\* The head of the digest cannot be shown: it alone is marked, nothing is sent.
Unshowable(l, f, head) ==
    LET found == DetectRoleChanges(l) \cup DetectDrops(l, f)
        fresh == Available(found) \ (IF hunt.markersOK THEN marks ELSE {})
    IN  /\ Turn(l) /\ l \in drafted
        /\ head \in fresh /\ PlayerOf(head) \in tooLong
        /\ excused' = excused \cup {head} \cup (found \ Available(found))
                      \cup (IF hunt.markersOK THEN {} ELSE fresh)
        /\ hunt' = [hunt EXCEPT !.todo = @ \ {l}, !.tail = @ \/ fresh # {head},
                                !.toMark = IF hunt.markersOK THEN {head} ELSE {},
                                !.pc = IF hunt.markersOK THEN "mark" ELSE @]
        /\ UNCHANGED <<clock, world, baseline, marks, sent, unsure, faults>>

\* A failed marker write is only logged.
Mark(e, ok) ==
    /\ hunt.pc = "mark" /\ e \in hunt.toMark
    /\ hunt' = [hunt EXCEPT !.toMark = @ \ {e}, !.pc = IF hunt.toMark = {e} THEN "league" ELSE @]
    /\ marks' = IF ok THEN marks \cup {e} ELSE marks
    /\ unsure' = IF ok THEN unsure ELSE unsure \cup {e}
    /\ Fault(~ok)
    /\ UNCHANGED <<clock, world, baseline, sent, excused>>

\* persistPickupSnapshot: the archive, and only if that landed the pointer.
FinishHunt(archives, publishes) ==
    /\ hunt.pc = "league" /\ hunt.todo = {}
    /\ baseline' = IF archives /\ ShouldAdvance /\ publishes
                   THEN [at |-> hunt.at, starters |-> hunt.cur.starters,
                         depth |-> hunt.cur.depth]
                   ELSE baseline
    /\ hunt' = NotHunting
    /\ UNCHANGED <<clock, world, marks, history>>

\* The task is stopped: a digest that went out may not have been marked.
HuntDies ==
    /\ hunt # NotHunting /\ hunt' = NotHunting /\ Fault(TRUE)
    /\ unsure' = unsure \cup hunt.toMark
    /\ UNCHANGED <<clock, world, baseline, marks, sent, excused>>

PickupNext ==
    \/ HuntDies \/ \E newWeek \in BOOLEAN : Tick(newWeek)
    \/ \E p \in Players : DepthChartMoves(p)
    \/ \E d \in Drops : Dropped(d)
    \/ \E l \in Leagues, x \in Players \cup Drops : Rostered(l, x)
    \/ \E cur \in Dumps, ok \in BOOLEAN : BeginHunt(cur, ok)
    \/ \E archives, ok \in BOOLEAN : FinishHunt(archives, ok)
    \/ \E l \in Leagues : LeagueFails(l) \/ LeagueSkipped(l)
    \/ \E l \in Leagues, f \in (clock - FeedTTL)..clock :
          \/ \E readable, sends \in BOOLEAN : Alert(l, f, readable, sends)
          \/ \E head \in Items : Unshowable(l, f, head)
    \/ \E e \in Items, ok \in BOOLEAN : Mark(e, ok)

PickupSpec == PickupInit /\ [][PickupNext]_pickupVars

-----------------------------------------------------------------------------
(* Properties *)

\* What a moving pointer leaves behind it for good: a starter of the new
\* baseline is never a new one again, and no run looks further back than the
\* overlap.
PassedRisers ==
    {<<l, <<p, baseline.at>>>> : l \in Leagues, p \in baseline'.starters \ baseline.starters}
PassedDrops ==
    {<<LeagueOf[d], d>> : d \in {x \in Drops :
        doneAt[x] > baseline.at - Overlap /\ doneAt[x] \in 1..(baseline'.at - Overlap)}}

(* The baseline never moves past an event somebody is still to be told: it    *)
(* was sent, or the league had not drafted, or the player was rostered when   *)
(* the league was read, or the log names it (a line too long, a run without   *)
(* markers).  Role changes and drops of every league share the one pointer    *)
(* (shouldAdvancePointer, pickupOverlap).  It does move, silently, past who    *)
(* rose since a baseline without depth data (DetectRoleChanges), and past a    *)
(* drop held back for so long that its week is no longer read (recentWeeks);   *)
(* past nothing else.                                                          *)
NothingIsPassedOver ==
    [][baseline # NoBaseline /\ baseline' # baseline =>
         /\ \A e \in PassedRisers :
               sent[e] > 0 \/ e \in excused \/ ~baseline.depth
         /\ \A e \in PassedDrops :
               sent[e] > 0 \/ e \in excused \/ weeksAgo[e[2]] > WeeksBack]_pickupVars

(* Holding the pointer repeats nothing: what is told twice is an event whose  *)
(* marker was never written, could not be read, or was not consulted.         *)
RepeatsOnlyUnmarked == \A e \in Items : sent[e] = 2 => e \in unsure
=============================================================================
