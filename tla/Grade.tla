------------------------------- MODULE Grade -------------------------------
(***************************************************************************)
(* The grade job (cmd/grade.go): once a day it grades every projection        *)
(* system's capture of the past days and writes one partition per (day,       *)
(* system) to the Analysis Store, which nobody ever deletes from.  The only    *)
(* memory of what is still ungraded is the newest day the store holds.        *)
(***************************************************************************)
EXTENDS Integers, FiniteSets

CONSTANTS
    Systems,      \* projection systems captured by shadow
    Window,       \* --window: trailing days graded on every run
    MaxWindow,    \* --max-window: how far a run reaches back at most
    HandRanges,   \* the ranges an operator may grade by hand, <<first, last>>
    MaxDays       \* bound on the days of a behaviour

ASSUME GradeAssumption ==
    /\ IsFiniteSet(Systems)
    /\ Window \in Nat \ {0} /\ MaxWindow \in Nat /\ MaxWindow >= Window
    /\ MaxDays \in Nat \ {0} /\ HandRanges \subseteq (1..MaxDays) \X (1..MaxDays)

VARIABLES
    today,     \* the ET day it is
    played,    \* the days on which a rostered player appeared in a game
    capture,   \* day -> the systems with a capture good enough to grade
    rows,      \* the partitions of the Analysis Store: <<day, system>>
    skips,     \* the days marked as having nothing to grade
    grader,    \* the run, if one is under way
    named,     \* history: days a run said it would not reach
    jumped,    \* history: days an operator's range passed over
    torn,      \* history: days that were still to be written when a run died
    unread     \* history: captures the last run over their day could not read

gradeVars == <<today, played, capture, rows, skips, grader, named, jumped, torn, unread>>

GradeDays == 1..MaxDays
NotGrading == [pc |-> "idle"]
Graders ==
    [pc : {"writing"}, todo : SUBSET (GradeDays \X Systems), marks : SUBSET GradeDays]

GradeTypeOK ==
    /\ today \in GradeDays /\ played \subseteq GradeDays
    /\ capture \in [GradeDays -> SUBSET Systems]
    /\ rows \subseteq GradeDays \X Systems /\ skips \subseteq GradeDays
    /\ grader \in Graders \cup {NotGrading}
    /\ named \subseteq GradeDays /\ jumped \subseteq GradeDays /\ torn \subseteq GradeDays
    /\ unread \subseteq GradeDays \X Systems

GradeInit ==
    /\ today = 1 /\ played = {} /\ capture = [d \in GradeDays |-> {}]
    /\ rows = {} /\ skips = {} /\ grader = NotGrading
    /\ named = {} /\ jumped = {} /\ torn = {} /\ unread = {}

-----------------------------------------------------------------------------
(* The window *)

\* The newest day ANY system graded; 0 on an empty store.
LatestGradedDay ==
    LET held == {p[1] : p \in rows}
    IN  IF held = {} THEN 0 ELSE CHOOSE d \in held : \A e \in held : e <= d

Larger(a, b) == IF a >= b THEN a ELSE b

\* The days the run covers, and the ones it says it does not reach.  The
\* trailing Window days are always covered; the reach-back starts the day
\* after the newest graded one and is capped; an empty store is not chased.
WindowFloor == today - Window
WindowCap == today - MaxWindow

\* Mutant: the reach-back starts one day late.
MutWindowWanted ==
    IF LatestGradedDay = 0 \/ LatestGradedDay + 2 > WindowFloor
    THEN WindowFloor ELSE LatestGradedDay + 2

WindowWanted ==
    IF LatestGradedDay = 0 \/ LatestGradedDay + 1 > WindowFloor
    THEN WindowFloor ELSE LatestGradedDay + 1

WindowStart == Larger(1, Larger(WindowWanted, WindowCap))
WindowDays == WindowStart..(today - 1)
OutOfReach ==
    IF LatestGradedDay = 0 THEN 1..(WindowStart - 1)
    ELSE Larger(1, WindowWanted)..(WindowStart - 1)

\* What the run would write: the rows of every capture that may be graded, on
\* the days there was something to grade; a marker for the other days.
GradableRows(ds) == {p \in ds \X Systems : p[1] \in played /\ p[2] \in capture[p[1]]}
UngradeableDays(ds) == {d \in ds : d \notin played}

-----------------------------------------------------------------------------
(* Actions *)

\* A day ends, with games or without, captured by some of the systems.  The
\* day's run is over by then.
NextDay(games, ss) ==
    /\ today < MaxDays /\ grader = NotGrading /\ (games \/ ss = {})
    /\ played' = IF games THEN played \cup {today} ELSE played
    /\ capture' = [capture EXCEPT ![today] = ss]
    /\ today' = today + 1
    /\ UNCHANGED <<rows, skips, grader, named, jumped, torn, unread>>

\* A capture that fails to be read is taken for one that is not there.
LoadSnapshot(ds, failed) == GradableRows(ds) \ failed

\* What a run has read when it starts to write; it goes on without the rest.
Writing(ds, failed) ==
    /\ grader' = [pc |-> "writing", todo |-> LoadSnapshot(ds, failed),
                  marks |-> UngradeableDays(ds)]
    /\ unread' = (unread \ GradableRows(ds)) \cup failed

\* A run up to its first write.  With a store whose newest day it cannot read,
\* or an upstream that does not answer, it is refused and nothing is written.
GradeBegin(failed) ==
    /\ grader = NotGrading /\ today > 1
    /\ Writing(WindowDays, failed)
    /\ named' = named \cup OutOfReach
    /\ UNCHANGED <<today, played, capture, rows, skips, jumped, torn>>

\* grade --dates: the operator's own range, whatever the store holds.
GradeByHand(lo, hi, failed) ==
    /\ grader = NotGrading /\ lo <= hi /\ hi < today
    /\ Writing(lo..hi, failed)
    /\ jumped' = jumped \cup ((WindowDays \cup OutOfReach) \ (lo..hi))
    /\ UNCHANGED <<today, played, capture, rows, skips, named, torn>>

\* One system after the other, its days in any order.
WriteGrades(p) ==
    /\ grader.pc = "writing" /\ p \in grader.todo
    /\ rows' = rows \cup {p}
    /\ grader' = [grader EXCEPT !.todo = @ \ {p}]
    /\ UNCHANGED <<today, played, capture, skips, named, jumped, torn, unread>>

\* The markers come after the last row.
WriteSkips ==
    /\ grader.pc = "writing" /\ grader.todo = {}
    /\ skips' = skips \cup grader.marks
    /\ grader' = NotGrading
    /\ UNCHANGED <<today, played, capture, rows, named, jumped, torn, unread>>

\* A write fails, or the task is stopped: what is written stays.
GradeDies ==
    /\ grader.pc = "writing"
    /\ torn' = torn \cup {p[1] : p \in grader.todo}
    /\ grader' = NotGrading
    /\ UNCHANGED <<today, played, capture, rows, skips, named, jumped, unread>>

GradeNext ==
    \/ \E games \in BOOLEAN, ss \in SUBSET Systems : NextDay(games, ss)
    \/ \E failed \in SUBSET GradableRows(WindowDays) : GradeBegin(failed)
    \/ \E r \in HandRanges : \E failed \in SUBSET GradableRows(r[1]..r[2]) :
          GradeByHand(r[1], r[2], failed)
    \/ \E p \in GradeDays \X Systems : WriteGrades(p)
    \/ WriteSkips \/ GradeDies

GradeSpec == GradeInit /\ [][GradeNext]_gradeVars

-----------------------------------------------------------------------------
(* Properties *)

\* What the next run would not come back for.
Behind(p) ==
    /\ p \notin rows /\ p[1] < WindowStart /\ p[1] \notin OutOfReach
    /\ grader # NotGrading => p \notin grader.todo

(* A capture that could be graded and is not is left behind by the newest day  *)
(* of the store (resolveGradeWindow) only if a run said it would not reach its *)
(* day, or died over it, or the operator's own range passed it over, or the    *)
(* last run over that day could not read the capture: a read that fails is     *)
(* made good by any later run over the day, and by that alone.                 *)
NothingIsForgotten ==
    \A p \in GradableRows(1..(today - 1)) :
        Behind(p) => p[1] \in named \cup jumped \cup torn \/ p \in unread
=============================================================================
