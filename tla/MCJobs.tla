------------------------------- MODULE MCJobs -------------------------------
(* Small instances of how a job is launched and what the jobs do: Launch,      *)
(* Grade, Alerts, Pickups, Apply, Capture, Gate, Optimizer, StartTally and     *)
(* Snapshots.  They share no item: a run takes one of them (of Parts), so that *)
(* their states add up and do not multiply; the others stay as they began.     *)
EXTENDS Launch, Grade, Alerts, Pickups, Apply, Capture, Gate, Optimizer, StartTally,
        Snapshots, TLC

CONSTANTS Parts, l1, l2, d1

PartNames ==
    {"launch", "grade", "alerts", "pickups", "apply", "capture", "gate", "optimizer", "tally",
     "snapshots"}
ASSUME PartsAssumption == Parts \subseteq PartNames

VARIABLE part

\* Constants a .cfg cannot write.
MCLeagueOf == [d \in Drops |-> IF d = d1 THEN l1 ELSE l2]
MCCap == [x \in Active |-> IF Cardinality(Active) = 1 THEN 2 ELSE 1]
MCHandRanges == {<<3, 3>>}

jobVars ==
    <<launchVars, gradeVars, alertVars, pickupVars, applyVars, captureVars, gateVars,
      optimizerVars, tallyVars, snapshotVars, part>>

\* A player who is free in one of two leagues: the other has not drafted yet,
\* or has him on a roster and his line fits no digest.
PickupInstance ==
    /\ PickupInit
    /\ \/ taken = {} /\ drafted = {l1} /\ tooLong = {}
       \/ part = "pickups" /\ taken = {l2} \X Players /\ drafted = Leagues /\ tooLong = Players

\* Launches of one job at a time, and of one tenant's if it is a job of tenants:
\* they do not see each other.
InUse ==
    {task[i] : i \in {k \in Slots : task[k] # NoTask}}
        \cup {req[q] : q \in {c \in Calls : req[c] # NoRequest}}
OneJob ==
    \A x, y \in InUse : x.job = y.job /\ (x.job \in OwnJobs => x.owner = y.owner)

\* One oddity at a time: a line no digest can carry, a week that turns, a drop
\* claimed by then, captures without depth data.
OneOddity ==
    Cardinality({o \in {"long", "week", "claimed", "depth"} :
        CASE o = "long"    -> tooLong # {}
          [] o = "week"    -> \E d \in Drops : weeksAgo[d] > 0
          [] o = "claimed" -> \E d \in Drops : <<LeagueOf[d], d>> \in taken
          [] o = "depth"   -> ~dump.depth \/ (baseline # NoBaseline /\ ~baseline.depth)}) <= 1

\* One snapshot is left out of a grade, of whatever day.
OneUnread == Cardinality(unread) <= 1

\* The manager moves one player by hand between two steps of a run.
OneEdit == Cardinality(edited) <= 1

\* The cache is filled before games start; while a run applies its plan another
\* fills it only if the plan moves one player.
OneFill ==
    fill # NoFill =>
        /\ locked = {}
        /\ turn # NoTurn => Cardinality({p \in Squad : turn.plan[p] # Keep}) = 1

\* The week of the parts that gate nothing.
ThisWeek ==
    [limit |-> 0, used |-> 0, floor |-> 0, today |-> <<>>, idsAscend |-> TRUE, future |-> <<>>,
     halves |-> 0, placeholder |-> 0]

\* Players of the optimizer: a hitter without a game but of the highest
\* projection, hitters who fit one slot or both; a reliever, who fits "u" only,
\* and a starter announced, not announced, or without a game.
PlayerForm(pts, game, sp, starter, fits) ==
    [pts |-> pts, game |-> game, sp |-> sp, starter |-> starter, fits |-> fits]
MCSpotLists == {<<"s", "u">>, <<"u", "u">>}
MCHitters ==
    {PlayerForm(-1, TRUE, FALSE, FALSE, {"s", "u"}),
     PlayerForm(3, FALSE, FALSE, FALSE, {"s", "u"}), PlayerForm(2, TRUE, FALSE, FALSE, {"u"}),
     PlayerForm(2, TRUE, FALSE, FALSE, {"s", "u"}), PlayerForm(1, TRUE, FALSE, FALSE, {"s", "u"})}
MCPitchers ==
    {PlayerForm(-1, TRUE, FALSE, FALSE, {"u"}), PlayerForm(2, TRUE, FALSE, FALSE, {"u"}),
     PlayerForm(20, TRUE, TRUE, FALSE, {"s", "u"}),
     PlayerForm(20, TRUE, TRUE, TRUE, {"s", "u"}), PlayerForm(20, FALSE, TRUE, FALSE, {"s", "u"})}
NoPool == [spots |-> <<>>, pitching |-> FALSE, team |-> <<>>]

JobsInit ==
    /\ part \in Parts
    /\ LaunchInit /\ GradeInit /\ CaptureInit /\ SnapshotsInit
    /\ AlertInit /\ (part # "alerts" => site = "apply")
    /\ PickupInstance
    /\ IF part = "gate" THEN GateInit ELSE week = ThisWeek /\ decision = Undecided
    /\ IF part = "optimizer" THEN OptimizerInit ELSE pool = NoPool /\ lineup = Unknown
    /\ TallyInit /\ (part # "tally" => prevGS = total /\ total = [a \in Arms |-> 0])
    /\ ApplyInit /\ (part # "apply" => roster = [p \in Squad |-> Bench])

JobsNext ==
    /\ UNCHANGED part
    /\ \/ part = "launch" /\ LaunchNext /\ OneJob'
          /\ UNCHANGED <<gradeVars, alertVars, pickupVars, applyVars, captureVars,
                         gateVars, optimizerVars, tallyVars, snapshotVars>>
       \/ part = "grade" /\ GradeNext /\ OneUnread'
          /\ UNCHANGED <<launchVars, alertVars, pickupVars, applyVars, captureVars,
                         gateVars, optimizerVars, tallyVars, snapshotVars>>
       \/ part = "alerts" /\ AlertNext
          /\ UNCHANGED <<launchVars, gradeVars, pickupVars, applyVars, captureVars,
                         gateVars, optimizerVars, tallyVars, snapshotVars>>
       \/ part = "pickups" /\ PickupNext /\ OneOddity'
          /\ UNCHANGED <<launchVars, gradeVars, alertVars, applyVars, captureVars,
                         gateVars, optimizerVars, tallyVars, snapshotVars>>
       \/ part = "apply" /\ ApplyNext /\ OneEdit' /\ OneFill'
          /\ UNCHANGED <<launchVars, gradeVars, alertVars, pickupVars, captureVars,
                         gateVars, optimizerVars, tallyVars, snapshotVars>>
       \/ part = "capture" /\ CaptureNext
          /\ UNCHANGED <<launchVars, gradeVars, alertVars, pickupVars, applyVars,
                         gateVars, optimizerVars, tallyVars, snapshotVars>>
       \/ part = "gate" /\ GateNext
          /\ UNCHANGED <<launchVars, gradeVars, alertVars, pickupVars, applyVars, captureVars,
                         optimizerVars, tallyVars, snapshotVars>>
       \/ part = "optimizer" /\ OptimizerNext
          /\ UNCHANGED <<launchVars, gradeVars, alertVars, pickupVars, applyVars, captureVars,
                         gateVars, tallyVars, snapshotVars>>
       \/ part = "tally" /\ TallyNext
          /\ UNCHANGED <<launchVars, gradeVars, alertVars, pickupVars, applyVars, captureVars,
                         gateVars, optimizerVars, snapshotVars>>
       \/ part = "snapshots" /\ SnapshotsNext
          /\ UNCHANGED <<launchVars, gradeVars, alertVars, pickupVars, applyVars, captureVars,
                         gateVars, optimizerVars, tallyVars>>

JobsSpec == JobsInit /\ [][JobsNext]_jobVars

JobsTypeOK ==
    CASE part = "launch"  -> LaunchTypeOK
      [] part = "grade"   -> GradeTypeOK
      [] part = "alerts"  -> AlertTypeOK
      [] part = "pickups" -> PickupTypeOK
      [] part = "apply"   -> ApplyTypeOK
      [] part = "capture" -> CaptureTypeOK
      [] part = "gate"    -> GateTypeOK
      [] part = "optimizer" -> OptimizerTypeOK
      [] part = "tally"   -> TallyTypeOK
      [] part = "snapshots" -> SnapshotsTypeOK

Symmetry == Permutations(Squad)
=============================================================================
