------------------------------- MODULE Launch -------------------------------
(***************************************************************************)
(* How a job becomes a task and what the task leaves on the run ledger:      *)
(* handleJob, whose inFlightRun guard sees nothing but that ledger, the      *)
(* scheduled launches it has no say in, and entrypoint.sh.  An action is one *)
(* ledger read, one RunTask, one ledger record, or the end of a task.        *)
(***************************************************************************)
EXTENDS Naturals, FiniteSets

CONSTANTS
    Tenants,        \* the users of the directory
    Admins,         \* those who may launch league-wide jobs
    Default,        \* the tenant of the shared task definition
    Bearer,         \* the caller with the break-glass token: no user id
    OwnJobs,        \* jobs of one tenant
    LeagueJobs,     \* jobs of the whole league
    Slots,          \* tasks at a time
    Calls,          \* requests of POST /v1/jobs at a time
    MaxJobDuration, \* how long a RUNNING record is believed, in ticks
    RunsLimit       \* defaultRunsLimit: the newest records the guard reads

ASSUME LaunchAssumption ==
    /\ Admins \subseteq Tenants /\ Default \in Tenants /\ Bearer \notin Tenants
    /\ OwnJobs \cap LeagueJobs = {} /\ MaxJobDuration \in Nat /\ RunsLimit \in Nat

VARIABLES
    task,     \* slot -> a task and its record on the ledger
    req       \* call -> a launch request being served

launchVars == <<task, req>>

Jobs == OwnJobs \cup LeagueJobs
Callers == Tenants \cup {Bearer}

(* A task, the partition its record goes to, how far both are, and how many of *)
(* the partition's records are newer (up to RunsLimit).  "blind" is history:   *)
(* whether a run of the same work was hidden from the guard when it let this   *)
(* one through.                                                                *)
NoTask == [pc |-> "none"]
NoRequest == [pc |-> "idle"]

Task ==
    [pc : {"launched", "running", "uploading", "gone"}, job : Jobs, owner : Tenants,
     manual : BOOLEAN, rec : {"none", "RUNNING", "ended"}, age : 0..MaxJobDuration,
     newer : 0..RunsLimit, blind : BOOLEAN]
Request ==
    [pc : {"check", "launch"}, owner : Tenants, job : Jobs, blind : BOOLEAN]

LaunchTypeOK ==
    /\ task \in [Slots -> Task \cup {NoTask}]
    /\ req \in [Calls -> Request \cup {NoRequest}]

LaunchInit ==
    /\ task = [i \in Slots |-> NoTask]
    /\ req = [q \in Calls |-> NoRequest]

-----------------------------------------------------------------------------
(* The ledger *)

\* The partition a caller reads, and the one his runs write to.
Partition(c) == IF c = Bearer THEN Default ELSE c

Live(i) == task[i].pc \in {"launched", "running", "uploading"}
\* A record RUNNING for longer than maxJobDuration is an abandoned one.
OnRecord(i) == task[i] # NoTask /\ task[i].rec = "RUNNING"

\* A listing has the newest RunsLimit records of a partition, without those
\* whose Get failed; it has none when the listing itself fails.
Listed(i, read) == OnRecord(i) /\ task[i].newer < RunsLimit /\ i \in read

\* Mutant: the ledger of the deployment's own tenant, whoever asks.
MutInFlight(p, job, read) ==
    {i \in Slots : Listed(i, read) /\ task[i].job = job /\ task[i].owner = Default}

\* inFlightRun's scan, of the caller's own records.
InFlight(p, job, read) ==
    {i \in Slots : Listed(i, read) /\ task[i].job = job /\ task[i].owner = p}

\* The same work: one tenant's job, or a job of the whole league.
SameWork(i, p, job) ==
    Live(i) /\ task[i].job = job /\ (job \in LeagueJobs \/ task[i].owner = p)

\* A task that is gone and whose record nobody believes is history.
Settled(t) == IF t # NoTask /\ t.pc = "gone" /\ t.rec # "RUNNING" THEN NoTask ELSE t

\* Records are listed by when their runs started: one that appears late takes
\* its place before those that started earlier (they have at least as many newer
\* ones; a run that has not started has no place, and an ended one is not looked
\* for).
Older(k, i) ==
    /\ task[k] # NoTask /\ task[k].pc # "launched" /\ task[k].rec # "ended"
    /\ task[k].owner = task[i].owner
    /\ task[k].newer \in task[i].newer..(RunsLimit - 1)

Becomes(i, t) ==
    LET appears == t.rec # "none" /\ task[i].rec = "none"
    IN  task' = [k \in Slots |->
                   IF k = i THEN Settled(t)
                   ELSE IF appears /\ Older(k, i) THEN [task[k] EXCEPT !.newer = @ + 1]
                   ELSE task[k]]

\* RunTask; and every request of the same work that is already past its check
\* cannot see the new task any more.
RunTask(i, p, j, isManual, isBlind) ==
    Becomes(i, [pc |-> "launched", job |-> j, owner |-> p, manual |-> isManual,
                rec |-> "none", age |-> 0, newer |-> 0, blind |-> isBlind])

Overtaken(p, j) ==
    [q \in Calls |->
       IF /\ req[q].pc = "launch" /\ req[q].job = j
          /\ j \in LeagueJobs \/ req[q].owner = p
       THEN [req[q] EXCEPT !.blind = TRUE] ELSE req[q]]

-----------------------------------------------------------------------------
(* POST /v1/jobs/{name} *)

\* Authorization comes before anything is read: a job of the league is for
\* admins.
Ask(q, c, j) ==
    /\ req[q].pc = "idle"
    /\ j \in LeagueJobs => c \in Admins \cup {Bearer}
    /\ req' = [req EXCEPT ![q] = [pc |-> "check", owner |-> Partition(c), job |-> j,
                                  blind |-> FALSE]]
    /\ UNCHANGED task

\* The in-flight guard: 409, or on to the launch.  A run it has no record of, or
\* one it is not listed, does not stop it.
Check(q, read) ==
    LET p == req[q].owner
        j == req[q].job
        rivals == {i \in Slots : SameWork(i, p, j)}
    IN  /\ req[q].pc = "check"
        /\ req' = [req EXCEPT ![q] =
                     IF InFlight(p, j, read) # {} THEN NoRequest
                     ELSE [@ EXCEPT !.pc = "launch",
                                    !.blind = \E i \in rivals : ~Listed(i, read)]]
        /\ UNCHANGED task

\* A RunTask that fails is a 502 and leaves nothing.
LaunchByHand(q, i, ok) ==
    LET p == req[q].owner
        j == req[q].job
    IN  /\ req[q].pc = "launch" /\ task[i] = NoTask
        /\ IF ok
           THEN /\ RunTask(i, p, j, TRUE, req[q].blind)
                /\ req' = [Overtaken(p, j) EXCEPT ![q] = NoRequest]
           ELSE req' = [req EXCEPT ![q] = NoRequest] /\ UNCHANGED task

\* A schedule asks nobody: the dispatcher's RunTask for a tenant, or a rule's
\* own target, whose untagged task belongs to the default tenant.
LaunchBySchedule(i, t, j) ==
    /\ task[i] = NoTask
    /\ j \in LeagueJobs => t = Default
    /\ RunTask(i, t, j, FALSE, FALSE)
    /\ req' = Overtaken(t, j)

-----------------------------------------------------------------------------
(* The task (entrypoint.sh); every ledger write is best effort *)

Start(i, wrote) ==
    /\ task[i].pc = "launched"
    /\ Becomes(i, [task[i] EXCEPT !.pc = "running", !.rec = IF wrote THEN "RUNNING" ELSE @])
    /\ UNCHANGED req

\* The terminal record precedes sync_up.
Finish(i, wrote) ==
    /\ task[i].pc = "running"
    /\ Becomes(i, [task[i] EXCEPT !.pc = "uploading", !.rec = IF wrote THEN "ended" ELSE @])
    /\ UNCHANGED req

Exit(i) ==
    /\ task[i].pc = "uploading"
    /\ Becomes(i, [task[i] EXCEPT !.pc = "gone"])
    /\ UNCHANGED req

\* SIGTERM: the trap writes the terminal record and publishes nothing.
Stop(i, wrote) ==
    /\ task[i].pc \in {"running", "uploading"}
    /\ Becomes(i, [task[i] EXCEPT !.pc = "gone", !.rec = IF wrote THEN "ended" ELSE @])
    /\ UNCHANGED req

\* Out of memory, SIGKILL: what is on the ledger stays there.
Kill(i) ==
    /\ Live(i)
    /\ Becomes(i, [task[i] EXCEPT !.pc = "gone"])
    /\ UNCHANGED req

\* Time passes for the records that are RUNNING, up to the last tick they are
\* believed; then the guard skips them, which is as good as ended.
Aged(t) ==
    IF t = NoTask \/ t.rec # "RUNNING" THEN t
    ELSE IF t.age = MaxJobDuration THEN [t EXCEPT !.rec = "ended"]
    ELSE [t EXCEPT !.age = @ + 1]

LaunchClock ==
    /\ \E i \in Slots : OnRecord(i)
    /\ task' = [i \in Slots |-> Settled(Aged(task[i]))]
    /\ UNCHANGED req

LaunchNext ==
    \/ \E q \in Calls, c \in Callers, j \in Jobs : Ask(q, c, j)
    \/ \E q \in Calls, read \in SUBSET Slots : Check(q, read)
    \/ \E q \in Calls, i \in Slots, ok \in BOOLEAN : LaunchByHand(q, i, ok)
    \/ \E i \in Slots, t \in Tenants, j \in Jobs : LaunchBySchedule(i, t, j)
    \/ \E i \in Slots, ok \in BOOLEAN : Start(i, ok) \/ Finish(i, ok) \/ Stop(i, ok)
    \/ \E i \in Slots : Exit(i) \/ Kill(i)
    \/ LaunchClock

LaunchSpec == LaunchInit /\ [][LaunchNext]_launchVars

-----------------------------------------------------------------------------
(* Properties *)

(* Two runs of one tenant's job, both launched by hand and both on record as  *)
(* running: one of them was let through when the other was hidden from the     *)
(* guard (its record was not written yet, could not be read, or had RunsLimit  *)
(* newer ones) or was launched after it looked.  This is what inFlightRun      *)
(* promises: a race-reduction guard, not a lock.                               *)
OverlapsWereBlind ==
    \A i, k \in Slots :
        i # k /\ OnRecord(i) /\ OnRecord(k) /\ Live(i) /\ task[i].manual /\ task[k].manual
          /\ SameWork(k, task[i].owner, task[i].job) /\ task[i].job \in OwnJobs
        => task[i].blind \/ task[k].blind
=============================================================================
