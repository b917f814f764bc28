----------------------------- MODULE Connection -----------------------------
(***************************************************************************)
(* One tenant's Fantrax connection record and everything that writes it:   *)
(* the API's connect handler (internal/lineupapi/connect.go), the connect  *)
(* task it launches (cmd/connect.go), the session ladder every scheduled   *)
(* run climbs (cmd/tenantcreds.go, cmd/session_ladder.go), and the deletion *)
(* of the tenant.  The record is versioned and PutConnection is a          *)
(* compare-and-set on that version (internal/lineupapi/ddbuser).           *)
(*                                                                         *)
(* A request stands for the credentials it carries: Requests is both the   *)
(* set of submissions and the set of credentials they submit.              *)
(***************************************************************************)
EXTENDS Integers, FiniteSets

CONSTANTS
    Requests,     \* POST /v1/connect submissions, naming their credentials
    Runs,         \* scheduled job runs of this tenant
    OldCreds,     \* credentials connected before the behaviour starts
    NoCreds,      \* no credentials, no session, no run
    PutAttempts,  \* connectPutAttempts
    MaxDeletes,   \* bound: how often an admin deletes the tenant
    Faults        \* may stores, launches and processes fail?

Creds == Requests \cup {OldCreds}

ASSUME ConnectionAssumption ==
    /\ OldCreds \notin Requests /\ NoCreds \notin Creds
    /\ Requests \cap Runs = {}
    /\ PutAttempts \in Nat \ {0}
    /\ MaxDeletes \in Nat
    /\ Faults \in BOOLEAN

VARIABLES
    conn,      \* the stored record
    fresh,     \* conn.UpdatedAt is within the window its status is guarded by
    req,       \* handleConnect, one process per submission
    task,      \* the connect task launched for a submission
    run,       \* applyTenantCredentials and sessionLadder.refresh, per run
    proven,    \* history: credentials a task proved against Fantrax
    told,      \* history: tasks and runs that wrote the tenant's feed
    unheard,   \* history: tasks and runs whose feed could not be written
    deletes,   \* how often the tenant was deleted
    slow       \* history: a verification has outlasted connectInFlightWindow

vars == <<conn, fresh, req, task, run, proven, told, unheard, deletes, slow>>

-----------------------------------------------------------------------------
(* The record.  Version "" (no record) is Absent, ConnUnversioned is 0.    *)

Absent == -1
Versions == {Absent} \cup Nat

Statuses == {"none", "pending", "verified", "needs_reconnect",
             "interrupted", "check_failed"}

\* Failure classes, one per behaviour: "bad_credentials" stands for every
\* class on routeTenant that a login yields, "team_fault" for the three
\* ownership classes.
LoginFaults == {"bad_credentials", "bot_challenge", "verification_interrupted"}
Classes == LoginFaults \cup {"team_fault", "check_failed"}

routeFor(class) ==
    CASE class = "bot_challenge"            -> "operator"
      [] class = "verification_interrupted" -> "postauth"
      [] class = "check_failed"             -> "internal"
      [] OTHER                              -> "tenant"

NoStamp == [run |-> NoCreds, verdict |-> "none"]

Records ==
    [ver     : Versions,
     status  : Statuses,
     creds   : Creds \cup {NoCreds},       \* CredsCiphertext
     session : Creds \cup {NoCreds},       \* FXRMCiphertext, by what minted it
     err     : Classes \cup {"none"},      \* LastError
     stamp   : [run : Requests \cup {NoCreds},
                verdict : {"none", "verified", "failed"}],  \* LastConnectRun
     about   : Creds \cup {NoCreds}]       \* history: what status is a verdict on

NoRecord == [ver |-> Absent, status |-> "none", creds |-> NoCreds,
             session |-> NoCreds, err |-> "none", stamp |-> NoStamp,
             about |-> NoCreds]

\* A record written before it carried a version: verified, unversioned.
LegacyRecord == [NoRecord EXCEPT !.ver = 0, !.status = "verified",
                                 !.creds = OldCreds, !.session = OldCreds,
                                 !.about = OldCreds]

\* The version a successful PutConnection leaves behind.
NextVer(v) == IF v = Absent THEN 1 ELSE v + 1

\* Mutant: the unconditional write of before versions.
MutUnconditional(c) == TRUE

\* PutConnection's precondition: "" asserts absence, ConnUnversioned a record
\* without ver, anything else the stored ver.
VersionHolds(c) == conn.ver = c.ver

\* What PutConnection does when its precondition holds.
Store(c) == /\ conn' = [c EXCEPT !.ver = NextVer(c.ver)]
            /\ fresh' = TRUE

NotStored == UNCHANGED <<conn, fresh>>

\* recordTenantConnectFailure: one write to the tenant's feed.  A feed that
\* could not be opened, or a write that fails, is logged and nothing else.
Tell(p) ==
    \/ told' = told \cup {p} /\ UNCHANGED unheard
    \/ Faults /\ unheard' = unheard \cup {p} /\ UNCHANGED told

NobodyIsTold == UNCHANGED <<told, unheard>>

-----------------------------------------------------------------------------
(* handleConnect.                                                          *)

\* connectInFlightRefusal: a record that must not be replaced yet.
InFlightRefusal ==
    fresh /\ conn.status \in {"pending", "interrupted", "check_failed"}

RequestStates == {"read", "put", "launch", "accepted", "refused"}

\* Mutant: the guard is not run again on the re-read.
MutGuardOnce(r) ==
    /\ req[r].pc = "read"
    /\ req' = [req EXCEPT ![r].pc = IF InFlightRefusal /\ req[r].n = 1
                                    THEN "refused" ELSE "put",
                          ![r].seen = conn.ver]
    /\ UNCHANGED <<conn, fresh, task, run, proven, told, unheard, deletes, slow>>

\* GetConnection and the in-flight guard, on the first read and on every
\* re-read after a lost race.  A deleted tenant's session opens no request.
ReadForSubmit(r) ==
    /\ req[r].pc = "read"
    /\ deletes = 0 \/ req[r].n > 1
    /\ \/ /\ ~InFlightRefusal
          /\ req' = [req EXCEPT ![r].pc = "put", ![r].seen = conn.ver]
       \/ /\ InFlightRefusal \/ Faults
          /\ req' = [req EXCEPT ![r].pc = "refused"]
    /\ UNCHANGED <<conn, fresh, task, run, proven, told, unheard, deletes, slow>>

\* Mutant: the submission edits the record instead of replacing it.
MutEditInPlace(r) == [conn EXCEPT !.ver = req[r].seen, !.status = "pending",
                                  !.creds = r]

Submission(r) == [NoRecord EXCEPT !.ver = req[r].seen, !.status = "pending",
                                  !.creds = r]

\* The wholesale replacement, conditioned on the version read; a lost race
\* re-reads, at most PutAttempts times.
PutSubmission(r) ==
    /\ req[r].pc = "put"
    /\ \/ /\ VersionHolds(Submission(r))
          /\ Store(Submission(r))
          /\ req' = [req EXCEPT ![r].pc = "launch"]
       \/ /\ ~VersionHolds(Submission(r))
          /\ req[r].n < PutAttempts
          /\ req' = [req EXCEPT ![r].pc = "read", ![r].n = req[r].n + 1]
          /\ NotStored
       \/ /\ Faults \/ (~VersionHolds(Submission(r)) /\ req[r].n >= PutAttempts)
          /\ req' = [req EXCEPT ![r].pc = "refused"]
          /\ NotStored
    /\ UNCHANGED <<task, run, proven, told, unheard, deletes, slow>>

\* Jobs.Run.  A launch that fails leaves the record pending with no task.
Launch(r) ==
    /\ req[r].pc = "launch"
    /\ \/ /\ req' = [req EXCEPT ![r].pc = "accepted"]
          /\ task' = [task EXCEPT ![r].pc = "read"]
       \/ /\ Faults
          /\ req' = [req EXCEPT ![r].pc = "refused"]
          /\ UNCHANGED task
    /\ UNCHANGED <<conn, fresh, run, proven, told, unheard, deletes, slow>>

-----------------------------------------------------------------------------
(* runConnect and connectTenant: the task a submission launched.           *)

TaskStates == {"none", "read", "readback", "check", "tell", "record",
               "ok", "error", "crashed"}
LiveTask(r) == task[r].pc \in {"read", "readback", "check", "tell", "record"}

Outcomes == Classes \cup {"none", "verified"}

\* GetConnection.  With no credentials to check the task exits and writes
\* nothing; an opener or sealer that cannot be built, or a failed read, goes
\* to failCheck with no record in hand.
TaskRead(r) ==
    /\ task[r].pc = "read"
    /\ \/ /\ conn.creds # NoCreds
          /\ task' = [task EXCEPT ![r].pc = "check", ![r].copy = conn]
       \/ /\ conn.creds = NoCreds
          /\ task' = [task EXCEPT ![r].pc = "error"]
       \/ /\ Faults
          /\ task' = [task EXCEPT ![r].pc = "readback"]
    /\ UNCHANGED <<conn, fresh, req, run, proven, told, unheard, deletes, slow>>

\* failCheck's own read: the record there is, a bare one if there is none, and
\* if it cannot be read the tenant is told and nothing is written.
TaskReadBack(r) ==
    /\ task[r].pc = "readback"
    /\ \/ /\ task' = [task EXCEPT ![r] = [pc |-> "tell", copy |-> conn,
                                          out |-> "check_failed"]]
          /\ NobodyIsTold
       \/ /\ Faults
          /\ task' = [task EXCEPT ![r].pc = "error"]
          /\ Tell(r)
    /\ UNCHANGED <<conn, fresh, req, run, proven, deletes, slow>>

\* Decrypt, log in, prove the team, claim it, seal the session.  A claim lost
\* to a missing profile (ErrUserConflict) is a bare error: nothing written.
TaskCheck(r) ==
    /\ task[r].pc = "check"
    /\ \/ /\ task' = [task EXCEPT ![r].pc = "record", ![r].out = "verified"]
          /\ proven' = proven \cup {task[r].copy.creds}
       \/ \E class \in Classes :
            /\ class = "check_failed" => Faults
            /\ task' = [task EXCEPT ![r].pc = "tell", ![r].out = class]
            /\ UNCHANGED proven
       \/ /\ Faults
          /\ task' = [task EXCEPT ![r].pc = "error"]
          /\ UNCHANGED proven
    /\ UNCHANGED <<conn, fresh, req, run, told, unheard, deletes, slow>>

\* Mutant: the tenant's route tells and writes nothing.
MutTenantFaultUnwritten(r) ==
    /\ task[r].pc = "tell"
    /\ task' = [task EXCEPT ![r].pc = IF routeFor(task[r].out) = "tenant"
                                      THEN "ok" ELSE "record"]
    /\ UNCHANGED <<conn, fresh, req, run, proven, told, unheard, deletes, slow>>

\* Mutant: only a fault of the tenant's is told.
MutTellTenantOnly(r) ==
    /\ task[r].pc = "tell"
    /\ task' = [task EXCEPT ![r].pc = "record"]
    /\ IF routeFor(task[r].out) = "tenant" THEN Tell(r) ELSE NobodyIsTold
    /\ UNCHANGED <<conn, fresh, req, run, proven, deletes, slow>>

\* recordConnectFailure, before the write: the operator is pushed on their own
\* route, the tenant's feed is written on every other.  The verdict is recorded
\* whether the feed took it or not.
TaskTell(r) ==
    /\ task[r].pc = "tell"
    /\ task' = [task EXCEPT ![r].pc = "record"]
    /\ IF routeFor(task[r].out) = "operator" THEN NobodyIsTold ELSE Tell(r)
    /\ UNCHANGED <<conn, fresh, req, run, proven, deletes, slow>>

\* The status each route leaves behind; the operator's leaves it alone.
StatusOnFail(class, old) ==
    CASE routeFor(class) = "operator" -> old
      [] routeFor(class) = "postauth" -> "interrupted"
      [] routeFor(class) = "internal" -> "check_failed"
      [] OTHER                        -> "needs_reconnect"

AboutOnFail(class, c) ==
    IF routeFor(class) = "operator" THEN c.about ELSE c.creds

\* Mutant: a proven login is enough to verify, whatever failed after it.
MutLoginIsEnough(r) ==
    [task[r].copy EXCEPT
        !.status = IF task[r].out \in {"verified", "verification_interrupted"}
                   THEN "verified" ELSE "needs_reconnect",
        !.about = task[r].copy.creds]

\* What markVerified, or fail on the class's route, makes of the copy, stamped
\* with the run that reached the verdict.
Verdict(r) ==
    LET c == task[r].copy IN
    IF task[r].out = "verified"
    THEN [c EXCEPT !.status = "verified", !.session = c.creds, !.err = "none",
                   !.stamp = [run |-> r, verdict |-> "verified"],
                   !.about = c.creds]
    ELSE [c EXCEPT !.status = StatusOnFail(task[r].out, c.status),
                   !.err = task[r].out,
                   !.stamp = [run |-> r, verdict |-> "failed"],
                   !.about = AboutOnFail(task[r].out, c)]

\* verified, and tenant faults, are results: the task exits 0.
ExitCode(out) ==
    IF out = "verified" \/ routeFor(out) = "tenant" THEN "ok" ELSE "error"

\* Mutant: a lost race re-reads and re-applies the verdict, as mutateUser does.
MutReapply(r) ==
    /\ task[r].pc = "record"
    /\ Store([conn EXCEPT !.status = Verdict(r).status, !.about = Verdict(r).about])
    /\ task' = [task EXCEPT ![r].pc = ExitCode(task[r].out)]
    /\ UNCHANGED <<req, run, proven, told, unheard, deletes, slow>>

\* connectRun.record: a conflict is absorbed, and keeps the exit code.
TaskRecord(r) ==
    /\ task[r].pc = "record"
    /\ \/ /\ VersionHolds(task[r].copy)
          /\ Store(Verdict(r))
          /\ task' = [task EXCEPT ![r].pc = ExitCode(task[r].out)]
       \/ /\ ~VersionHolds(task[r].copy)
          /\ NotStored
          /\ task' = [task EXCEPT ![r].pc = ExitCode(task[r].out)]
       \/ /\ Faults
          /\ NotStored
          /\ task' = [task EXCEPT ![r].pc = "error"]
    /\ UNCHANGED <<req, run, proven, told, unheard, deletes, slow>>

TaskCrash(r) ==
    /\ Faults /\ LiveTask(r)
    /\ task' = [task EXCEPT ![r].pc = "crashed"]
    /\ UNCHANGED <<conn, fresh, req, run, proven, told, unheard, deletes, slow>>

-----------------------------------------------------------------------------
(* A scheduled run: applyTenantCredentials, then sessionLadder.refresh.    *)

RunStates == {"start", "probe", "reread", "mint", "store", "stop", "tell",
              "ok", "error", "crashed"}

\* AuthorizeRun on the first read; the credentials opened here are the ones a
\* re-login will use.
RunAuthorize(l) ==
    /\ run[l].pc = "start"
    /\ \/ /\ conn.status = "verified" /\ NoCreds \notin {conn.session, conn.creds}
          /\ run' = [run EXCEPT ![l].pc = "probe", ![l].creds = conn.creds]
       \/ /\ \/ conn.status # "verified" \/ NoCreds \in {conn.session, conn.creds}
             \/ Faults
          /\ run' = [run EXCEPT ![l].pc = "error"]
    /\ UNCHANGED <<conn, fresh, req, task, proven, told, unheard, deletes, slow>>

\* classifySessionProbe: only an expired session climbs the ladder.
RunProbe(l) ==
    /\ run[l].pc = "probe"
    /\ \E pc \in {"ok", "reread"} : run' = [run EXCEPT ![l].pc = pc]
    /\ UNCHANGED <<conn, fresh, req, task, proven, told, unheard, deletes, slow>>

\* The ladder's own GetConnection: a second read, not authorized again.
RunReread(l) ==
    /\ run[l].pc = "reread"
    /\ \/ /\ conn.ver # Absent
          /\ run' = [run EXCEPT ![l].pc = "mint", ![l].copy = conn]
       \/ /\ conn.ver = Absent \/ Faults
          /\ run' = [run EXCEPT ![l].pc = "error"]
    /\ UNCHANGED <<conn, fresh, req, task, proven, told, unheard, deletes, slow>>

\* One login with the credentials of the first read.  A session that cannot be
\* sealed is used and not stored.
RunMint(l) ==
    /\ run[l].pc = "mint"
    /\ \/ run' = [run EXCEPT ![l].pc = "store"]
       \/ \E class \in LoginFaults :
            run' = [run EXCEPT ![l].pc = "stop", ![l].out = class]
       \/ Faults /\ run' = [run EXCEPT ![l].pc = "ok"]
    /\ UNCHANGED <<conn, fresh, req, task, proven, told, unheard, deletes, slow>>

\* The refreshed session, stored on the copy; losing the race or the store
\* costs the next run a login and this one nothing.
RunStore(l) ==
    LET c == run[l].copy IN
    /\ run[l].pc = "store"
    /\ \/ VersionHolds(c) /\ Store([c EXCEPT !.session = run[l].creds, !.err = "none"])
       \/ ~VersionHolds(c) /\ NotStored
       \/ Faults /\ NotStored
    /\ run' = [run EXCEPT ![l].pc = "ok"]
    /\ UNCHANGED <<req, task, proven, told, unheard, deletes, slow>>

Stopped(l) ==
    LET c == run[l].copy IN
    IF routeFor(run[l].out) = "tenant"
    THEN [c EXCEPT !.err = run[l].out, !.status = "needs_reconnect",
                   !.about = run[l].creds]
    ELSE [c EXCEPT !.err = run[l].out]

\* sessionLadder.stop: a conflict abstains, anything else on the tenant's
\* route goes on to tell them.
RunStop(l) ==
    LET after == IF routeFor(run[l].out) = "tenant" THEN "tell" ELSE "error" IN
    /\ run[l].pc = "stop"
    /\ \/ /\ VersionHolds(run[l].copy)
          /\ Store(Stopped(l))
          /\ run' = [run EXCEPT ![l].pc = after]
       \/ /\ ~VersionHolds(run[l].copy)
          /\ NotStored
          /\ run' = [run EXCEPT ![l].pc = "error"]
       \/ /\ Faults
          /\ NotStored
          /\ run' = [run EXCEPT ![l].pc = after]
    /\ UNCHANGED <<req, task, proven, told, unheard, deletes, slow>>

RunTell(l) ==
    /\ run[l].pc = "tell"
    /\ Tell(l)
    /\ run' = [run EXCEPT ![l].pc = "error"]
    /\ UNCHANGED <<conn, fresh, req, task, proven, deletes, slow>>

RunCrash(l) ==
    /\ Faults
    /\ run[l].pc \notin {"start", "ok", "error", "crashed"}
    /\ run' = [run EXCEPT ![l].pc = "crashed"]
    /\ UNCHANGED <<conn, fresh, req, task, proven, told, unheard, deletes, slow>>

-----------------------------------------------------------------------------
(* The tenant's deletion, and time.                                        *)

\* DeleteUser's sweep reaching the connection item, whatever its version.
DeleteTenant ==
    /\ deletes < MaxDeletes
    /\ conn' = NoRecord
    /\ deletes' = deletes + 1
    /\ UNCHANGED <<fresh, req, task, run, proven, told, unheard, slow>>

\* A submission is between its write and the end of the task it launches.
Verifying(r) == req[r].pc = "launch" \/ LiveTask(r)

\* connectInFlightWindow (pending) or connectInterruptedCooldown passes.
Elapse ==
    /\ fresh
    /\ fresh' = FALSE
    /\ slow' = (slow \/ (conn.status = "pending" /\ \E r \in Requests : Verifying(r)))
    /\ UNCHANGED <<conn, req, task, run, proven, told, unheard, deletes>>

-----------------------------------------------------------------------------
Init ==
    /\ conn \in {NoRecord, LegacyRecord}
    /\ fresh = FALSE
    /\ req = [r \in Requests |-> [pc |-> "read", n |-> 1, seen |-> Absent]]
    /\ task = [r \in Requests |-> [pc |-> "none", copy |-> NoRecord, out |-> "none"]]
    /\ run = [l \in Runs |-> [pc |-> "start", creds |-> NoCreds,
                              copy |-> NoRecord, out |-> "none"]]
    /\ proven = {OldCreds}
    /\ told = {} /\ unheard = {}
    /\ deletes = 0
    /\ slow = FALSE

RequestStep(r) == \/ req[r].n > 1 /\ ReadForSubmit(r)
                  \/ PutSubmission(r) \/ Launch(r)
TaskStep(r) == \/ TaskRead(r) \/ TaskReadBack(r) \/ TaskCheck(r)
               \/ TaskTell(r) \/ TaskRecord(r)
RunStep(l) == \/ RunProbe(l) \/ RunReread(l) \/ RunMint(l)
              \/ RunStore(l) \/ RunStop(l) \/ RunTell(l)

Next ==
    \/ \E r \in Requests : \/ ReadForSubmit(r) \/ RequestStep(r)
                          \/ TaskStep(r) \/ TaskCrash(r)
    \/ \E l \in Runs : RunAuthorize(l) \/ RunStep(l) \/ RunCrash(l)
    \/ DeleteTenant
    \/ Elapse

Spec == Init /\ [][Next]_vars

\* A request, task or run that has started goes on, and time passes.  Nothing
\* makes a tenant submit, a schedule fire or an admin delete.
Fairness ==
    /\ \A r \in Requests : WF_vars(RequestStep(r)) /\ WF_vars(TaskStep(r))
    /\ \A l \in Runs : WF_vars(RunStep(l))
    /\ WF_vars(Elapse)

FairSpec == Spec /\ Fairness

-----------------------------------------------------------------------------
(* Properties.                                                             *)

TypeOK ==
    /\ conn \in Records
    /\ fresh \in BOOLEAN
    /\ req \in [Requests -> [pc : RequestStates, n : Nat, seen : Versions]]
    /\ task \in [Requests -> [pc : TaskStates, copy : Records, out : Outcomes]]
    /\ run \in [Runs -> [pc : RunStates, creds : Creds \cup {NoCreds},
                         copy : Records, out : LoginFaults \cup {"none"}]]
    /\ proven \subseteq Creds \cup {NoCreds}
    /\ told \subseteq Requests \cup Runs /\ unheard \subseteq Requests \cup Runs
    /\ deletes \in 0..MaxDeletes
    /\ slow \in BOOLEAN

\* A record is verified only for credentials that logged in to Fantrax and
\* controlled the invited team, whatever races, crashes and deletions the
\* record went through: AuthorizeRun lets the bot act on nothing else.
VerifiedIsProven == conn.status = "verified" => conn.creds \in proven

\* No session ladder or connect task writes back credentials a reconnect has
\* replaced: while the tenant exists, the stored credentials change only when
\* handleConnect stores a submission.
CredsReplacedOnlyHere ==
    deletes' = 0 /\ conn'.creds # conn.creds =>
        \E r \in Requests : /\ req[r].pc = "put"
                             /\ conn'.creds = r /\ conn'.status = "pending"
CredsOnlyReplacedBySubmission == [][CredsReplacedOnlyHere]_vars

\* LastConnectRun names a run that checked the very credentials stored beside
\* it, and says verified only if they were proven: a reconnect does not inherit
\* the previous run's verdict, and the ladder does not take credit for one.
StampJudgesStoredCreds ==
    conn.stamp.run # NoCreds =>
        /\ task[conn.stamp.run].copy.creds = conn.creds
        /\ conn.stamp.verdict = "verified" => conn.creds \in proven

\* "A connection write is a VERDICT ABOUT THE SPECIFIC CREDENTIALS THE WRITER
\* READ" (credentials.go): verified and needs_reconnect are always said of the
\* credentials on the record.
VerdictIsAboutStoredCreds ==
    conn.status \in {"verified", "needs_reconnect"} => conn.about = conn.creds

\* connectInFlightRefusal's promise: while verifications fit the window, two
\* submissions never drive two logins at once, however their reads and writes
\* interleave with the task of the first.
OneVerificationAtATime ==
    deletes = 0 /\ ~slow => Cardinality({r \in Requests : Verifying(r)}) <= 1

\* recordConnectFailure tells before it writes: while no scheduled run touches
\* the record, a status that asks for another attempt carries a class, and was
\* told to the tenant by a task that had these credentials in hand, whatever
\* crashed or lost its race; only the feed itself can lose the telling, and
\* then the class on the record, which the settings page shows, is all there is.
FailureVerdictIsTold ==
    conn.stamp.verdict = "failed" /\ conn.status \notin {"pending", "verified"} =>
        /\ conn.err # "none"
        /\ \E r \in told \cup unheard : task[r].copy.creds = conn.creds

\* A submission's verification ends: the record does not stay pending with no
\* run's verdict on it while its credentials are stored, unless the submission
\* was refused its task or the task failed.
SubmissionIsJudged ==
    \A r \in Requests :
        (conn.creds = r /\ conn.status = "pending" /\ conn.stamp = NoStamp)
          ~> \/ conn.creds # r \/ conn.status # "pending" \/ conn.stamp # NoStamp
             \/ req[r].pc = "refused" \/ task[r].pc \in {"error", "crashed"}

\* The record as its readers are promised it.
TC == INSTANCE TenantConnection WITH
        Submitted <- Requests, Initial <- OldCreds, Nothing <- NoCreds,
        creds <- conn.creds, status <- conn.status
ImplementsTenantConnection == TC!Spec

-----------------------------------------------------------------------------
(* The inductive invariant behind them.                                    *)

HoldsCopy(r) == task[r].pc \in {"check", "tell", "record"}
LadderHoldsCopy(l) == run[l].pc \in {"mint", "store", "stop"}

\* The version is a witness: a copy as new as the record is the record.
Witness(c) == c.ver <= conn.ver /\ (c.ver = conn.ver => c = conn)

CopiesAreWitnessed ==
    deletes = 0 =>
        /\ \A r \in Requests : HoldsCopy(r) => Witness(task[r].copy)
        /\ \A l \in Runs : LadderHoldsCopy(l) => Witness(run[l].copy)

ProvenIfVerified(c) == c.status = "verified" => c.creds \in proven

CopiesAreProven ==
    /\ ProvenIfVerified(conn)
    /\ \A r \in Requests :
         /\ ProvenIfVerified(task[r].copy)
         /\ task[r].pc \in {"tell", "record"} /\ task[r].out = "verified" =>
                task[r].copy.creds \in proven
         /\ task[r].pc = "check" => task[r].copy.creds # NoCreds
    /\ \A l \in Runs : ProvenIfVerified(run[l].copy)

\* Every copy a writer holds is current or outdated by its version, and
\* carries no verified status that was not proven.
IInv == TypeOK /\ CopiesAreWitnessed /\ CopiesAreProven
=============================================================================
