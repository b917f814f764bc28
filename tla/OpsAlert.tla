------------------------------ MODULE OpsAlert ------------------------------
(***************************************************************************)
(* How a finished job run pages the operator.  entrypoint.sh writes the    *)
(* run's record in the ledger twice, RUNNING at the start and a terminal   *)
(* status at the end, both best-effort.  When the ECS task stops,           *)
(* EventBridge delivers the event to the opsnotify Lambda at least once;   *)
(* handleTask (opsnotify/task.go) judges the run from the newest records   *)
(* of the ledger (internal/opsalert Streak) and pushes at most one alert,   *)
(* in the order check, send, mark (internal/alertmarker).                  *)
(*                                                                         *)
(* Runs are numbered in the order they start, which is the ledger's order. *)
(***************************************************************************)
EXTENDS Integers, FiniteSets, Sequences

CONSTANTS
    Keys,        \* (command, tenant) pairs, the identity of a history
    MaxRuns,     \* bound: runs started
    MaxCopies,   \* bound: deliveries of one stopped-task event
    MaxTries,    \* how often Lambda runs an event whose handler fails
    Window,      \* ledgerWindow
    MaxMishaps,  \* bound: failed writes, reads and sends, dead tasks, redeliveries
    Serial,      \* does a key's next run start after its last one stopped?
    InOrder      \* is a run's event handled before its key's next run ends?

Runs == 1..MaxRuns
Copies == 1..MaxCopies

ASSUME OpsAlertAssumption ==
    /\ MaxRuns \in Nat /\ MaxCopies \in Nat \ {0}
    /\ MaxTries \in Nat \ {0} /\ Window \in Nat \ {0}
    /\ MaxMishaps \in Nat
    /\ Serial \in BOOLEAN /\ InOrder \in BOOLEAN

VARIABLES
    task,      \* each run's ECS task and the (command, tenant) it is of
    record,    \* the run ledger: each run's status, "none" without a record
    event,     \* each delivery of a run's stopped-task event, and its handler
    marker,    \* runs with a marker under opsalert/task/
    pushed,    \* history: the alerts the operator got about a run
    slipped,   \* history: runs for which deduplication could not work
    misread,   \* history: runs judged on a history with a record missing
    mishaps    \* how many things have gone wrong

vars == <<task, record, event, marker, pushed, slipped, misread, mishaps>>

Mishap == mishaps < MaxMishaps /\ mishaps' = mishaps + 1
Fine == UNCHANGED mishaps

\* "TENANT" is a SUCCESS whose outcome is tenant_actionable.
Terminal == {"SUCCESS", "FAILED", "TENANT"}
NoKey == "none"    \* a run that has not started
Verdicts == {"None", "Crash", "Started", "Escalated", "Recovered"}

started(i) == task[i].pc # "idle"
stopped(i) == task[i].pc = "stopped"

-----------------------------------------------------------------------------
(* internal/opsalert: the verdict on a history.                            *)

EscalateAt == 3

Newest(S) == CHOOSE i \in S : \A j \in S : j <= i

\* Consecutive FAILED records from the newest of S.
leadingFailures(S) ==
    Cardinality({i \in S : \A j \in S : j >= i => record[j] = "FAILED"})

\* Mutant: the history of every key.
MutEveryKey(recs, k) == {i \in recs : record[i] \in Terminal}

history(recs, k) == {i \in recs : task[i].key = k /\ record[i] \in Terminal}

dropTenantActionableSuccesses(S) == {i \in S : record[i] # "TENANT"}

\* What to say about the newest run of k among recs.
Streak(recs, k) ==
    LET hist == history(recs, k)
        last == Newest(hist)
        counted == dropTenantActionableSuccesses(hist)
        n == leadingFailures(counted) IN
    CASE hist = {} -> "None"
      [] hist # {} /\ record[last] = "TENANT" -> "None"
      [] hist # {} /\ record[last] = "SUCCESS" ->
            IF leadingFailures(counted \ {last}) > 0 THEN "Recovered" ELSE "None"
      [] OTHER ->
            IF n = 1 THEN "Started" ELSE IF n = EscalateAt THEN "Escalated" ELSE "None"

\* ledgerReader.recent: the newest Window records, of every key.
recent ==
    LET all == {i \in Runs : record[i] # "none"} IN
    {i \in all : Cardinality({j \in all : j > i}) < Window}

terminalRecord(recs, i) == i \in recs /\ record[i] \in Terminal

\* handleTask on the records read, up to the title of the message.
judge(recs, i) ==
    IF terminalRecord(recs, i) THEN Streak(recs, task[i].key)
    ELSE IF task[i].exit = "failed" THEN "Crash" ELSE "None"

-----------------------------------------------------------------------------
(* entrypoint.sh, one task per run.                                        *)

\* The history of a key is judged run by run: every delivery about its earlier
\* runs has been handled.
EarlierJudged(i) ==
    \A j \in Runs : j < i /\ task[j].key = task[i].key =>
        /\ stopped(j)
        /\ \A c \in Copies : event[j][c].pc \in {"none", "done", "lost"}

\* A task stops, and EventBridge delivers it.
Stopped(i, exit) ==
    /\ task' = [task EXCEPT ![i].pc = "stopped", ![i].exit = exit]
    /\ event' = [event EXCEPT ![i][1].pc = "queued"]

\* The RUNNING record, or none when the write fails.
Start(i, k) ==
    /\ ~started(i)
    /\ \A j \in Runs : j < i => /\ started(j)
                                /\ Serial /\ task[j].key = k => stopped(j)
    /\ task' = [task EXCEPT ![i].pc = "running", ![i].key = k]
    /\ \/ record' = [record EXCEPT ![i] = "RUNNING"] /\ Fine
       \/ UNCHANGED record /\ Mishap
    /\ UNCHANGED <<event, marker, pushed, slipped, misread>>

\* The command ends (a stopped one with 143) and terminal_ledger runs.
Finish(i) ==
    /\ task[i].pc = "running"
    /\ InOrder => EarlierJudged(i)
    /\ \E status \in Terminal :
        /\ task' = [task EXCEPT ![i].pc = "ending",
                                ![i].exit = IF status = "FAILED" THEN "failed" ELSE "ok"]
        /\ \/ record' = [record EXCEPT ![i] = status] /\ Fine
           \/ UNCHANGED record /\ Mishap
    /\ UNCHANGED <<event, marker, pushed, slipped, misread>>

\* sync_up, then the shell exits with the command's code.
Exit(i) ==
    /\ task[i].pc = "ending"
    /\ Stopped(i, task[i].exit)
    /\ UNCHANGED <<record, marker, pushed, slipped, misread, mishaps>>

\* SIGTERM during sync_up: on_term overwrites the record.
Terminate(i) ==
    /\ task[i].pc = "ending"
    /\ Stopped(i, "failed")
    /\ record' = [record EXCEPT ![i] = "FAILED"]
    /\ Mishap
    /\ UNCHANGED <<marker, pushed, slipped, misread>>

\* OOM, SIGKILL, or an image that was never pulled: no terminal write.
Kill(i) ==
    /\ task[i].pc \in {"running", "ending"}
    /\ Stopped(i, "failed")
    /\ Mishap
    /\ UNCHANGED <<record, marker, pushed, slipped, misread>>

\* A duplicate delivery, or another STOPPED event of the same task.
Redeliver(i, c) ==
    /\ stopped(i)
    /\ event[i][c].pc = "none"
    /\ InOrder => \A j \in Runs : j > i /\ task[j].key = task[i].key =>
                      task[j].pc \in {"idle", "running"}
    /\ event' = [event EXCEPT ![i][c].pc = "queued"]
    /\ Mishap
    /\ UNCHANGED <<task, record, marker, pushed, slipped, misread>>

-----------------------------------------------------------------------------
(* handleTask, one invocation after another for a delivery.                *)

To(i, c, pc) == event' = [event EXCEPT ![i][c].pc = pc]

\* An invocation keeps nothing when it ends.
Ended(pc, tries) == [pc |-> pc, verdict |-> "None", tries |-> tries]
Done(i, c) == event' = [event EXCEPT ![i][c] = Ended("done", 0)]

\* Mutant: Lambda never gives the event up.
MutRetryForever(i, c) ==
    Mishap /\ event' = [event EXCEPT ![i][c] = Ended("queued", @.tries + 1)]

\* The handler returned an error or died: the async invoke retries.
Retry(i, c) ==
    /\ Mishap
    /\ event' = [event EXCEPT ![i][c] = IF @.tries + 1 < MaxTries THEN Ended("queued", @.tries + 1)
                                                                  ELSE Ended("lost", 0)]

\* The ledger is read and judged; no title, no alert.  A ledger that cannot be
\* listed fails the handler; a record that cannot be read (fetch) is left out
\* and the shorter history judged.  Only the records of history count.
Judge(i, c) ==
    /\ event[i][c].pc = "queued"
    /\ \/ \E lost \in SUBSET history(recent, task[i].key) :
            LET verdict == judge(recent \ lost, i) IN
            /\ IF lost = {} THEN Fine ELSE Mishap
            /\ IF verdict = "None"
               THEN Done(i, c)
               ELSE event' = [event EXCEPT ![i][c].pc = "check", ![i][c].verdict = verdict]
            /\ misread' = IF lost = {} THEN misread ELSE misread \cup {i}
       \/ Retry(i, c) /\ UNCHANGED misread
    /\ UNCHANGED <<task, record, marker, pushed, slipped>>

\* Another delivery of the run is between its check and its mark.
Overlapped(i, c) == \E d \in Copies \ {c} : event[i][d].pc \in {"send", "mark"}

\* Mutant: the marker is keyed on the delivery's version.
MutKeyedOnVersion(i, c) ==
    /\ event[i][c].pc = "check"
    /\ To(i, c, "send")
    /\ UNCHANGED <<task, record, marker, pushed, slipped, misread, mishaps>>

\* Marker.Sent.  A read that fails counts as no marker.
Check(i, c) ==
    /\ event[i][c].pc = "check"
    /\ \/ /\ i \in marker
          /\ Done(i, c) /\ Fine
          /\ UNCHANGED slipped
       \/ /\ i \notin marker
          /\ To(i, c, "send") /\ Fine
          /\ slipped' = IF Overlapped(i, c) THEN slipped \cup {i} ELSE slipped
       \/ /\ i \in marker
          /\ To(i, c, "send") /\ Mishap
          /\ slipped' = slipped \cup {i}
    /\ UNCHANGED <<task, record, marker, pushed, misread>>

\* Mutant: a failed send is only logged, and the alert is marked as sent.
MutSendSwallowed(i, c) ==
    /\ event[i][c].pc = "send"
    /\ To(i, c, "mark")
    /\ \/ pushed' = [pushed EXCEPT ![i] = Append(@, event[i][c].verdict)] /\ Fine
       \/ UNCHANGED pushed /\ Mishap
    /\ UNCHANGED <<task, record, marker, slipped, misread>>

\* Pushover answers, or it does not, and may have delivered all the same.
Send(i, c) ==
    /\ event[i][c].pc = "send"
    /\ \/ /\ To(i, c, "mark") /\ Fine
          /\ pushed' = [pushed EXCEPT ![i] = Append(@, event[i][c].verdict)]
          /\ UNCHANGED slipped
       \/ /\ Retry(i, c)
          /\ UNCHANGED <<pushed, slipped>>
       \/ /\ Retry(i, c)
          /\ pushed' = [pushed EXCEPT ![i] = Append(@, event[i][c].verdict)]
          /\ slipped' = slipped \cup {i}
    /\ UNCHANGED <<task, record, marker, misread>>

\* Marker.Record: best-effort, an error is only logged; or the invocation dies.
Mark(i, c) ==
    /\ event[i][c].pc = "mark"
    /\ \/ Done(i, c) /\ Fine /\ marker' = marker \cup {i} /\ UNCHANGED slipped
       \/ /\ (Done(i, c) /\ Mishap) \/ Retry(i, c)
          /\ slipped' = slipped \cup {i}
          /\ UNCHANGED marker
    /\ UNCHANGED <<task, record, pushed, misread>>

-----------------------------------------------------------------------------
Init ==
    /\ task = [i \in Runs |-> [pc |-> "idle", key |-> NoKey, exit |-> "ok"]]
    /\ record = [i \in Runs |-> "none"]
    /\ event = [i \in Runs |-> [c \in Copies |-> [pc |-> "none", verdict |-> "None", tries |-> 0]]]
    /\ marker = {}
    /\ pushed = [i \in Runs |-> <<>>]
    /\ slipped = {}
    /\ misread = {}
    /\ mishaps = 0

TaskStep(i) ==
    (\E k \in Keys : Start(i, k)) \/ Finish(i) \/ Exit(i) \/ Terminate(i) \/ Kill(i)
HandlerStep(i, c) == Judge(i, c) \/ Check(i, c) \/ Send(i, c) \/ Mark(i, c)

Next ==
    \E i \in Runs :
        \/ TaskStep(i)
        \/ \E c \in Copies : Redeliver(i, c) \/ HandlerStep(i, c)

Spec == Init /\ [][Next]_vars

-----------------------------------------------------------------------------
(* Properties.                                                             *)

TaskRecords == [pc : {"idle", "running", "ending", "stopped"},
                key : Keys \cup {NoKey}, exit : {"ok", "failed"}]
EventRecords == [pc : {"none", "queued", "check", "send", "mark", "done", "lost"},
                 verdict : Verdicts, tries : 0..(MaxTries - 1)]

\* Type correctness: an event is never tried more than MaxTries times.
TypeOK ==
    /\ task \in [Runs -> TaskRecords]
    /\ record \in [Runs -> Terminal \cup {"none", "RUNNING"}]
    /\ event \in [Runs -> [Copies -> EventRecords]]
    /\ marker \subseteq Runs
    /\ pushed \in [Runs -> Seq(Verdicts)]
    /\ slipped \subseteq Runs
    /\ misread \subseteq Runs
    /\ mishaps \in 0..MaxMishaps

\* "A failed send must retry, never go silent" (alertmarker.go): a marker, which
\* silences every later delivery, is there only if the operator was told.
MarkedOnlyIfPushed == \A i \in marker : pushed[i] # <<>>

\* "At most one Pushover" per stopped task (task.go): a second alert takes a
\* marker that could not be read or written, an answer that was lost after the
\* delivery, or two invocations at once.
OnePushPerTask == \A i \in Runs : Len(pushed[i]) > 1 => i \in slipped

\* The counter object Streak does without: consecutive failures of key k among
\* the runs up to n, a tenant-actionable success and an unfinished record aside.
failures(k, n) ==
    LET f[m \in 0..MaxRuns] ==
            IF m = 0 THEN 0
            ELSE IF task[m].key # k THEN f[m - 1]
            ELSE CASE record[m] = "FAILED"  -> f[m - 1] + 1
                   [] record[m] = "SUCCESS" -> 0
                   [] OTHER                 -> f[m - 1]
    IN  f[n]

\* The alert that counter would give for run i.
Due(i) ==
    LET before == failures(task[i].key, i - 1) IN
    CASE record[i] = "FAILED" /\ before = 0              -> "Started"
      [] record[i] = "FAILED" /\ before = EscalateAt - 1 -> "Escalated"
      [] record[i] = "SUCCESS" /\ before > 0             -> "Recovered"
      [] record[i] \notin Terminal /\ task[i].exit = "failed" -> "Crash"
      [] OTHER -> "None"

\* The alerts that fit how run i itself ended, whatever came before it.
Plausible(i) ==
    {v \in Verdicts :
        /\ v \in {"Started", "Escalated"} => record[i] = "FAILED"
        /\ v = "Recovered" => record[i] = "SUCCESS"
        /\ v = "Crash" => task[i].exit = "failed"}

\* "Streak transitions deduplicate themselves" (streak.go): every alert is the
\* one due, and a run whose event was handled has had the alert it was due, so
\* an outage is opened, escalated and closed once each, tenant by tenant.  A
\* record that could not be read is as if never written: where it is of the
\* key's own history the count may be off ("judgement degrades gracefully",
\* ledger.go), but what is said still fits how the run ended.
PagesAsCounted ==
    \A i \in Runs :
        /\ \A n \in DOMAIN pushed[i] :
               pushed[i][n] = Due(i) \/ (i \in misread /\ pushed[i][n] \in Plausible(i))
        /\ (\E c \in Copies : event[i][c].pc = "done") /\ Due(i) # "None"
              => pushed[i] # <<>> \/ i \in misread

\* "Escalated (the EscalateAt=3rd consecutive failure ...)": the operator is
\* told of it (docs/ops-alerting.md).
ThirdFailureEscalates ==
    \A i \in Runs :
        Due(i) = "Escalated" /\ (\E c \in Copies : event[i][c].pc = "done") => pushed[i] # <<>>

-----------------------------------------------------------------------------
(* The inductive invariant behind MarkedOnlyIfPushed and OnePushPerTask.   *)

Sending(i, c) == event[i][c].pc \in {"send", "mark"}

\* An alert that has been pushed is about to be marked, or it is.
ToldBeforeMarked ==
    \A i \in Runs, c \in Copies : event[i][c].pc = "mark" => pushed[i] # <<>>

\* Nothing is delivered about a task that has not stopped.
QuietUntilStopped ==
    \A i \in Runs, c \in Copies : event[i][c].pc # "none" => stopped(i)

\* While deduplication works, one invocation at a time is past its check, and
\* it got there before anything was pushed.
Deduplicated(i) ==
    /\ Len(pushed[i]) <= 1
    /\ pushed[i] # <<>> => i \in marker \/ \E c \in Copies : event[i][c].pc = "mark"
    /\ \A c \in Copies : event[i][c].pc = "send" => pushed[i] = <<>>
    /\ \A c, d \in Copies : Sending(i, c) /\ Sending(i, d) => c = d

IInv ==
    /\ TypeOK
    /\ MarkedOnlyIfPushed
    /\ ToldBeforeMarked
    /\ QuietUntilStopped
    /\ \A i \in Runs \ slipped : Deduplicated(i)
=============================================================================
