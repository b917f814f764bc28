------------------------------- MODULE Claims -------------------------------
(***************************************************************************)
(* The waiver-claims recap and the state it keeps between containers.      *)
(* A claims run (internal/claims) reports the moves processed since its    *)
(* cursor, then writes the day's ledger and advances the cursor, in the    *)
(* order internal/jobreport fixes.  Both files live in .waivers, which     *)
(* entrypoint.sh copies from S3 before and to S3 after EVERY task, of any   *)
(* job (cmd/sync.go, internal/statesync).                                  *)
(*                                                                         *)
(* Time is two ticks a UTC day: in the first it is still yesterday in New  *)
(* York.  The cursor is the UTC midnight that names a New York date, so a  *)
(* move is after it exactly when its UTC day is that day or a later one.    *)
(***************************************************************************)
EXTENDS Integers, FiniteSets

CONSTANTS
    Moves,       \* waiver claims Fantrax will process, each adding a player
    Runs,        \* tasks running the claims command
    Others,      \* tasks running any other command
    Lookback,    \* days a run without a cursor looks back
    MaxDay,      \* bound: the last day
    Manual,      \* are claims runs launched by hand, beside the daily schedule?
    Faults,      \* may fetches, sends, cursor writes, uploads and tasks fail?
    LedgerFaults,  \* may the write of the day's ledger fail?
    DownFaults   \* may sync-down fail?

Tasks == Runs \cup Others
Days == 0..MaxDay
NoCursor == -1
Torn == -2       \* a cursor file that a failed copy has cut short
NotYet == -1

ASSUME ClaimsAssumption ==
    /\ Runs \cap Others = {}
    /\ Lookback \in Nat /\ MaxDay \in Nat
    /\ Manual \in BOOLEAN /\ Faults \in BOOLEAN
    /\ LedgerFaults \in BOOLEAN /\ DownFaults \in BOOLEAN

VARIABLES
    tick,      \* the clock
    when,      \* the tick Fantrax processed a move, or NotYet
    remote,    \* the claims/ prefix: last-claims.json and claims/<date>.json, and
               \* the days whose file a failed copy has cut short
    task,      \* each task: its program counter and its own .waivers
    reported   \* history: the moves each claims run pushed

vars == <<tick, when, remote, task, reported>>

Files == {"cursor", "ledger"}
NoLedger == [d \in Days |-> {}]   \* {}: no file, a run with no move writes none

\* A container as it starts, and what is left of task t when its own is gone.
Fresh == [pc |-> "idle", todo |-> Files, cursor |-> NoCursor, ledger |-> NoLedger,
          torn |-> {}, today |-> NoCursor, batch |-> {}]
Gone(t) == [task EXCEPT ![t] = [Fresh EXCEPT !.pc = "done", !.today = task[t].today]]

utcDay(t) == t \div 2
todayET == (tick - 1) \div 2

Processed == {x \in Moves : when[x] # NotYet}

-----------------------------------------------------------------------------
(* Fantrax and time.                                                       *)

Process(x) ==
    /\ when[x] = NotYet
    /\ when' = [when EXCEPT ![x] = tick]
    /\ UNCHANGED <<tick, remote, task, reported>>

Tick ==
    /\ tick < 2 * MaxDay + 1
    /\ tick' = tick + 1
    /\ UNCHANGED <<when, remote, task, reported>>

-----------------------------------------------------------------------------
(* The launch, then entrypoint.sh before the command: sync-down.           *)

\* The schedule launches one claims run a day, which ends before the next.
Launch(t) ==
    /\ task[t].pc = "idle"
    /\ t \in Runs => \/ Manual
                      \/ \A r \in Runs : /\ task[r].pc \in {"idle", "done"}
                                          /\ task[r].today # todayET
    /\ task' = [task EXCEPT ![t].pc = "down"]
    /\ UNCHANGED <<tick, when, remote, reported>>

\* Down copies the prefix's objects in no particular order.
SyncDown(t, f) ==
    /\ task[t].pc = "down" /\ f \in task[t].todo
    /\ task' = [task EXCEPT ![t].todo = @ \ {f},
                            ![t].cursor = IF f = "cursor" THEN remote.cursor ELSE @,
                            ![t].ledger = IF f = "ledger" THEN remote.ledger ELSE @,
                            ![t].torn = IF f = "ledger" THEN remote.torn ELSE @]
    /\ UNCHANGED <<tick, when, remote, reported>>

\* The task's day files when it has got some of them, and which are not whole.
Copied(t, got) ==
    [d \in Days |-> IF d \in got THEN remote.ledger[d] ELSE task[t].ledger[d]]
Cut(t, got, cut) == task[t].torn \cup (got \cap remote.torn) \cup cut

\* A failed copy ends Down, and the command runs on what there is: the file in
\* hand is missing (GetObject failed) or cut short (io.Copy failed after
\* O_TRUNC), whether it was the cursor or a day's ledger.
SyncDownFails(t) ==
    /\ DownFaults
    /\ task[t].pc = "down" /\ task[t].todo # {}
    /\ \E got \in SUBSET {d \in Days : "ledger" \in task[t].todo /\ remote.ledger[d] # {}} :
       \E cut \in {{}} \cup {{d} : d \in got} :
       \E c \in {task[t].cursor} \cup {x \in {Torn} : "cursor" \in task[t].todo /\ cut = {}} :
          task' = [task EXCEPT ![t].todo = {}, ![t].cursor = c,
                               ![t].ledger = Copied(t, got), ![t].torn = Cut(t, got, cut)]
    /\ UNCHANGED <<tick, when, remote, reported>>

-----------------------------------------------------------------------------
(* claims.Run.                                                             *)

\* The command takes its date once, before it logs in and fetches.
StartRun(r) ==
    /\ task[r].pc = "down" /\ task[r].todo = {}
    /\ task' = [task EXCEPT ![r].pc = "fetch", ![r].today = todayET]
    /\ UNCHANGED <<tick, when, remote, reported>>

\* loadCursor takes a file it cannot parse for none.
sinceDay(r) == IF task[r].cursor \in Days THEN task[r].cursor
                                          ELSE task[r].today - Lookback

\* GetRecentTransactions.  The shared list may be as old as todayTTL, which is
\* less than a tick, and miss what was processed meanwhile.
Fetchable(since) == {x \in Processed : utcDay(when[x]) >= since}
JustProcessed == {x \in Processed : when[x] >= tick - 1}

\* The command up to Emit.  With nothing to report it goes straight to the
\* cursor; a failed login or fetch ends it.
Fetch(r) ==
    /\ task[r].pc = "fetch"
    /\ \/ \E missed \in SUBSET JustProcessed :
            LET batch == Fetchable(sinceDay(r)) \ missed IN
            task' = [task EXCEPT ![r].pc = IF batch = {} THEN "cursor" ELSE "send",
                                 ![r].batch = batch]
       \/ Faults /\ task' = [task EXCEPT ![r].pc = "upledger"]
    /\ UNCHANGED <<tick, when, remote, reported>>

\* Mutant: a failed send does not stop the effects.
MutSendNotFatal(r) ==
    /\ task[r].pc = "send"
    /\ task' = [task EXCEPT ![r].pc = "ledger"]
    /\ \/ reported' = [reported EXCEPT ![r] = @ \cup task[r].batch]
       \/ Faults /\ UNCHANGED reported
    /\ UNCHANGED <<tick, when, remote>>

\* Emit's send: a feed record that cannot be written fails the run.
Send(r) ==
    /\ task[r].pc = "send"
    /\ \/ /\ reported' = [reported EXCEPT ![r] = @ \cup task[r].batch]
          /\ task' = [task EXCEPT ![r].pc = "ledger"]
       \/ /\ Faults
          /\ task' = [task EXCEPT ![r].pc = "upledger"]
          /\ UNCHANGED reported
    /\ UNCHANGED <<tick, when, remote>>

\* The first effect: the day's ledger file, replaced.  A failure is a warning
\* and the next effect still runs.
WriteLedger(r) ==
    /\ task[r].pc = "ledger"
    /\ \/ task' = [task EXCEPT ![r].pc = "cursor",
                               ![r].ledger[task[r].today] = task[r].batch,
                               ![r].torn = @ \ {task[r].today}]
       \/ LedgerFaults /\ task' = [task EXCEPT ![r].pc = "cursor"]
    /\ UNCHANGED <<tick, when, remote, reported>>

\* The last effect: the cursor advances to the day of the run.
SaveCursor(r) ==
    /\ task[r].pc = "cursor"
    /\ \/ task' = [task EXCEPT ![r].pc = "upledger", ![r].cursor = task[r].today]
       \/ Faults /\ task' = [task EXCEPT ![r].pc = "upledger"]
    /\ UNCHANGED <<tick, when, remote, reported>>

\* Any other command leaves .waivers alone.
OtherRun(t) ==
    /\ t \in Others
    /\ task[t].pc = "down" /\ task[t].todo = {}
    /\ task' = [task EXCEPT ![t].pc = "upledger"]
    /\ UNCHANGED <<tick, when, remote, reported>>

-----------------------------------------------------------------------------
(* entrypoint.sh after the command, whatever its exit code: sync-up.       *)

\* Mutant: the upload mirrors, deleting what the task does not have.
MutMirror(t, k) == task[t].ledger

\* The stored ledger after the files of the days before k were uploaded.
Uploaded(t, k) ==
    [d \in Days |-> IF d < k /\ task[t].ledger[d] # {} THEN task[t].ledger[d]
                                                       ELSE remote.ledger[d]]

\* A file cut short goes up like any other, over a whole one.
TornAfter(t, k) ==
    {d \in Days : IF d < k /\ task[t].ledger[d] # {} THEN d \in task[t].torn
                                                   ELSE d \in remote.torn}

\* Up walks .waivers in name order: claims/<date>.json first.
UploadLedger(t) ==
    /\ task[t].pc = "upledger"
    /\ \E k \in 0..(MaxDay + 1) :
          /\ remote' = [remote EXCEPT !.ledger = Uploaded(t, k), !.torn = TornAfter(t, k)]
          /\ \/ k = MaxDay + 1 /\ task' = [task EXCEPT ![t].pc = "upcursor"]
             \/ k <= MaxDay /\ Faults /\ task' = Gone(t)
    /\ UNCHANGED <<tick, when, reported>>

\* ... and last-claims.json last.
UploadCursor(t) ==
    /\ task[t].pc = "upcursor"
    /\ \/ /\ task[t].cursor # NoCursor
          /\ remote' = [remote EXCEPT !.cursor = task[t].cursor]
       \/ /\ task[t].cursor = NoCursor \/ Faults
          /\ UNCHANGED remote
    /\ task' = Gone(t)
    /\ UNCHANGED <<tick, when, reported>>

\* A stopped task uploads nothing: neither does a killed one.
Crash(t) ==
    /\ Faults
    /\ task[t].pc \notin {"idle", "done"}
    /\ task' = Gone(t)
    /\ UNCHANGED <<tick, when, remote, reported>>

-----------------------------------------------------------------------------
\* A deployment whose claims run of day 0 reported everything so far.
Init ==
    /\ tick = 1
    /\ when = [x \in Moves |-> NotYet]
    /\ remote = [cursor |-> 0, ledger |-> NoLedger, torn |-> {}]
    /\ task = [t \in Tasks |-> Fresh]
    /\ reported = [r \in Runs |-> {}]

ClaimsStep(r) == StartRun(r) \/ Fetch(r) \/ Send(r) \/ WriteLedger(r) \/ SaveCursor(r)
SyncStep(t) == \/ Launch(t)
               \/ \E f \in Files : SyncDown(t, f)
               \/ SyncDownFails(t)
               \/ UploadLedger(t) \/ UploadCursor(t) \/ Crash(t)

Next ==
    \/ \E x \in Moves : Process(x)
    \/ Tick
    \/ \E r \in Runs : ClaimsStep(r)
    \/ \E t \in Tasks : OtherRun(t) \/ SyncStep(t)

Spec == Init /\ [][Next]_vars

-----------------------------------------------------------------------------
(* Properties.                                                             *)

Ledgers == [Days -> SUBSET Moves]
TaskRecords == [pc : {"idle", "down", "fetch", "send", "ledger", "cursor",
                      "upledger", "upcursor", "done"},
                todo : SUBSET Files, cursor : Days \cup {NoCursor, Torn},
                ledger : Ledgers, torn : SUBSET Days, today : Days \cup {NoCursor},
                batch : SUBSET Moves]
Stores == [cursor : Days \cup {Torn}, ledger : Ledgers, torn : SUBSET Days]

\* Type correctness.  A stored cursor is a day the runs have seen or a file cut
\* short, never the empty value a task without one works from (SaveCursor,
\* UploadCursor).
TypeOK ==
    /\ tick \in 1..(2 * MaxDay + 1)
    /\ when \in [Moves -> {NotYet} \cup 1..(2 * MaxDay + 1)]
    /\ remote \in Stores
    /\ task \in [Tasks -> TaskRecords]
    /\ reported \in [Runs -> SUBSET Moves]

Reported == UNION {reported[r] : r \in Runs}
BeforeDay(d) == {x \in Processed : utcDay(when[x]) < d}

\* No later run fetches a move processed before the stored cursor, so every
\* such move has been reported: "Advanced last so a mid-run failure
\* re-processes next time" (claims/run.go), whatever fails, however tasks'
\* uploads overlap and however old the list a run worked from was.  A cursor
\* cut short has nothing before it: the next run looks back instead.
NoMoveLost == BeforeDay(remote.cursor) \subseteq Reported

\* The audit ledger in S3 has an entry of every move no later run will fetch,
\* in the file of the day it was reported: the ledger is written and uploaded
\* before the cursor, and no upload, of whatever age, puts a file back to what
\* it was or to nothing.  With one run a day whose ledger write does not fail.
\* The file is whole unless a sync-down may be cut short in the middle of it:
\* then the sync-up of that task stores the rest of it over the whole one.
LedgerCoversCursor ==
    \A x \in BeforeDay(remote.cursor) :
        \E d \in Days : x \in remote.ledger[d] /\ (d \in remote.torn => DownFaults)

\* "The cursor rides the single-writer claims/ S3 prefix": nobody else writes
\* it, so it never goes back.
CursorNeverRegresses == [][remote'.cursor >= remote.cursor]_vars

-----------------------------------------------------------------------------
(* The inductive invariant behind NoMoveLost.                              *)

\* A cursor may be stored: what lies before it is reported, and it is no later
\* than today.
Covered(c) == c <= todayET /\ BeforeDay(c) \subseteq Reported

\* There is no cursor to work from, or half of one, only after a failed
\* sync-down.
Usable(c) == IF c \in Days THEN Covered(c) ELSE DownFaults

CopyIsCovered(k) ==
    \/ k.pc \in {"idle", "down"} /\ "cursor" \in k.todo /\ k.cursor = NoCursor
    \/ k.pc = "done"
    \/ Usable(k.cursor)

\* A run that finds no cursor looks back over every day there has been.
LookbackSuffices == DownFaults => Lookback >= MaxDay

\* What a run has still to report before it may advance the cursor is its batch.
RunCoversToday(k) ==
    /\ k.pc \in {"fetch", "send"} => k.today \in Days /\ k.today <= todayET
    /\ k.pc = "send" => BeforeDay(k.today) \subseteq Reported \cup k.batch
    /\ k.pc \in {"ledger", "cursor"} => k.today \in Days /\ Covered(k.today)

IInv ==
    /\ TypeOK
    /\ Usable(remote.cursor)
    /\ \A t \in Tasks : CopyIsCovered(task[t])
    /\ \A r \in Runs : RunCoversToday(task[r])
=============================================================================
