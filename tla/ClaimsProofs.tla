---------------------------- MODULE ClaimsProofs ----------------------------
(***************************************************************************)
(* Proofs about Claims: when a run without a cursor looks back far enough,  *)
(* the cursor in S3 never passes a move nobody was told of, whatever the     *)
(* number of moves, of claims runs and of other tasks, and whichever fail.  *)
(* And when runs take turns, as the daily schedule makes them, and their     *)
(* ledger writes succeed, it never passes a move the audit ledger lacks.     *)
(***************************************************************************)
EXTENDS Claims, TLAPS

-----------------------------------------------------------------------------
(* Time and the moves.                                                     *)

LEMMA TodayType ==
    ASSUME tick \in 1..(2 * MaxDay + 1)
    PROVE  todayET \in Days
  BY ClaimsAssumption DEF todayET, Days

LEMMA DaysAreInt == /\ Days \subseteq Int /\ NoCursor \in Int /\ NoCursor \notin Days
                    /\ Torn \in Int /\ Torn \notin Days /\ Torn # NoCursor
  BY DEF Days, NoCursor, Torn

\* A cursor cut short has nothing before it.
LEMMA TornHidesNothing ==
    ASSUME when \in [Moves -> {NotYet} \cup 1..(2 * MaxDay + 1)]
    PROVE  BeforeDay(Torn) = {}
<1> SUFFICES ASSUME NEW x \in BeforeDay(Torn) PROVE FALSE
  OBVIOUS
<1>1. x \in Moves /\ when[x] # NotYet /\ when[x] \div 2 < -2
  BY DEF BeforeDay, Processed, utcDay, Torn
<1>2. when[x] \in 1..(2 * MaxDay + 1)
  BY <1>1
<1>3. when[x] \div 2 >= 0
  BY <1>2, ClaimsAssumption
<1> QED BY <1>1, <1>2, <1>3

\* What any step does to the clock, the moves and the reports.
Forward ==
    /\ tick' \in Int /\ tick' >= tick
    /\ \A x \in Moves : when'[x] = when[x] \/ when'[x] = tick
    /\ \A r \in Runs : reported[r] \subseteq reported'[r]

LEMMA TodayAdvances ==
    ASSUME TypeOK, Forward
    PROVE  todayET' >= todayET
  BY ClaimsAssumption DEF TypeOK, Forward, todayET

\* Nothing is processed on a day that is over in New York.
LEMMA PastIsSettled ==
    ASSUME TypeOK, Forward, NEW c \in Int, c <= todayET
    PROVE  BeforeDay(c)' \subseteq BeforeDay(c)
<1> SUFFICES ASSUME NEW x \in BeforeDay(c)' PROVE x \in BeforeDay(c)
  OBVIOUS
<1>1. x \in Moves /\ when'[x] # NotYet /\ when'[x] \div 2 < c
  BY DEF BeforeDay, Processed, utcDay
<1>2. tick \in Int /\ (tick - 1) \div 2 <= tick \div 2
  BY ClaimsAssumption DEF TypeOK
<1>3. when'[x] # tick
  BY <1>1, <1>2 DEF todayET
<1>4. when'[x] = when[x]
  BY <1>1, <1>3 DEF Forward
<1> QED BY <1>1, <1>4 DEF BeforeDay, Processed, utcDay

LEMMA ReportsGrow ==
    ASSUME Forward
    PROVE  Reported \subseteq Reported'
  BY DEF Forward, Reported

LEMMA CoveredStable ==
    ASSUME TypeOK, Forward, NEW c \in Int, Covered(c)
    PROVE  Covered(c)'
<1>1. c <= todayET'
  <2>1. todayET \in Int /\ todayET' \in Int
    BY ClaimsAssumption DEF todayET, TypeOK, Forward
  <2> QED BY <2>1, TodayAdvances DEF Covered
<1>2. BeforeDay(c)' \subseteq Reported'
  BY PastIsSettled, ReportsGrow DEF Covered
<1> QED BY <1>1, <1>2 DEF Covered

LEMMA CopyStable ==
    ASSUME TypeOK, Forward, NEW k \in TaskRecords, CopyIsCovered(k)
    PROVE  CopyIsCovered(k)'
<1>1. k.cursor \in Int
  BY DaysAreInt DEF TaskRecords
<1>2. Usable(k.cursor) => Usable(k.cursor)'
  BY <1>1, CoveredStable DEF Usable
<1> QED BY <1>2 DEF CopyIsCovered

LEMMA RunStable ==
    ASSUME TypeOK, Forward, NEW k \in TaskRecords, RunCoversToday(k)
    PROVE  RunCoversToday(k)'
<1>1. k.today \in Int /\ todayET \in Int /\ todayET' \in Int /\ todayET' >= todayET
  <2>1. k.today \in Int
    BY DaysAreInt DEF TaskRecords
  <2>2. todayET \in Int /\ todayET' \in Int
    BY ClaimsAssumption DEF todayET, TypeOK, Forward
  <2> QED BY <2>1, <2>2, TodayAdvances
<1>2. ASSUME k.pc \in {"fetch", "send"}
      PROVE  k.today \in Days /\ k.today <= todayET'
  BY <1>1, <1>2 DEF RunCoversToday
<1>3. ASSUME k.pc = "send"
      PROVE  BeforeDay(k.today)' \subseteq Reported' \cup k.batch
  <2>1. k.today <= todayET /\ BeforeDay(k.today) \subseteq Reported \cup k.batch
    BY <1>3 DEF RunCoversToday
  <2> QED BY <1>1, <2>1, PastIsSettled, ReportsGrow
<1>4. ASSUME k.pc \in {"ledger", "cursor"}
      PROVE  k.today \in Days /\ Covered(k.today)'
  BY <1>1, <1>4, CoveredStable DEF RunCoversToday
<1> QED BY <1>2, <1>3, <1>4 DEF RunCoversToday

-----------------------------------------------------------------------------
(* A step that changes nothing of a task, and one that changes one task.   *)

LEMMA NoTaskStep ==
    ASSUME IInv, TypeOK', Forward, UNCHANGED <<remote, task>>
    PROVE  IInv'
<1>1. Usable(remote.cursor)'
  <2>1. PICK c \in Int : c = remote.cursor
    BY DaysAreInt DEF IInv, TypeOK, Stores
  <2>2. Usable(c)'
    BY <2>1, CoveredStable DEF IInv, Usable
  <2> QED BY <2>1, <2>2 DEF Usable, Covered, BeforeDay
<1>2. ASSUME NEW t \in Tasks PROVE CopyIsCovered(task[t])'
  <2>1. PICK k \in TaskRecords : k = task[t]
    BY DEF IInv, TypeOK
  <2>2. CopyIsCovered(k)'
    BY <2>1, CopyStable DEF IInv
  <2> QED BY <2>1, <2>2 DEF CopyIsCovered, Usable, Covered, BeforeDay
<1>3. ASSUME NEW r \in Runs PROVE RunCoversToday(task[r])'
  <2>1. PICK k \in TaskRecords : k = task[r]
    BY DEF IInv, TypeOK, Tasks
  <2>2. RunCoversToday(k)'
    BY <2>1, RunStable DEF IInv
  <2> QED BY <2>1, <2>2 DEF RunCoversToday, Covered, BeforeDay
<1> QED BY <1>1, <1>2, <1>3 DEF IInv

\* One task becomes the record k: its share of IInv is all there is to prove.
LEMMA OneTaskStep ==
    ASSUME IInv, TypeOK', Forward, NEW t \in Tasks, NEW k \in TaskRecords,
           task' = [task EXCEPT ![t] = k],
           Usable(remote.cursor)', CopyIsCovered(k)',
           t \in Runs => RunCoversToday(k)'
    PROVE  IInv'
<1>1. /\ task'[t] = k
      /\ \A s \in Tasks \ {t} : task'[s] = task[s]
  BY DEF IInv, TypeOK
<1>2. ASSUME NEW s \in Tasks PROVE CopyIsCovered(task[s])'
  <2>1. CASE s = t
    BY <1>1, <2>1 DEF CopyIsCovered, Usable, Covered, BeforeDay
  <2>2. CASE s # t
    <3>1. PICK j \in TaskRecords : j = task[s] /\ j = task'[s]
      BY <1>1, <2>2 DEF IInv, TypeOK
    <3>2. CopyIsCovered(j)'
      BY <3>1, CopyStable DEF IInv
    <3> QED BY <3>1, <3>2 DEF CopyIsCovered, Usable, Covered, BeforeDay
  <2> QED BY <2>1, <2>2
<1>3. ASSUME NEW r \in Runs PROVE RunCoversToday(task[r])'
  <2>1. CASE r = t
    BY <1>1, <2>1 DEF RunCoversToday, Covered, BeforeDay
  <2>2. CASE r # t
    <3>1. PICK j \in TaskRecords : j = task[r] /\ j = task'[r]
      BY <1>1, <2>2 DEF IInv, TypeOK, Tasks
    <3>2. RunCoversToday(j)'
      BY <3>1, RunStable DEF IInv
    <3> QED BY <3>1, <3>2 DEF RunCoversToday, Covered, BeforeDay
  <2> QED BY <2>1, <2>2
<1> QED BY <1>2, <1>3 DEF IInv

\* The stored cursor stays covered while nobody writes it.
LEMMA RemoteStable ==
    ASSUME IInv, Forward, remote'.cursor = remote.cursor
    PROVE  Usable(remote.cursor)'
<1>1. PICK c \in Int : c = remote.cursor
  BY DaysAreInt DEF IInv, TypeOK, Stores
<1>2. Usable(c)'
  BY <1>1, CoveredStable DEF IInv, Usable
<1> QED BY <1>1, <1>2 DEF Usable, Covered, BeforeDay

-----------------------------------------------------------------------------
(* The actions.                                                            *)

LEMMA StillForward ==
    ASSUME TypeOK, UNCHANGED <<tick, when, reported>>
    PROVE  Forward
  BY DEF TypeOK, Forward

LEMMA ClockSteps ==
    ASSUME IInv, Tick \/ \E x \in Moves : Process(x)
    PROVE  IInv'
<1>1. TypeOK
  BY DEF IInv
<1>2. CASE Tick
  <2>1. TypeOK'
    BY <1>1, <1>2, ClaimsAssumption DEF Tick, TypeOK
  <2>2. Forward
    BY <1>1, <1>2 DEF Tick, TypeOK, Forward
  <2> QED BY <1>2, <2>1, <2>2, NoTaskStep DEF Tick
<1>3. ASSUME NEW x \in Moves, Process(x) PROVE IInv'
  <2>1. TypeOK'
    BY <1>1, <1>3, ClaimsAssumption DEF Process, TypeOK
  <2>2. Forward
    BY <1>1, <1>3 DEF Process, TypeOK, Forward
  <2> QED BY <1>3, <2>1, <2>2, NoTaskStep DEF Process
<1> QED BY <1>2, <1>3

\* A task's own step: the clock, the moves and the reports stand still.
LEMMA OwnStep ==
    ASSUME IInv, NEW t \in Tasks, NEW k \in TaskRecords,
           task' = [task EXCEPT ![t] = k], UNCHANGED <<tick, when, reported>>,
           remote' \in Stores,
           remote'.cursor = remote.cursor,
           CopyIsCovered(k), t \in Runs => RunCoversToday(k)
    PROVE  IInv'
<1>1. TypeOK /\ Forward
  BY StillForward DEF IInv
<1>2. TypeOK'
  BY <1>1 DEF TypeOK
<1>3. Usable(remote.cursor)'
  BY <1>1, RemoteStable
<1>4. CopyIsCovered(k)' /\ (t \in Runs => RunCoversToday(k)')
  BY <1>1, CopyStable, RunStable
<1> QED BY <1>1, <1>2, <1>3, <1>4, OneTaskStep

\* A task's record, and what it copied once it has left sync-down.
LEMMA TaskFacts ==
    ASSUME IInv, NEW t \in Tasks
    PROVE  /\ task[t] \in TaskRecords
           /\ CopyIsCovered(task[t])
           /\ t \in Runs => RunCoversToday(task[t])
           /\ remote \in Stores
           /\ todayET \in Days
           /\ \/ task[t].pc \in {"idle", "done"}
              \/ task[t].pc = "down" /\ "cursor" \in task[t].todo
              \/ Usable(task[t].cursor)
<1>1. task[t] \in TaskRecords /\ CopyIsCovered(task[t])
  BY DEF IInv, TypeOK
<1>2. todayET \in Days
  BY TodayType DEF IInv, TypeOK
<1> QED BY <1>1, <1>2 DEF IInv, TypeOK, CopyIsCovered

\* A step of entrypoint.sh after the command, or the command's end.
LEMMA PcStep ==
    ASSUME IInv, NEW t \in Tasks, NEW p \in {"down", "upledger", "upcursor"},
           task' = [task EXCEPT ![t].pc = p], UNCHANGED <<tick, when, reported>>,
           remote' \in Stores,
           remote'.cursor = remote.cursor,
           \/ p = "down" /\ task[t].pc = "idle"
           \/ /\ p \in {"upledger", "upcursor"}
              /\ Usable(task[t].cursor)
    PROVE  IInv'
<1>1. task[t] \in TaskRecords /\ CopyIsCovered(task[t])
  BY TaskFacts
<1>2. PICK k \in TaskRecords : /\ k = [task[t] EXCEPT !.pc = p]
                               /\ k.pc = p /\ k.cursor = task[t].cursor
                               /\ k.todo = task[t].todo
  <2> DEFINE n == [task[t] EXCEPT !.pc = p]
  <2>1. n \in TaskRecords /\ n.pc = p /\ n.cursor = task[t].cursor
        /\ n.todo = task[t].todo
    BY <1>1 DEF TaskRecords
  <2> QED BY <2>1
<1>3. task' = [task EXCEPT ![t] = k]
  BY <1>2
<1>4. CopyIsCovered(k)
  <2>1. CASE p = "down" /\ task[t].pc = "idle"
    <3>1. ("cursor" \in task[t].todo /\ k.cursor = NoCursor) \/ Usable(k.cursor)
      BY <1>1, <1>2, <2>1 DEF CopyIsCovered
    <3> QED BY <1>2, <2>1, <3>1 DEF CopyIsCovered
  <2>3. CASE p \in {"upledger", "upcursor"}
    BY <1>2, <2>3, DaysAreInt DEF CopyIsCovered
  <2> QED BY <2>1, <2>3
<1>5. RunCoversToday(k)
  BY <1>2 DEF RunCoversToday
<1> QED BY <1>3, <1>4, <1>5, OwnStep

\* The record a container leaves behind.
LEMMA GoneIs ==
    ASSUME TypeOK, NEW t \in Tasks
    PROVE  \E k \in TaskRecords :
             /\ Gone(t) = [task EXCEPT ![t] = k]
             /\ k.pc = "done" /\ k.today = task[t].today
<1> DEFINE n == [Fresh EXCEPT !.pc = "done", !.today = task[t].today]
<1>1. task[t].today \in Days \cup {NoCursor} /\ NoLedger \in Ledgers
  BY DEF TypeOK, TaskRecords, NoLedger, Ledgers
<1>2. n \in TaskRecords /\ n.pc = "done" /\ n.today = task[t].today
  BY <1>1 DEF Fresh, TaskRecords, Files
<1> QED BY <1>2 DEF Gone

LEMMA GoneStep ==
    ASSUME IInv, NEW t \in Tasks, task' = Gone(t), UNCHANGED <<tick, when, reported>>,
           remote' \in Stores, remote'.cursor = remote.cursor
    PROVE  IInv'
<1>1. PICK k \in TaskRecords : task' = [task EXCEPT ![t] = k] /\ k.pc = "done"
  BY GoneIs DEF IInv
<1>2. CopyIsCovered(k) /\ RunCoversToday(k)
  BY <1>1 DEF CopyIsCovered, RunCoversToday
<1> QED BY <1>1, <1>2, OwnStep

\* What a sync-down that fails leaves of the task's files.
LEMMA DownFailed ==
    ASSUME NEW t \in Tasks, SyncDownFails(t)
    PROVE  \E got \in SUBSET Days, cut \in SUBSET Days, c \in {task[t].cursor, Torn} :
              task' = [task EXCEPT ![t].todo = {}, ![t].cursor = c,
                                   ![t].ledger = Copied(t, got), ![t].torn = Cut(t, got, cut)]
<1>1. PICK got \in SUBSET {d \in Days : "ledger" \in task[t].todo /\ remote.ledger[d] # {}} :
         \E cut \in {{}} \cup {{d} : d \in got} :
         \E c \in {task[t].cursor} \cup {x \in {Torn} : "cursor" \in task[t].todo /\ cut = {}} :
            task' = [task EXCEPT ![t].todo = {}, ![t].cursor = c,
                                 ![t].ledger = Copied(t, got), ![t].torn = Cut(t, got, cut)]
  BY DEF SyncDownFails
<1>2. PICK cut \in {{}} \cup {{d} : d \in got} :
         \E c \in {task[t].cursor} \cup {x \in {Torn} : "cursor" \in task[t].todo /\ cut = {}} :
            task' = [task EXCEPT ![t].todo = {}, ![t].cursor = c,
                                 ![t].ledger = Copied(t, got), ![t].torn = Cut(t, got, cut)]
  BY <1>1
<1>3. got \in SUBSET Days /\ cut \in SUBSET Days
  BY <1>2
<1> QED BY <1>2, <1>3

LEMMA DownSteps ==
    ASSUME IInv, NEW t \in Tasks,
           Launch(t) \/ (\E f \in Files : SyncDown(t, f)) \/ SyncDownFails(t)
    PROVE  IInv'
<1>1. /\ task[t] \in TaskRecords /\ CopyIsCovered(task[t])
      /\ remote \in Stores
  BY TaskFacts
<1>2. CASE Launch(t)
  BY <1>1, <1>2, PcStep DEF Launch
<1>3. ASSUME NEW f \in Files, SyncDown(t, f) PROVE IInv'
  <2>1. PICK k \in TaskRecords :
           /\ k = [task[t] EXCEPT !.todo = @ \ {f},
                      !.cursor = IF f = "cursor" THEN remote.cursor ELSE @,
                      !.ledger = IF f = "ledger" THEN remote.ledger ELSE @,
                      !.torn = IF f = "ledger" THEN remote.torn ELSE @]
           /\ k.pc = "down" /\ k.todo = task[t].todo \ {f}
           /\ k.cursor = IF f = "cursor" THEN remote.cursor ELSE task[t].cursor
    <3> DEFINE n == [task[t] EXCEPT !.todo = @ \ {f},
                       !.cursor = IF f = "cursor" THEN remote.cursor ELSE @,
                       !.ledger = IF f = "ledger" THEN remote.ledger ELSE @,
                       !.torn = IF f = "ledger" THEN remote.torn ELSE @]
    <3>1. n \in TaskRecords /\ n.pc = "down" /\ n.todo = task[t].todo \ {f}
          /\ n.cursor = IF f = "cursor" THEN remote.cursor ELSE task[t].cursor
      BY <1>1, <1>3, DaysAreInt DEF SyncDown, TaskRecords, Stores
    <3> QED BY <3>1
  <2>2. task' = [task EXCEPT ![t] = k]
    BY <1>3, <2>1 DEF SyncDown
  <2>3. CopyIsCovered(k)
    <3>1. CASE f = "cursor"
      <4>1. k.cursor = remote.cursor /\ Usable(remote.cursor)
        BY <2>1, <3>1 DEF IInv
      <4> QED BY <4>1 DEF CopyIsCovered
    <3>2. CASE f # "cursor"
      <4>1. k.cursor = task[t].cursor /\ task[t].pc = "down"
            /\ ("cursor" \in task[t].todo => "cursor" \in k.todo)
        BY <1>3, <2>1, <3>2 DEF SyncDown
      <4> QED BY <1>1, <2>1, <4>1 DEF CopyIsCovered
    <3> QED BY <3>1, <3>2
  <2>4. RunCoversToday(k)
    BY <2>1 DEF RunCoversToday
  <2> QED BY <1>1, <1>3, <2>2, <2>3, <2>4, OwnStep DEF SyncDown
<1>4. CASE SyncDownFails(t)
  <2>1. PICK l \in Ledgers, n \in SUBSET Days, c \in {task[t].cursor, Torn} :
           task' = [task EXCEPT ![t].todo = {}, ![t].cursor = c, ![t].ledger = l, ![t].torn = n]
    <3>1. PICK got \in SUBSET Days, cut \in SUBSET Days, c \in {task[t].cursor, Torn} :
             task' = [task EXCEPT ![t].todo = {}, ![t].cursor = c,
                                  ![t].ledger = Copied(t, got), ![t].torn = Cut(t, got, cut)]
      BY <1>4, DownFailed
    <3>2. Copied(t, got) \in Ledgers /\ Cut(t, got, cut) \in SUBSET Days
      BY <1>1 DEF Copied, Cut, TaskRecords, Ledgers, Stores
    <3> QED BY <3>1, <3>2
  <2>2. PICK k \in TaskRecords :
           /\ k = [task[t] EXCEPT !.todo = {}, !.cursor = c, !.ledger = l, !.torn = n]
           /\ k.pc = "down" /\ k.cursor = c
    <3> DEFINE m == [task[t] EXCEPT !.todo = {}, !.cursor = c, !.ledger = l, !.torn = n]
    <3>1. m \in TaskRecords /\ m.pc = "down" /\ m.cursor = c
      BY <1>1, <1>4 DEF SyncDownFails, TaskRecords
    <3> QED BY <3>1
  <2>3. task' = [task EXCEPT ![t] = k]
    BY <2>1, <2>2
  <2>4. CopyIsCovered(k)
    <3>1. CASE c = Torn \/ c = NoCursor
      <4>1. k.cursor \notin Days
        BY <2>2, <3>1, DaysAreInt
      <4>2. DownFaults
        BY <1>4 DEF SyncDownFails
      <4> QED BY <4>1, <4>2 DEF CopyIsCovered, Usable
    <3>2. CASE c = task[t].cursor /\ c # NoCursor
      <4>1. Usable(c)
        BY <1>1, <1>4, <3>2 DEF CopyIsCovered, SyncDownFails
      <4> QED BY <2>2, <4>1 DEF CopyIsCovered
    <3> QED BY <2>1, <3>1, <3>2
  <2>5. RunCoversToday(k)
    BY <2>2 DEF RunCoversToday
  <2> QED BY <1>1, <1>4, <2>3, <2>4, <2>5, OwnStep DEF SyncDownFails
<1> QED BY <1>2, <1>3, <1>4

LEMMA StartRunStep ==
    ASSUME IInv, NEW r \in Runs, StartRun(r)
    PROVE  IInv'
<1>1. /\ task[r] \in TaskRecords /\ r \in Tasks /\ todayET \in Days
      /\ remote \in Stores
      /\ Usable(task[r].cursor)
  BY TaskFacts DEF Tasks, StartRun
<1>2. PICK k \in TaskRecords :
         /\ k = [task[r] EXCEPT !.pc = "fetch", !.today = todayET]
         /\ k.pc = "fetch" /\ k.today = todayET /\ k.cursor = task[r].cursor
  <2> DEFINE n == [task[r] EXCEPT !.pc = "fetch", !.today = todayET]
  <2>1. n \in TaskRecords /\ n.pc = "fetch" /\ n.today = todayET
        /\ n.cursor = task[r].cursor
    BY <1>1 DEF TaskRecords
  <2> QED BY <2>1
<1>3. task' = [task EXCEPT ![r] = k]
  BY <1>2 DEF StartRun
<1>4. CopyIsCovered(k) /\ RunCoversToday(k)
  BY <1>1, <1>2, DaysAreInt DEF CopyIsCovered, RunCoversToday
<1> QED BY <1>1, <1>3, <1>4, OwnStep DEF StartRun

\* A fetch leaves out nothing processed between the cursor and the run's day:
\* a list too old to hold a move is younger than the day's end.
LEMMA FetchCovers ==
    ASSUME LookbackSuffices, IInv, NEW r \in Runs, task[r].pc = "fetch",
           NEW missed \in SUBSET JustProcessed
    PROVE  BeforeDay(task[r].today)
               \subseteq Reported \cup (Fetchable(sinceDay(r)) \ missed)
<1>1. /\ Usable(task[r].cursor)
      /\ task[r].today \in Days /\ task[r].today <= todayET
  BY TaskFacts DEF Tasks, RunCoversToday
<1> SUFFICES ASSUME NEW x \in BeforeDay(task[r].today),
                    x \notin Reported
             PROVE  x \in Fetchable(sinceDay(r)) \ missed
  OBVIOUS
<1>2. x \in Processed /\ when[x] \div 2 < task[r].today /\ when[x] \in Int
  BY ClaimsAssumption DEF BeforeDay, utcDay, Processed, IInv, TypeOK, NotYet
<1>3. when[x] < tick - 1
  BY <1>1, <1>2, ClaimsAssumption DEF IInv, TypeOK, Days, todayET
<1>4. x \notin missed
  BY <1>2, <1>3, ClaimsAssumption DEF JustProcessed, IInv, TypeOK
<1>5. when[x] \div 2 >= sinceDay(r)
  <2>1. when[x] \div 2 \in Int /\ task[r].cursor \in Int
    <3>1. task[r].cursor \in Int
      BY DaysAreInt, TaskFacts DEF TaskRecords, Tasks
    <3>2. when[x] \div 2 \in Int
      BY <1>2
    <3> QED BY <3>1, <3>2
  <2>2. CASE task[r].cursor \notin Days
    <3>1. Lookback >= MaxDay /\ sinceDay(r) = task[r].today - Lookback
      BY <1>1, <2>2 DEF Usable, LookbackSuffices, sinceDay
    <3>2. when[x] >= 0
      BY <1>2 DEF IInv, TypeOK, Processed
    <3>3. task[r].today \in Int /\ task[r].today <= MaxDay
      BY <1>1 DEF Days
    <3> QED BY <1>2, <3>1, <3>2, <3>3, ClaimsAssumption
  <2>3. CASE task[r].cursor \in Days
    <3>1. Covered(task[r].cursor) /\ sinceDay(r) = task[r].cursor
      BY <1>1, <2>3 DEF Usable, sinceDay
    <3>2. ~(when[x] \div 2 < task[r].cursor)
      BY <1>2, <3>1 DEF Covered, BeforeDay, utcDay
    <3> QED BY <2>1, <3>1, <3>2
  <2> QED BY <2>2, <2>3
<1>6. x \in Fetchable(sinceDay(r))
  BY <1>2, <1>5 DEF Fetchable, utcDay
<1> QED BY <1>4, <1>6

LEMMA FetchStep ==
    ASSUME LookbackSuffices, IInv, NEW r \in Runs, Fetch(r)
    PROVE  IInv'
<1>1. /\ task[r] \in TaskRecords /\ r \in Tasks
      /\ remote \in Stores
      /\ Usable(task[r].cursor)
      /\ task[r].today \in Days /\ task[r].today <= todayET
  BY TaskFacts DEF Tasks, Fetch, RunCoversToday
<1>2. CASE task' = [task EXCEPT ![r].pc = "upledger"]
  BY <1>1, <1>2, PcStep DEF Fetch
<1>3. ASSUME NEW missed \in SUBSET JustProcessed,
             NEW b, b = Fetchable(sinceDay(r)) \ missed,
             task' = [task EXCEPT ![r].pc = IF b = {} THEN "cursor" ELSE "send",
                                  ![r].batch = b]
      PROVE  IInv'
  <2>1. BeforeDay(task[r].today) \subseteq Reported \cup b
    BY <1>3, FetchCovers DEF Fetch
  <2>2. b \subseteq Moves
    BY <1>3 DEF Fetchable, Processed
  <2>3. PICK k \in TaskRecords :
           /\ k = [task[r] EXCEPT !.pc = IF b = {} THEN "cursor" ELSE "send",
                                  !.batch = b]
           /\ k.pc = IF b = {} THEN "cursor" ELSE "send"
           /\ k.batch = b /\ k.cursor = task[r].cursor /\ k.today = task[r].today
    <3> DEFINE n == [task[r] EXCEPT !.pc = IF b = {} THEN "cursor" ELSE "send",
                                    !.batch = b]
    <3>1. /\ n \in TaskRecords
          /\ n.pc = IF b = {} THEN "cursor" ELSE "send"
          /\ n.batch = b /\ n.cursor = task[r].cursor /\ n.today = task[r].today
      BY <1>1, <2>2 DEF TaskRecords
    <3> QED BY <3>1
  <2>4. task' = [task EXCEPT ![r] = k]
    BY <1>3, <2>3
  <2>5. CopyIsCovered(k)
    BY <1>1, <2>3, DaysAreInt DEF CopyIsCovered
  <2>6. RunCoversToday(k)
    BY <1>1, <2>1, <2>3 DEF RunCoversToday, Covered
  <2> QED BY <1>1, <2>4, <2>5, <2>6, OwnStep DEF Fetch
<1> QED BY <1>2, <1>3 DEF Fetch

LEMMA SendStep ==
    ASSUME IInv, NEW r \in Runs, Send(r)
    PROVE  IInv'
<1>1. /\ task[r] \in TaskRecords /\ r \in Tasks
      /\ remote \in Stores
      /\ Usable(task[r].cursor)
      /\ task[r].today \in Days /\ task[r].today <= todayET
      /\ BeforeDay(task[r].today) \subseteq Reported \cup task[r].batch
  BY TaskFacts DEF Tasks, Send, RunCoversToday
<1>2. CASE task' = [task EXCEPT ![r].pc = "upledger"] /\ UNCHANGED reported
  BY <1>1, <1>2, PcStep DEF Send
<1>3. CASE /\ reported' = [reported EXCEPT ![r] = @ \cup task[r].batch]
           /\ task' = [task EXCEPT ![r].pc = "ledger"]
  <2>1. PICK k \in TaskRecords :
           /\ k = [task[r] EXCEPT !.pc = "ledger"]
           /\ k.pc = "ledger" /\ k.cursor = task[r].cursor /\ k.today = task[r].today
    <3> DEFINE n == [task[r] EXCEPT !.pc = "ledger"]
    <3>1. n \in TaskRecords /\ n.pc = "ledger" /\ n.cursor = task[r].cursor
          /\ n.today = task[r].today
      BY <1>1 DEF TaskRecords
    <3> QED BY <3>1
  <2>2. task' = [task EXCEPT ![r] = k]
    BY <1>3, <2>1
  <2>3. TypeOK /\ TypeOK'
    <3>1. TypeOK /\ task[r].batch \subseteq Moves
      BY <1>1 DEF IInv, TaskRecords
    <3> QED BY <1>1, <1>3, <2>2, <3>1 DEF TypeOK, Send
  <2>4. Forward
    BY <1>3, <2>3 DEF Send, Forward, TypeOK
  <2>5. CopyIsCovered(k)' /\ Usable(remote.cursor)'
    <3>1. CopyIsCovered(k)
      BY <1>1, <2>1, DaysAreInt DEF CopyIsCovered
    <3>2. remote'.cursor = remote.cursor
      BY DEF Send
    <3> QED BY <2>3, <2>4, <3>1, <3>2, CopyStable, RemoteStable
  <2>6. RunCoversToday(k)'
    <3>1. PICK d \in Days : d = task[r].today
      BY <1>1
    <3>2. d \in Int /\ d <= todayET
      BY <1>1, <3>1, DaysAreInt
    <3>3. BeforeDay(d)' \subseteq BeforeDay(d)
      BY <2>3, <2>4, <3>2, PastIsSettled
    <3>4. Reported \cup task[r].batch \subseteq Reported'
      <4>1. reported'[r] = reported[r] \cup task[r].batch
        BY <1>3, <2>3 DEF TypeOK
      <4> QED BY <2>4, <4>1, ReportsGrow DEF Reported
    <3>5. d <= todayET'
      <4>1. todayET \in Int /\ todayET' \in Int
        BY <2>3, ClaimsAssumption DEF todayET, TypeOK
      <4> QED BY <2>3, <2>4, <3>2, <4>1, TodayAdvances
    <3>6. Covered(d)'
      BY <1>1, <3>1, <3>3, <3>4, <3>5 DEF Covered
    <3>7. k.today = d /\ k.pc = "ledger"
      BY <2>1, <3>1
    <3> QED BY <3>6, <3>7 DEF RunCoversToday
  <2> QED BY <1>1, <2>2, <2>3, <2>4, <2>5, <2>6, OneTaskStep
<1> QED BY <1>2, <1>3 DEF Send

LEMMA EffectSteps ==
    ASSUME IInv, NEW r \in Runs, WriteLedger(r) \/ SaveCursor(r)
    PROVE  IInv'
<1>1. /\ task[r] \in TaskRecords /\ r \in Tasks
      /\ remote \in Stores
      /\ Usable(task[r].cursor)
      /\ task[r].today \in Days /\ Covered(task[r].today)
  BY TaskFacts DEF Tasks, WriteLedger, SaveCursor, RunCoversToday
<1>2. CASE WriteLedger(r)
  <2>1. PICK l \in Ledgers, w \in SUBSET Days :
           \/ task' = [task EXCEPT ![r].pc = "cursor", ![r].ledger = l, ![r].torn = w]
           \/ task' = [task EXCEPT ![r].pc = "cursor"]
    <3> DEFINE n == [task[r].ledger EXCEPT ![task[r].today] = task[r].batch]
               w == task[r].torn \ {task[r].today}
    <3>1. n \in Ledgers /\ w \in SUBSET Days
      BY <1>1 DEF TaskRecords, Ledgers
    <3>2. \/ task' = [task EXCEPT ![r].pc = "cursor", ![r].ledger = n, ![r].torn = w]
          \/ task' = [task EXCEPT ![r].pc = "cursor"]
      BY <1>2 DEF WriteLedger
    <3> QED BY <3>1, <3>2
  <2>2. PICK k \in TaskRecords : /\ task' = [task EXCEPT ![r] = k]
                                 /\ k.pc = "cursor" /\ k.cursor = task[r].cursor
                                 /\ k.today = task[r].today
    <3> DEFINE n == [task[r] EXCEPT !.pc = "cursor", !.ledger = l, !.torn = w]
               m == [task[r] EXCEPT !.pc = "cursor"]
    <3>1. n \in TaskRecords /\ n.pc = "cursor" /\ n.cursor = task[r].cursor
          /\ n.today = task[r].today
      BY <1>1 DEF TaskRecords
    <3>2. m \in TaskRecords /\ m.pc = "cursor" /\ m.cursor = task[r].cursor
          /\ m.today = task[r].today
      BY <1>1 DEF TaskRecords
    <3> QED BY <2>1, <3>1, <3>2
  <2>3. CopyIsCovered(k) /\ RunCoversToday(k)
    BY <1>1, <2>2, DaysAreInt DEF CopyIsCovered, RunCoversToday
  <2> QED BY <1>1, <1>2, <2>2, <2>3, OwnStep DEF WriteLedger
<1>3. CASE SaveCursor(r)
  <2>1. CASE task' = [task EXCEPT ![r].pc = "upledger"]
    BY <1>1, <1>3, <2>1, PcStep DEF SaveCursor
  <2>2. CASE task' = [task EXCEPT ![r].pc = "upledger", ![r].cursor = task[r].today]
    <3>1. PICK k \in TaskRecords : /\ task' = [task EXCEPT ![r] = k]
                                   /\ k.pc = "upledger" /\ k.cursor = task[r].today
      <4> DEFINE n == [task[r] EXCEPT !.pc = "upledger", !.cursor = task[r].today]
      <4>1. n \in TaskRecords /\ n.pc = "upledger" /\ n.cursor = task[r].today
        BY <1>1 DEF TaskRecords
      <4> QED BY <2>2, <4>1
    <3>2. CopyIsCovered(k) /\ RunCoversToday(k)
      BY <1>1, <3>1, DaysAreInt DEF CopyIsCovered, Usable, RunCoversToday
    <3> QED BY <1>1, <1>3, <3>1, <3>2, OwnStep DEF SaveCursor
  <2> QED BY <1>3, <2>1, <2>2 DEF SaveCursor
<1> QED BY <1>2, <1>3

LEMMA UpSteps ==
    ASSUME IInv, NEW t \in Tasks,
           OtherRun(t) \/ UploadLedger(t) \/ UploadCursor(t) \/ Crash(t)
    PROVE  IInv'
<1>1. /\ task[t] \in TaskRecords
      /\ remote \in Stores
      /\ ~Crash(t) => Usable(task[t].cursor)
  BY TaskFacts DEF OtherRun, UploadLedger, UploadCursor
<1>2. CASE OtherRun(t)
  <2>1. Usable(task[t].cursor)
    BY <1>2, TaskFacts DEF OtherRun
  <2> QED BY <1>1, <1>2, <2>1, PcStep DEF OtherRun
<1>3. CASE UploadLedger(t)
  <2>1. Usable(task[t].cursor)
    BY <1>3, TaskFacts DEF UploadLedger
  <2>2. PICK k \in 0..(MaxDay + 1) :
           /\ remote' = [remote EXCEPT !.ledger = Uploaded(t, k), !.torn = TornAfter(t, k)]
           /\ task' = [task EXCEPT ![t].pc = "upcursor"] \/ task' = Gone(t)
    BY <1>3 DEF UploadLedger
  <2>3. Uploaded(t, k) \in Ledgers /\ TornAfter(t, k) \in SUBSET Days
    BY <1>1 DEF Uploaded, TornAfter, Ledgers, TaskRecords, Stores
  <2>4. remote' \in Stores /\ remote'.cursor = remote.cursor
    BY <1>1, <2>2, <2>3 DEF Stores
  <2>6. UNCHANGED <<tick, when, reported>>
    BY <1>3 DEF UploadLedger
  <2> QED BY <2>1, <2>2, <2>4, <2>6, PcStep, GoneStep
<1>4. CASE UploadCursor(t)
  <2>1. Usable(task[t].cursor)
    BY <1>4, TaskFacts DEF UploadCursor
  <2>2. CASE UNCHANGED remote
    BY <1>1, <1>4, <2>2, GoneStep DEF UploadCursor
  <2>3. CASE /\ task[t].cursor # NoCursor
             /\ remote' = [remote EXCEPT !.cursor = task[t].cursor]
    <3>0. task[t].cursor \in Days \cup {Torn}
      BY <1>1, <2>3 DEF TaskRecords
    <3>1. remote' \in Stores
          /\ remote'.cursor = task[t].cursor
      BY <1>1, <2>3, <3>0 DEF Stores
    <3>2. PICK k \in TaskRecords : task' = [task EXCEPT ![t] = k] /\ k.pc = "done"
      BY <1>4, GoneIs DEF IInv, UploadCursor
    <3>3. TypeOK /\ TypeOK' /\ Forward
      <4>1. UNCHANGED <<tick, when, reported>>
        BY <1>4 DEF UploadCursor
      <4> QED BY <3>1, <3>2, <4>1, StillForward DEF IInv, TypeOK
    <3>4. Usable(remote.cursor)'
      <4>1. PICK c \in Int : c = task[t].cursor
        BY <3>0, DaysAreInt
      <4>2. Usable(c)'
        BY <2>1, <3>3, <4>1, CoveredStable DEF Usable
      <4> QED BY <3>1, <4>1, <4>2 DEF Usable, Covered, BeforeDay
    <3>5. CopyIsCovered(k)' /\ RunCoversToday(k)'
      BY <3>2 DEF CopyIsCovered, RunCoversToday
    <3> QED BY <3>2, <3>3, <3>4, <3>5, OneTaskStep
  <2> QED BY <1>4, <2>2, <2>3 DEF UploadCursor
<1>5. CASE Crash(t)
  BY <1>1, <1>5, GoneStep DEF Crash
<1> QED BY <1>2, <1>3, <1>4, <1>5

-----------------------------------------------------------------------------
(* The theorems.                                                           *)

LEMMA InitIInv == Init => IInv
<1> SUFFICES ASSUME Init PROVE IInv
  OBVIOUS
<1>1. TypeOK
  <2>1. NoLedger \in Ledgers /\ 0 \in Days
    BY ClaimsAssumption DEF NoLedger, Ledgers, Days
  <2>2. Fresh \in TaskRecords
    BY <2>1 DEF Fresh, TaskRecords
  <2> QED BY <2>1, <2>2, ClaimsAssumption DEF Init, TypeOK, Stores, NotYet
<1>2. Usable(remote.cursor)
  <2>1. remote.cursor = 0 /\ 0 \in Days /\ todayET = 0 /\ Processed = {}
    BY ClaimsAssumption DEF Init, Days, todayET, Processed
  <2> QED BY <2>1 DEF Usable, Covered, BeforeDay
<1>3. \A t \in Tasks : CopyIsCovered(task[t]) /\ RunCoversToday(task[t])
  BY DEF Init, Fresh, CopyIsCovered, RunCoversToday, Files
<1> QED BY <1>1, <1>2, <1>3 DEF IInv, Tasks

LEMMA NextIInv ==
    ASSUME LookbackSuffices, IInv, [Next]_vars
    PROVE  IInv'
<1>1. CASE UNCHANGED vars
  <2>1. TypeOK /\ TypeOK'
    BY <1>1 DEF IInv, vars, TypeOK
  <2> QED BY <1>1, <2>1, StillForward, NoTaskStep DEF vars
<1>2. CASE Next
  <2>1. CASE Tick \/ \E x \in Moves : Process(x)
    BY <2>1, ClockSteps
  <2>2. ASSUME NEW r \in Runs, ClaimsStep(r) PROVE IInv'
    BY <2>2, StartRunStep, FetchStep, SendStep, EffectSteps DEF ClaimsStep
  <2>3. ASSUME NEW t \in Tasks, OtherRun(t) \/ SyncStep(t) PROVE IInv'
    BY <2>3, DownSteps, UpSteps DEF SyncStep
  <2> QED BY <1>2, <2>1, <2>2, <2>3 DEF Next
<1> QED BY <1>1, <1>2

\* The invariant holds: a stored or copied cursor, and the day a run is about
\* to store, has nothing unreported before it.  A run that lost its cursor to
\* a failed sync-down has to look back far enough.
THEOREM CursorsAreCovered ==
    ASSUME LookbackSuffices PROVE Spec => []IInv
<1>1. IInv /\ [Next]_vars => IInv'
  BY NextIInv
<1> QED BY <1>1, InitIInv, PTL DEF Spec

\* No move falls behind the stored cursor without having been reported, however
\* many tasks overlap, crash, fail to send, to write or to upload (claims/run.go
\* with jobreport.Emit, entrypoint.sh and statesync.Up).
THEOREM NoMoveIsLost ==
    ASSUME LookbackSuffices PROVE Spec => []NoMoveLost
<1>1. IInv => NoMoveLost
  <2> SUFFICES ASSUME IInv PROVE NoMoveLost
    OBVIOUS
  <2>1. CASE remote.cursor \in Days
    BY <2>1 DEF IInv, Usable, Covered, NoMoveLost
  <2>2. CASE remote.cursor = Torn
    BY <2>2, TornHidesNothing DEF IInv, TypeOK, NoMoveLost
  <2> QED BY <2>1, <2>2 DEF IInv, TypeOK, Stores
<1> QED BY <1>1, CursorsAreCovered, PTL

-----------------------------------------------------------------------------
(* The ledger.  Runs take turns, so a day's file is written once and every     *)
(* upload of it, of whatever age, says the same.                               *)

Busy(k) == k.pc \notin {"idle", "done"}

\* One run at a time, each with a day of its own.
RunsTakeTurns ==
    /\ \A r, s \in Runs : r # s /\ Busy(task[r]) => ~Busy(task[s])
    /\ \A r \in Runs : /\ task[r].today <= todayET
                       /\ task[r].pc \in {"idle", "down"} => task[r].today = NoCursor
                       /\ Busy(task[r]) /\ task[r].pc # "down" => task[r].today # NoCursor
                       /\ task[r].pc = "down" => \A s \in Runs \ {r} : task[s].today < todayET
    /\ \A r, s \in Runs : r # s /\ task[r].today = task[s].today => task[r].today = NoCursor

\* A run's own day, from the write of its file to the upload.
OwnsDay(k, d) == k.today = d /\ k.pc \in {"cursor", "upledger"}

\* A stored file is of a run that uploaded it, and a task's copy is that file,
\* older than that file, or the run's own.
LedgersAgree ==
    /\ \A d \in Days : remote.ledger[d] # {} =>
          \E r \in Runs : task[r].today = d /\ task[r].pc \in {"upcursor", "done"}
    /\ \A t \in Tasks, d \in Days : task[t].pc # "done" =>
          \/ task[t].ledger[d] \in {{}, remote.ledger[d]}
          \/ t \in Runs /\ OwnsDay(task[t], d)

InLedger == {x \in Moves : \E d \in Days : x \in remote.ledger[d]}

\* A cursor may be stored: what lies before it is in the ledger.
Kept(c) == BeforeDay(c) \subseteq InLedger

\* What a task's cursor leaves behind is in the ledger, or in the file it is
\* about to upload; and what a run is to write is all that is missing.
RecordIsKept(t, k) ==
    /\ k.pc # "done" =>
         \/ k.cursor \notin Days \/ Kept(k.cursor)
         \/ /\ t \in Runs /\ k.pc = "upledger" /\ k.cursor = k.today /\ k.today \in Days
            /\ BeforeDay(k.today) \subseteq InLedger \cup k.ledger[k.today]
    /\ t \in Runs =>
         /\ k.pc \in {"send", "ledger"} => BeforeDay(k.today) \subseteq InLedger \cup k.batch
         /\ k.pc = "cursor" => BeforeDay(k.today) \subseteq InLedger \cup k.ledger[k.today]

LedgerInv == Kept(remote.cursor) /\ \A t \in Tasks : RecordIsKept(t, task[t])

LEMMA NextForward == TypeOK /\ [Next]_vars => Forward
<1> SUFFICES ASSUME TypeOK, [Next]_vars PROVE Forward
  OBVIOUS
<1>1. CASE Tick
  BY <1>1 DEF Tick, TypeOK, Forward
<1>2. CASE \E x \in Moves : Process(x)
  BY <1>2 DEF Process, TypeOK, Forward
<1>3. ASSUME NEW r \in Runs, Send(r) PROVE Forward
  BY <1>3 DEF Send, TypeOK, Forward
<1>4. CASE UNCHANGED <<tick, when, reported>>
  BY <1>4, StillForward
<1>5. UNCHANGED vars => UNCHANGED <<tick, when, reported>>
  BY DEF vars
<1>6. \A r \in Runs : ClaimsStep(r) => Send(r) \/ UNCHANGED <<tick, when, reported>>
  BY DEF ClaimsStep, StartRun, Fetch, WriteLedger, SaveCursor
<1>7. \A t \in Tasks : OtherRun(t) \/ SyncStep(t) => UNCHANGED <<tick, when, reported>>
  BY DEF OtherRun, SyncStep, Launch, SyncDown, SyncDownFails, UploadLedger, UploadCursor, Crash
<1> QED BY <1>1, <1>2, <1>3, <1>4, <1>5, <1>6, <1>7 DEF Next

TodayIsInt == todayET \in Int /\ todayET' \in Int /\ todayET' >= todayET /\ todayET >= 0

LEMMA TodayIs == ASSUME TypeOK, TypeOK', Forward PROVE TodayIsInt
  BY TodayAdvances, ClaimsAssumption DEF TypeOK, todayET, TodayIsInt

\* What a step does to the record of the task that takes it.
Stays(t) == task'[t].today = task[t].today /\ task'[t].ledger = task[t].ledger
            /\ task'[t].batch = task[t].batch
Waits(t) == task'[t].cursor = task[t].cursor /\ remote' = remote

Launched(t) ==
    /\ task[t].pc = "idle" /\ task'[t].pc = "down" /\ Stays(t) /\ Waits(t)
    /\ t \in Runs => \/ Manual
                      \/ \A s \in Runs : ~Busy(task[s]) /\ task[s].today # todayET
Synced(t) ==
    /\ task[t].pc = "down" /\ task'[t].pc = "down" /\ remote' = remote
    /\ task'[t].today = task[t].today /\ task'[t].batch = task[t].batch
    /\ task'[t].cursor \in {task[t].cursor, remote.cursor, Torn}
    /\ \A d \in Days : task'[t].ledger[d] \in {task[t].ledger[d], remote.ledger[d]}
Started(t) ==
    /\ t \in Runs /\ task[t].pc = "down" /\ task'[t].pc = "fetch" /\ Waits(t)
    /\ task'[t].today = todayET /\ task'[t].ledger = task[t].ledger
Fetched(t) ==
    /\ t \in Runs /\ task[t].pc = "fetch" /\ Waits(t)
    /\ task'[t].today = task[t].today /\ task'[t].ledger = task[t].ledger
    /\ \E missed \in SUBSET JustProcessed : task'[t].batch = Fetchable(sinceDay(t)) \ missed
    /\ task'[t].pc = IF task'[t].batch = {} THEN "cursor" ELSE "send"
Sent(t) == t \in Runs /\ task[t].pc = "send" /\ task'[t].pc = "ledger" /\ Stays(t) /\ Waits(t)
GoesUp(t) ==
    /\ \/ t \in Runs /\ task[t].pc \in {"fetch", "send", "cursor"}
       \/ t \in Others /\ task[t].pc = "down"
    /\ task'[t].pc = "upledger" /\ Stays(t) /\ Waits(t)
Wrote(t) ==
    /\ t \in Runs /\ task[t].pc = "ledger" /\ task'[t].pc = "cursor" /\ Waits(t)
    /\ task'[t].today = task[t].today /\ task'[t].batch = task[t].batch
    /\ \/ LedgerFaults
       \/ task'[t].ledger = [task[t].ledger EXCEPT ![task[t].today] = task[t].batch]
Saved(t) ==
    /\ t \in Runs /\ task[t].pc = "cursor" /\ task'[t].pc = "upledger" /\ Stays(t)
    /\ task'[t].cursor = task[t].today /\ remote' = remote
LedgerUp(t) ==
    /\ task[t].pc = "upledger" /\ task'[t].today = task[t].today
    /\ remote'.cursor = remote.cursor
    /\ \E k \in Int : /\ remote'.ledger = Uploaded(t, k)
                      /\ \/ task'[t].pc = "done"
                         \/ /\ task'[t].pc = "upcursor" /\ k = MaxDay + 1
                            /\ Stays(t) /\ task'[t].cursor = task[t].cursor
CursorUp(t) ==
    /\ task[t].pc = "upcursor" /\ task'[t].pc = "done" /\ task'[t].today = task[t].today
    /\ remote'.ledger = remote.ledger
    /\ remote'.cursor = remote.cursor
         \/ (remote'.cursor = task[t].cursor /\ task[t].cursor # NoCursor)
Crashed(t) ==
    /\ Busy(task[t]) /\ task'[t].pc = "done" /\ task'[t].today = task[t].today
    /\ remote' = remote

Moved(t) ==
    /\ UNCHANGED <<tick, when>> /\ \A s \in Tasks \ {t} : task'[s] = task[s]
    /\ \/ Launched(t) \/ Synced(t) \/ Started(t) \/ Fetched(t) \/ Sent(t) \/ GoesUp(t)
       \/ Wrote(t) \/ Saved(t) \/ LedgerUp(t) \/ CursorUp(t) \/ Crashed(t)

\* A change of the program counter alone.
LEMMA OnlyPc ==
    ASSUME TypeOK, NEW t \in Tasks, NEW p, task' = [task EXCEPT ![t].pc = p]
    PROVE  /\ \A s \in Tasks \ {t} : task'[s] = task[s]
           /\ task'[t].pc = p /\ Stays(t) /\ task'[t].cursor = task[t].cursor
  BY DEF TypeOK, TaskRecords, Stays

\* A container that stops leaves its day behind.
LEMMA OnlyGone ==
    ASSUME TypeOK, NEW t \in Tasks, task' = Gone(t)
    PROVE  /\ \A s \in Tasks \ {t} : task'[s] = task[s]
           /\ task'[t].pc = "done" /\ task'[t].today = task[t].today
<1>1. PICK k \in TaskRecords : /\ task' = [task EXCEPT ![t] = k]
                               /\ k.pc = "done" /\ k.today = task[t].today
  BY GoneIs
<1> QED BY <1>1 DEF TypeOK

LEMMA SyncMoves ==
    ASSUME TypeOK, NEW t \in Tasks, OtherRun(t) \/ SyncStep(t)
    PROVE  Moved(t)
<1>1. CASE Launch(t)
  BY <1>1, OnlyPc DEF Launch, Moved, Launched, Waits, Busy
<1>2. ASSUME NEW f \in Files, SyncDown(t, f) PROVE Moved(t)
  <2>1. /\ \A s \in Tasks \ {t} : task'[s] = task[s]
        /\ task[t].pc = "down" /\ task'[t].pc = "down"
        /\ task'[t].today = task[t].today /\ task'[t].batch = task[t].batch
        /\ task'[t].cursor \in {task[t].cursor, remote.cursor}
        /\ task'[t].ledger \in {task[t].ledger, remote.ledger}
    BY <1>2 DEF SyncDown, TypeOK, TaskRecords
  <2> QED BY <1>2, <2>1 DEF SyncDown, Moved, Synced
<1>3. CASE SyncDownFails(t)
  <2>1. PICK got \in SUBSET Days, cut \in SUBSET Days, c \in {task[t].cursor, Torn} :
           task' = [task EXCEPT ![t].todo = {}, ![t].cursor = c,
                                ![t].ledger = Copied(t, got), ![t].torn = Cut(t, got, cut)]
    BY <1>3, DownFailed
  <2>2. \A d \in Days : Copied(t, got)[d] \in {task[t].ledger[d], remote.ledger[d]}
    BY DEF Copied
  <2>3. /\ \A s \in Tasks \ {t} : task'[s] = task[s]
        /\ task[t].pc = "down" /\ task'[t].pc = "down"
        /\ task'[t].today = task[t].today /\ task'[t].batch = task[t].batch
        /\ task'[t].cursor = c /\ task'[t].ledger = Copied(t, got)
    BY <1>3, <2>1 DEF SyncDownFails, TypeOK, TaskRecords
  <2> QED BY <1>3, <2>1, <2>2, <2>3 DEF SyncDownFails, Moved, Synced
<1>4. CASE UploadLedger(t)
  <2>1. PICK k \in 0..(MaxDay + 1) :
           /\ remote' = [remote EXCEPT !.ledger = Uploaded(t, k), !.torn = TornAfter(t, k)]
           /\ \/ k = MaxDay + 1 /\ task' = [task EXCEPT ![t].pc = "upcursor"]
              \/ task' = Gone(t)
    BY <1>4 DEF UploadLedger
  <2>2. remote'.ledger = Uploaded(t, k) /\ remote'.cursor = remote.cursor /\ k \in Int
    BY <2>1 DEF TypeOK, Stores
  <2>3. /\ task[t].pc = "upledger" /\ UNCHANGED <<tick, when>>
        /\ \A s \in Tasks \ {t} : task'[s] = task[s]
        /\ task'[t].today = task[t].today
        /\ \/ task'[t].pc = "done"
           \/ /\ task'[t].pc = "upcursor" /\ k = MaxDay + 1
              /\ Stays(t) /\ task'[t].cursor = task[t].cursor
    <3>1. CASE k = MaxDay + 1 /\ task' = [task EXCEPT ![t].pc = "upcursor"]
      BY <1>4, <3>1, OnlyPc DEF UploadLedger, Stays
    <3>2. CASE task' = Gone(t)
      BY <1>4, <3>2, OnlyGone DEF UploadLedger
    <3> QED BY <2>1, <3>1, <3>2
  <2>4. LedgerUp(t)
    BY <2>2, <2>3 DEF LedgerUp
  <2> QED BY <2>3, <2>4 DEF Moved
<1>5. CASE UploadCursor(t)
  <2>1. task' = Gone(t)
    BY <1>5 DEF UploadCursor
  <2>2. /\ remote'.ledger = remote.ledger
        /\ remote'.cursor = remote.cursor
             \/ (remote'.cursor = task[t].cursor /\ task[t].cursor # NoCursor)
    BY <1>5 DEF UploadCursor, TypeOK, Stores
  <2> QED BY <1>5, <2>1, <2>2, OnlyGone DEF UploadCursor, Moved, CursorUp
<1>6. CASE Crash(t)
  BY <1>6, OnlyGone DEF Crash, Moved, Crashed, Busy
<1>7. CASE OtherRun(t)
  BY <1>7, OnlyPc DEF OtherRun, Moved, GoesUp, Waits
<1> QED BY <1>1, <1>2, <1>3, <1>4, <1>5, <1>6, <1>7 DEF SyncStep

LEMMA ClaimsMoves ==
    ASSUME TypeOK, NEW t \in Runs, ClaimsStep(t)
    PROVE  Moved(t)
<1>0. t \in Tasks /\ task[t] \in TaskRecords
  BY DEF Tasks, TypeOK
<1>1. CASE StartRun(t)
  <2>1. /\ \A s \in Tasks \ {t} : task'[s] = task[s]
        /\ task'[t].pc = "fetch" /\ task'[t].today = todayET
        /\ task'[t].ledger = task[t].ledger /\ task'[t].cursor = task[t].cursor
    BY <1>0, <1>1 DEF StartRun, TypeOK, TaskRecords
  <2> QED BY <1>1, <2>1 DEF StartRun, Moved, Started, Waits
<1>2. ASSUME NEW missed \in SUBSET JustProcessed,
             NEW b, b = Fetchable(sinceDay(t)) \ missed, Fetch(t),
             task' = [task EXCEPT ![t].pc = IF b = {} THEN "cursor" ELSE "send", ![t].batch = b]
      PROVE  Moved(t)
  <2>1. /\ \A s \in Tasks \ {t} : task'[s] = task[s]
        /\ task'[t].pc = (IF b = {} THEN "cursor" ELSE "send") /\ task'[t].batch = b
        /\ task'[t].ledger = task[t].ledger /\ task'[t].cursor = task[t].cursor
        /\ task'[t].today = task[t].today
    BY <1>0, <1>2 DEF TypeOK, TaskRecords
  <2>2. Fetched(t)
    BY <1>2, <2>1 DEF Fetch, Fetched, Waits
  <2> QED BY <1>2, <2>1, <2>2 DEF Fetch, Moved
<1>3. CASE Fetch(t) /\ task' = [task EXCEPT ![t].pc = "upledger"]
  BY <1>0, <1>3, OnlyPc DEF Fetch, Moved, GoesUp, Waits
<1>4. CASE Send(t)
  <2>1. PICK p \in {"ledger", "upledger"} : task' = [task EXCEPT ![t].pc = p]
    BY <1>4 DEF Send
  <2> QED BY <1>0, <1>4, <2>1, OnlyPc DEF Send, Moved, Sent, GoesUp, Waits
<1>5. CASE WriteLedger(t)
  <2>1. CASE task' = [task EXCEPT ![t].pc = "cursor",
                                  ![t].ledger[task[t].today] = task[t].batch,
                                  ![t].torn = @ \ {task[t].today}]
    <3>1. /\ \A s \in Tasks \ {t} : task'[s] = task[s]
          /\ task'[t].pc = "cursor" /\ task'[t].batch = task[t].batch
          /\ task'[t].ledger = [task[t].ledger EXCEPT ![task[t].today] = task[t].batch]
          /\ task'[t].cursor = task[t].cursor /\ task'[t].today = task[t].today
      BY <1>0, <2>1 DEF TypeOK, TaskRecords
    <3> QED BY <1>5, <3>1 DEF WriteLedger, Moved, Wrote, Waits
  <2>2. CASE LedgerFaults /\ task' = [task EXCEPT ![t].pc = "cursor"]
    BY <1>0, <1>5, <2>2, OnlyPc DEF WriteLedger, Moved, Wrote, Waits, Stays
  <2> QED BY <1>5, <2>1, <2>2 DEF WriteLedger
<1>6. CASE SaveCursor(t)
  <2>1. CASE task' = [task EXCEPT ![t].pc = "upledger", ![t].cursor = task[t].today]
    <3>1. /\ \A s \in Tasks \ {t} : task'[s] = task[s]
          /\ task'[t].pc = "upledger" /\ Stays(t) /\ task'[t].cursor = task[t].today
      BY <1>0, <2>1 DEF TypeOK, TaskRecords, Stays
    <3> QED BY <1>6, <3>1 DEF SaveCursor, Moved, Saved
  <2>2. CASE task' = [task EXCEPT ![t].pc = "upledger"]
    BY <1>0, <1>6, <2>2, OnlyPc DEF SaveCursor, Moved, GoesUp, Waits
  <2> QED BY <1>6, <2>1, <2>2 DEF SaveCursor
<1> QED BY <1>1, <1>2, <1>3, <1>4, <1>5, <1>6 DEF ClaimsStep, Fetch

\* A step is the clock's, Fantrax's, a task's or none.
LEMMA NextMoves ==
    ASSUME TypeOK, [Next]_vars
    PROVE  UNCHANGED <<remote, task>> \/ \E t \in Tasks : Moved(t)
<1>1. ASSUME NEW r \in Runs, ClaimsStep(r) PROVE \E t \in Tasks : Moved(t)
  BY <1>1, ClaimsMoves DEF Tasks
<1>2. ASSUME NEW t \in Tasks, OtherRun(t) \/ SyncStep(t) PROVE \E s \in Tasks : Moved(s)
  BY <1>2, SyncMoves
<1>3. Tick \/ (\E x \in Moves : Process(x)) \/ UNCHANGED vars => UNCHANGED <<remote, task>>
  BY DEF Tick, Process, vars
<1> QED BY <1>1, <1>2, <1>3 DEF Next

LEMMA TurnsNext ==
    ASSUME ~Manual, TypeOK, TypeOK', Forward, RunsTakeTurns, NEW t \in Tasks, Moved(t)
    PROVE  RunsTakeTurns'
<1> USE DEF Busy
<1>1. TodayIsInt /\ todayET' = todayET
  BY TodayIs DEF Moved, todayET
<1>2. \A r \in Runs : task[r].today \in Int
  BY DaysAreInt DEF TypeOK, TaskRecords, Tasks
<1>3. \A s \in Runs : s # t => task'[s] = task[s]
  BY DEF Moved, Tasks
<1>4. CASE t \notin Runs
  BY <1>1, <1>3, <1>4 DEF RunsTakeTurns
<1>5. CASE t \in Runs /\ Launched(t)
  <2>1. /\ task[t].pc = "idle" /\ task'[t].pc = "down" /\ task'[t].today = task[t].today
        /\ \A s \in Runs : ~Busy(task[s]) /\ task[s].today # todayET
    BY <1>5 DEF Launched, Stays
  <2>2. task[t].today = NoCursor /\ \A s \in Runs : task[s].today < todayET
    BY <1>1, <1>2, <1>5, <2>1 DEF RunsTakeTurns, TodayIsInt
  <2> QED BY <1>1, <1>3, <1>5, <2>1, <2>2 DEF RunsTakeTurns
<1>6. CASE t \in Runs /\ Started(t)
  <2>1. task[t].pc = "down" /\ task'[t].pc = "fetch" /\ task'[t].today = todayET
    BY <1>6 DEF Started
  <2>2. \A s \in Runs \ {t} : ~Busy(task[s]) /\ task[s].today < todayET
    BY <1>6, <2>1 DEF RunsTakeTurns
  <2>3. todayET # NoCursor /\ todayET <= todayET /\ \A s \in Runs \ {t} : task[s].today # todayET
    BY <1>1, <1>2, <2>2 DEF TodayIsInt, NoCursor
  <2> QED BY <1>1, <1>3, <1>6, <2>1, <2>2, <2>3 DEF RunsTakeTurns
<1>7. CASE t \in Runs /\ Busy(task[t]) /\ task'[t].today = task[t].today
            /\ task'[t].pc # "idle" /\ (task[t].pc = "down" <=> task'[t].pc = "down")
  BY <1>1, <1>3, <1>7 DEF RunsTakeTurns
<1>8. CASE t \in Runs /\ Crashed(t)
  <2>1. task'[t].pc = "done" /\ task'[t].today = task[t].today /\ Busy(task[t])
    BY <1>8 DEF Crashed
  <2> QED BY <1>1, <1>3, <1>8, <2>1 DEF RunsTakeTurns
<1>9. t \in Runs => t \notin Others
  BY ClaimsAssumption
<1>10. t \in Runs =>
         \/ Launched(t) \/ Started(t) \/ Crashed(t)
         \/ /\ Busy(task[t]) /\ task'[t].today = task[t].today /\ task'[t].pc # "idle"
            /\ (task[t].pc = "down" <=> task'[t].pc = "down")
  BY <1>9 DEF Moved, Synced, Fetched, Sent, GoesUp, Wrote, Saved, LedgerUp, CursorUp, Stays
<1> QED BY <1>4, <1>5, <1>6, <1>7, <1>8, <1>10

\* The day a run owns has no file yet.
LEMMA OwnDayIsFree ==
    ASSUME RunsTakeTurns, LedgersAgree, NEW r \in Runs, NEW d \in Days, OwnsDay(task[r], d)
    PROVE  remote.ledger[d] = {}
<1> SUFFICES ASSUME remote.ledger[d] # {} PROVE FALSE
  OBVIOUS
<1>1. PICK s \in Runs : task[s].today = d /\ task[s].pc \in {"upcursor", "done"}
  BY DEF LedgersAgree
<1>2. s # r /\ task[s].today = task[r].today
  BY <1>1 DEF OwnsDay
<1> QED BY <1>1, <1>2, DaysAreInt DEF RunsTakeTurns

\* What an upload does to the stored files: the day the task owns may get its
\* file, every other stays as it is.
LEMMA UploadAdds ==
    ASSUME TypeOK, RunsTakeTurns, LedgersAgree, NEW t \in Tasks, LedgerUp(t), NEW d \in Days
    PROVE  \/ remote'.ledger[d] = remote.ledger[d]
           \/ /\ t \in Runs /\ OwnsDay(task[t], d) /\ remote.ledger[d] = {}
              /\ remote'.ledger[d] = task[t].ledger[d]
<1>1. PICK k \in Int : remote'.ledger = Uploaded(t, k)
  BY DEF LedgerUp
<1>2. remote'.ledger[d] \in {remote.ledger[d], task[t].ledger[d]}
      /\ (task[t].ledger[d] = {} => remote'.ledger[d] = remote.ledger[d])
  BY <1>1 DEF Uploaded
<1>3. task[t].pc = "upledger"
  BY DEF LedgerUp
<1>4. CASE task[t].ledger[d] \in {{}, remote.ledger[d]}
  BY <1>2, <1>4
<1>5. CASE t \in Runs /\ OwnsDay(task[t], d)
  BY <1>2, <1>5, OwnDayIsFree
<1> QED BY <1>3, <1>4, <1>5 DEF LedgersAgree

\* The stored ledger never loses a move.
LEMMA LedgerGrows ==
    ASSUME TypeOK, RunsTakeTurns, LedgersAgree, NEW t \in Tasks, Moved(t)
    PROVE  /\ InLedger \subseteq InLedger'
           /\ LedgerUp(t) \/ remote'.ledger = remote.ledger
<1>1. LedgerUp(t) \/ remote'.ledger = remote.ledger
  BY DEF Moved, Launched, Synced, Started, Fetched, Sent, GoesUp, Wrote, Saved, CursorUp,
         Crashed, Waits
<1>2. \A d \in Days : remote.ledger[d] = {} \/ remote'.ledger[d] = remote.ledger[d]
  BY <1>1, UploadAdds
<1> QED BY <1>1, <1>2 DEF InLedger

LEMMA AgreeNext ==
    ASSUME ~LedgerFaults, TypeOK, TypeOK', RunsTakeTurns, RunsTakeTurns', LedgersAgree,
           NEW t \in Tasks, Moved(t)
    PROVE  LedgersAgree'
<1>1. /\ \A s \in Tasks \ {t} : task'[s] = task[s]
      /\ LedgerUp(t) \/ remote'.ledger = remote.ledger
  BY LedgerGrows DEF Moved
<1>2. task[t].pc # "done" /\ (task[t].pc = "upcursor" => task'[t].pc = "done" /\ task'[t].today = task[t].today)
  BY DEF Moved, Launched, Synced, Started, Fetched, Sent, GoesUp, Wrote, Saved, LedgerUp,
         CursorUp, Crashed, Busy, Stays
<1>3. ASSUME NEW d \in Days, remote'.ledger[d] # {}
      PROVE  \E r \in Runs : task'[r].today = d /\ task'[r].pc \in {"upcursor", "done"}
  <2>1. CASE remote.ledger[d] # {}
    <3>1. PICK r \in Runs : task[r].today = d /\ task[r].pc \in {"upcursor", "done"}
      BY <2>1 DEF LedgersAgree
    <3>2. CASE r = t
      BY <1>2, <3>1, <3>2
    <3>3. CASE r # t
      BY <1>1, <3>1, <3>3 DEF Tasks
    <3> QED BY <3>2, <3>3
  <2>2. CASE remote.ledger[d] = {}
    <3>1. LedgerUp(t) /\ t \in Runs /\ OwnsDay(task[t], d)
      BY <1>1, <1>3, <2>2, UploadAdds
    <3>2. task'[t].today = d /\ task'[t].pc \in {"upcursor", "done"}
      BY <3>1 DEF LedgerUp, OwnsDay
    <3> QED BY <3>1, <3>2
  <2> QED BY <2>1, <2>2
<1>4. ASSUME NEW s \in Tasks, s # t, NEW d \in Days, task'[s].pc # "done"
      PROVE  \/ task'[s].ledger[d] \in {{}, remote'.ledger[d]}
             \/ s \in Runs /\ OwnsDay(task'[s], d)
  <2>1. task'[s] = task[s]
    BY <1>1, <1>4
  <2>2. CASE s \in Runs /\ OwnsDay(task[s], d)
    BY <2>1, <2>2
  <2>3. CASE task[s].ledger[d] \in {{}, remote.ledger[d]}
    <3>1. remote'.ledger[d] = remote.ledger[d] \/ remote.ledger[d] = {}
      BY <1>1, UploadAdds
    <3> QED BY <2>1, <2>3, <3>1
  <2> QED BY <1>4, <2>1, <2>2, <2>3 DEF LedgersAgree
<1>5. ASSUME NEW d \in Days, task'[t].pc # "done"
      PROVE  \/ task'[t].ledger[d] \in {{}, remote'.ledger[d]}
             \/ t \in Runs /\ OwnsDay(task'[t], d)
  <2>1. \/ task[t].ledger[d] \in {{}, remote.ledger[d]}
        \/ t \in Runs /\ OwnsDay(task[t], d)
    BY <1>2 DEF LedgersAgree
  <2>2. CASE Launched(t) \/ Synced(t) \/ Started(t)
    <3>1. task[t].pc \in {"idle", "down"} /\ remote' = remote
          /\ task'[t].ledger[d] \in {task[t].ledger[d], remote.ledger[d]}
      BY <2>2 DEF Launched, Synced, Started, Stays, Waits
    <3> QED BY <2>1, <3>1 DEF OwnsDay
  <2>3. CASE Fetched(t) \/ Sent(t) \/ GoesUp(t) \/ Saved(t)
    <3>1. /\ remote'.ledger = remote.ledger /\ task'[t].ledger = task[t].ledger
          /\ task'[t].today = task[t].today
      BY <2>3 DEF Fetched, Sent, GoesUp, Saved, Stays, Waits
    <3>2. OwnsDay(task[t], d) => OwnsDay(task'[t], d)
      BY <2>3, <3>1 DEF Fetched, Sent, GoesUp, Saved, OwnsDay
    <3> QED BY <2>1, <3>1, <3>2
  <2>4. CASE Wrote(t)
    <3>1. /\ t \in Runs /\ task[t].pc = "ledger" /\ task'[t].pc = "cursor" /\ remote' = remote
          /\ task'[t].today = task[t].today
          /\ task'[t].ledger = [task[t].ledger EXCEPT ![task[t].today] = task[t].batch]
      BY <2>4 DEF Wrote, Waits
    <3>2. CASE d = task[t].today
      BY <3>1, <3>2 DEF OwnsDay
    <3>3. CASE d # task[t].today
      <4>1. task'[t].ledger[d] = task[t].ledger[d]
        BY <3>1, <3>3 DEF TypeOK, TaskRecords, Ledgers
      <4> QED BY <2>1, <3>1, <4>1 DEF OwnsDay
    <3> QED BY <3>2, <3>3
  <2>5. CASE LedgerUp(t)
    <3>1. PICK k \in Int : /\ remote'.ledger = Uploaded(t, k) /\ k = MaxDay + 1
                           /\ task'[t].ledger = task[t].ledger
      BY <1>5, <2>5 DEF LedgerUp, Stays
    <3>2. d < k
      BY <3>1, ClaimsAssumption DEF Days
    <3>3. task'[t].ledger = task[t].ledger
      BY <3>1
    <3>4. task[t].ledger[d] # {} => remote'.ledger[d] = task[t].ledger[d]
      BY <3>1, <3>2 DEF Uploaded
    <3> QED BY <3>3, <3>4
  <2>6. CASE CursorUp(t) \/ Crashed(t)
    BY <1>5, <2>6 DEF CursorUp, Crashed
  <2> QED BY <2>2, <2>3, <2>4, <2>5, <2>6 DEF Moved
<1> QED BY <1>3, <1>4, <1>5 DEF LedgersAgree

\* Nothing new falls behind a day that is over while the ledger only grows.
LEMMA RecordIsStable ==
    ASSUME TypeOK, TypeOK', Forward, InLedger \subseteq InLedger', NEW t \in Tasks,
           NEW k \in TaskRecords, CopyIsCovered(k), t \in Runs => k.today <= todayET,
           RecordIsKept(t, k)
    PROVE  RecordIsKept(t, k)'
<1>1. k.today \in Int /\ k.cursor \in Int
  BY DaysAreInt DEF TaskRecords
<1>2. ASSUME NEW c \in Int, c <= todayET PROVE BeforeDay(c)' \subseteq BeforeDay(c)
  BY <1>2, PastIsSettled
<1>3. CASE k.cursor \in Days /\ Kept(k.cursor) /\ k.pc # "done"
  <2>1. Covered(k.cursor)
    BY <1>3, DaysAreInt DEF CopyIsCovered, Usable
  <2>2. Kept(k.cursor)'
    BY <1>1, <1>2, <1>3, <2>1 DEF Covered, Kept
  <2> QED BY <1>1, <1>2, <2>2 DEF RecordIsKept
<1>4. CASE ~(k.cursor \in Days /\ Kept(k.cursor) /\ k.pc # "done")
  BY <1>1, <1>2, <1>4 DEF RecordIsKept
<1> QED BY <1>3, <1>4

LEMMA ClockKeepsLedgers ==
    ASSUME IInv, TypeOK', Forward, UNCHANGED <<remote, task>>,
           RunsTakeTurns, LedgersAgree, LedgerInv
    PROVE  RunsTakeTurns' /\ LedgersAgree' /\ LedgerInv'
<1>1. TypeOK /\ InLedger' = InLedger
  BY DEF IInv, InLedger
<1>2. RunsTakeTurns'
  <2>1. \A r \in Runs : task[r].today \in Int
    BY <1>1, DaysAreInt DEF TypeOK, TaskRecords, Tasks
  <2>2. \A r \in Runs : task[r].today <= todayET'
    BY <1>1, <2>1, TodayIs DEF RunsTakeTurns, TodayIsInt
  <2>3. \A r, s \in Runs : task[r].pc = "down" /\ s # r => task[s].today < todayET'
    BY <1>1, <2>1, TodayIs DEF RunsTakeTurns, TodayIsInt
  <2> QED BY <2>2, <2>3 DEF RunsTakeTurns, Busy
<1>3. LedgersAgree'
  BY DEF LedgersAgree, OwnsDay
<1>4. Kept(remote.cursor)'
  <2>1. PICK c \in Int : c = remote.cursor /\ c <= todayET
    <3>1. CASE remote.cursor \in Days
      BY <3>1, DaysAreInt DEF IInv, Usable, Covered
    <3>2. CASE remote.cursor = Torn
      <4>1. todayET \in Int /\ todayET >= 0
        BY <1>1, TodayType DEF TypeOK, Days
      <4> QED BY <3>2, <4>1 DEF Torn
    <3> QED BY <3>1, <3>2 DEF IInv, TypeOK, Stores
  <2>2. BeforeDay(c)' \subseteq InLedger'
    BY <1>1, <2>1, PastIsSettled DEF LedgerInv, Kept
  <2> QED BY <2>1, <2>2 DEF Kept, BeforeDay
<1>5. ASSUME NEW t \in Tasks PROVE RecordIsKept(t, task[t])'
  <2>1. PICK k \in TaskRecords : k = task[t]
    BY <1>1 DEF TypeOK
  <2>2. RecordIsKept(t, k)'
    BY <1>1, <2>1, RecordIsStable DEF IInv, LedgerInv, RunsTakeTurns
  <2> QED BY <2>1, <2>2 DEF RecordIsKept, Kept, BeforeDay, InLedger
<1> QED BY <1>2, <1>3, <1>4, <1>5 DEF LedgerInv

\* A fetch leaves out nothing that is not in the ledger yet.
LEMMA FetchKeeps ==
    ASSUME LookbackSuffices, IInv, NEW r \in Runs, task[r].pc = "fetch",
           RecordIsKept(r, task[r]), NEW missed \in SUBSET JustProcessed
    PROVE  BeforeDay(task[r].today)
               \subseteq InLedger \cup (Fetchable(sinceDay(r)) \ missed)
<1>1. /\ Usable(task[r].cursor)
      /\ task[r].today \in Days /\ task[r].today <= todayET
  BY TaskFacts DEF Tasks, RunCoversToday
<1> SUFFICES ASSUME NEW x \in BeforeDay(task[r].today),
                    x \notin InLedger
             PROVE  x \in Fetchable(sinceDay(r)) \ missed
  OBVIOUS
<1>2. x \in Processed /\ when[x] \div 2 < task[r].today /\ when[x] \in Int
  BY ClaimsAssumption DEF BeforeDay, utcDay, Processed, IInv, TypeOK, NotYet
<1>3. when[x] < tick - 1
  BY <1>1, <1>2, ClaimsAssumption DEF IInv, TypeOK, Days, todayET
<1>4. x \notin missed
  BY <1>2, <1>3, ClaimsAssumption DEF JustProcessed, IInv, TypeOK
<1>5. when[x] \div 2 >= sinceDay(r)
  <2>1. when[x] \div 2 \in Int /\ task[r].cursor \in Int
    <3>1. task[r].cursor \in Int
      BY DaysAreInt, TaskFacts DEF TaskRecords, Tasks
    <3>2. when[x] \div 2 \in Int
      BY <1>2
    <3> QED BY <3>1, <3>2
  <2>2. CASE task[r].cursor \notin Days
    <3>1. Lookback >= MaxDay /\ sinceDay(r) = task[r].today - Lookback
      BY <1>1, <2>2 DEF Usable, LookbackSuffices, sinceDay
    <3>2. when[x] >= 0
      BY <1>2 DEF IInv, TypeOK, Processed
    <3>3. task[r].today \in Int /\ task[r].today <= MaxDay
      BY <1>1 DEF Days
    <3> QED BY <1>2, <3>1, <3>2, <3>3, ClaimsAssumption
  <2>3. CASE task[r].cursor \in Days
    <3>1. Kept(task[r].cursor) /\ sinceDay(r) = task[r].cursor
      BY <2>3 DEF RecordIsKept, sinceDay
    <3>2. ~(when[x] \div 2 < task[r].cursor)
      BY <1>2, <3>1 DEF Kept, BeforeDay, utcDay
    <3> QED BY <2>1, <3>1, <3>2
  <2> QED BY <2>2, <2>3
<1>6. x \in Fetchable(sinceDay(r))
  BY <1>2, <1>5 DEF Fetchable, utcDay
<1> QED BY <1>4, <1>6

\* A whole upload puts every file the task has into the stored ledger.
LEMMA WholeUpload ==
    ASSUME TypeOK, NEW t \in Tasks, remote'.ledger = Uploaded(t, MaxDay + 1), NEW d \in Days
    PROVE  task[t].ledger[d] \subseteq InLedger'
<1>1. d < MaxDay + 1 /\ task[t].ledger[d] \subseteq Moves
  BY ClaimsAssumption DEF Days, TypeOK, TaskRecords, Ledgers
<1>2. task[t].ledger[d] # {} => remote'.ledger[d] = task[t].ledger[d]
  BY <1>1 DEF Uploaded
<1> QED BY <1>1, <1>2 DEF InLedger

\* What a task's own step leaves of its record.
LEMMA OwnRecordIsKept ==
    ASSUME LookbackSuffices, ~LedgerFaults, IInv, TypeOK', LedgerInv, NEW t \in Tasks, Moved(t),
           InLedger \subseteq InLedger', NEW j \in TaskRecords, j = task'[t]
    PROVE  RecordIsKept(t, j)'
<1>1. /\ task[t] \in TaskRecords /\ RecordIsKept(t, task[t])
      /\ t \in Runs => RunCoversToday(task[t])
  BY TaskFacts DEF LedgerInv
<1>2. \A c : BeforeDay(c)' = BeforeDay(c)
  BY DEF Moved, BeforeDay, Processed
<1>3. \A c : Kept(c) => Kept(c)'
  BY <1>2 DEF Kept
<1>4. CASE Launched(t) \/ Started(t)
  <2>1. /\ j.pc \in {"down", "fetch"} /\ task[t].pc \in {"idle", "down"}
        /\ j.cursor = task[t].cursor
    BY <1>4 DEF Launched, Started, Waits
  <2>2. j.cursor \notin Days \/ Kept(j.cursor)'
    BY <1>1, <1>3, <2>1 DEF RecordIsKept
  <2> QED BY <2>1, <2>2 DEF RecordIsKept
<1>5. CASE Synced(t)
  <2>1. /\ j.pc = "down" /\ task[t].pc = "down"
        /\ j.cursor \in {task[t].cursor, remote.cursor, Torn}
    BY <1>5 DEF Synced
  <2>2. j.cursor \notin Days \/ Kept(j.cursor)'
    BY <1>1, <1>3, <2>1, DaysAreInt DEF RecordIsKept, LedgerInv
  <2> QED BY <2>1, <2>2 DEF RecordIsKept
<1>6. CASE Fetched(t)
  <2>1. PICK missed \in SUBSET JustProcessed : j.batch = Fetchable(sinceDay(t)) \ missed
    BY <1>6 DEF Fetched
  <2>2. /\ t \in Runs /\ task[t].pc = "fetch" /\ j.cursor = task[t].cursor
        /\ j.today = task[t].today
        /\ j.pc = IF j.batch = {} THEN "cursor" ELSE "send"
    BY <1>6 DEF Fetched, Waits
  <2>3. BeforeDay(task[t].today) \subseteq InLedger \cup j.batch
    BY <1>1, <2>1, <2>2, FetchKeeps
  <2>4. j.cursor \notin Days \/ Kept(j.cursor)'
    BY <1>1, <1>3, <2>2 DEF RecordIsKept
  <2>5. BeforeDay(j.today)' \subseteq InLedger' \cup j.batch
    BY <1>2, <2>2, <2>3
  <2>6. j.pc = "cursor" => BeforeDay(j.today)' \subseteq InLedger'
    BY <2>2, <2>5
  <2>7. j.pc \in {"cursor", "send"}
    BY <2>2
  <2> QED BY <2>4, <2>5, <2>6, <2>7 DEF RecordIsKept
<1>7. CASE Sent(t)
  <2>1. /\ t \in Runs /\ task[t].pc = "send" /\ j.pc = "ledger"
        /\ j.cursor = task[t].cursor /\ j.today = task[t].today
        /\ j.batch = task[t].batch
    BY <1>7 DEF Sent, Waits, Stays
  <2>2. j.cursor \notin Days \/ Kept(j.cursor)'
    BY <1>1, <1>3, <2>1 DEF RecordIsKept
  <2>3. BeforeDay(j.today)' \subseteq InLedger' \cup j.batch
    BY <1>1, <1>2, <2>1 DEF RecordIsKept
  <2> QED BY <2>1, <2>2, <2>3 DEF RecordIsKept
<1>8. CASE GoesUp(t)
  <2>1. /\ task[t].pc \notin {"done", "upledger"} /\ j.pc = "upledger"
        /\ j.cursor = task[t].cursor
    BY <1>8 DEF GoesUp, Waits
  <2>2. j.cursor \notin Days \/ Kept(j.cursor)'
    BY <1>1, <1>3, <2>1 DEF RecordIsKept
  <2> QED BY <2>1, <2>2 DEF RecordIsKept
<1>9. CASE Wrote(t)
  <2>1. /\ t \in Runs /\ task[t].pc = "ledger" /\ j.pc = "cursor"
        /\ j.cursor = task[t].cursor /\ j.today = task[t].today
        /\ j.ledger = [task[t].ledger EXCEPT ![task[t].today] = task[t].batch]
    BY <1>9 DEF Wrote, Waits
  <2>2. j.ledger[j.today] = task[t].batch
    BY <1>1, <2>1 DEF RunCoversToday, TaskRecords, Ledgers
  <2>3. j.cursor \notin Days \/ Kept(j.cursor)'
    BY <1>1, <1>3, <2>1 DEF RecordIsKept
  <2>4. BeforeDay(j.today)' \subseteq InLedger' \cup j.ledger[j.today]
    BY <1>1, <1>2, <2>1, <2>2 DEF RecordIsKept
  <2> QED BY <2>1, <2>3, <2>4 DEF RecordIsKept
<1>10. CASE Saved(t)
  <2>1. /\ t \in Runs /\ task[t].pc = "cursor" /\ j.pc = "upledger"
        /\ j.cursor = task[t].today /\ j.today = task[t].today
        /\ j.ledger = task[t].ledger
    BY <1>10 DEF Saved, Stays
  <2>2. j.today \in Days
    BY <1>1, <2>1 DEF RunCoversToday
  <2>3. BeforeDay(j.today)' \subseteq InLedger' \cup j.ledger[j.today]
    BY <1>1, <1>2, <2>1 DEF RecordIsKept
  <2> QED BY <2>1, <2>2, <2>3 DEF RecordIsKept
<1>11. CASE LedgerUp(t) /\ j.pc # "done"
  <2>1. /\ task[t].pc = "upledger" /\ j.pc = "upcursor"
        /\ j.cursor = task[t].cursor /\ remote'.ledger = Uploaded(t, MaxDay + 1)
    BY <1>11 DEF LedgerUp, Stays
  <2>2. CASE task[t].cursor \notin Days \/ Kept(task[t].cursor)
    BY <1>3, <2>1, <2>2 DEF RecordIsKept
  <2>3. CASE /\ task[t].cursor = task[t].today /\ task[t].today \in Days
             /\ BeforeDay(task[t].today) \subseteq InLedger \cup task[t].ledger[task[t].today]
    <3>1. task[t].ledger[task[t].today] \subseteq InLedger'
      BY <2>1, <2>3, WholeUpload DEF IInv
    <3>2. Kept(j.cursor)'
      BY <1>2, <2>1, <2>3, <3>1 DEF Kept
    <3> QED BY <2>1, <3>2 DEF RecordIsKept
  <2> QED BY <1>1, <2>1, <2>2, <2>3 DEF RecordIsKept
<1>12. CASE j.pc = "done"
  BY <1>12 DEF RecordIsKept
<1> QED BY <1>4, <1>5, <1>6, <1>7, <1>8, <1>9, <1>10, <1>11, <1>12 DEF Moved, CursorUp, Crashed

LEMMA TasksKeepLedgers ==
    ASSUME LookbackSuffices, ~LedgerFaults, IInv, TypeOK', RunsTakeTurns, LedgersAgree, LedgerInv,
           NEW t \in Tasks, Moved(t)
    PROVE  LedgerInv'
<1>1. TypeOK /\ InLedger \subseteq InLedger'
  BY LedgerGrows DEF IInv
<1>2. /\ \A c : BeforeDay(c)' = BeforeDay(c)
      /\ \A s \in Tasks \ {t} : task'[s] = task[s]
  BY DEF Moved, BeforeDay, Processed
<1>3. Kept(remote.cursor)'
  <2>1. CASE remote'.cursor = remote.cursor
    <3>1. PICK c : c = remote.cursor /\ c = remote'.cursor
      BY <2>1
    <3>2. BeforeDay(c)' \subseteq InLedger'
      BY <1>1, <1>2, <3>1 DEF LedgerInv, Kept
    <3> QED BY <3>1, <3>2 DEF Kept, BeforeDay
  <2>2. CASE CursorUp(t) /\ remote'.cursor = task[t].cursor /\ task[t].cursor # NoCursor
    <3>1. Kept(task[t].cursor)
      <4>1. CASE task[t].cursor \in Days
        BY <2>2, <4>1 DEF CursorUp, LedgerInv, RecordIsKept
      <4>2. CASE task[t].cursor = Torn
        BY <1>1, <4>2, TornHidesNothing DEF Kept, TypeOK
      <4> QED BY <1>1, <2>2, <4>1, <4>2 DEF TypeOK, TaskRecords
    <3>2. PICK c : c = task[t].cursor /\ c = remote'.cursor
      BY <2>2
    <3>3. BeforeDay(c)' \subseteq InLedger'
      BY <1>1, <1>2, <3>1, <3>2 DEF Kept
    <3> QED BY <3>2, <3>3 DEF Kept, BeforeDay
  <2> QED BY <2>1, <2>2 DEF Moved, Launched, Synced, Started, Fetched, Sent, GoesUp, Wrote, Saved,
                            LedgerUp, CursorUp, Crashed, Waits
<1>4. ASSUME NEW s \in Tasks, s # t PROVE RecordIsKept(s, task[s])'
  <2>1. PICK k \in TaskRecords : k = task[s] /\ k = task'[s]
    BY <1>1, <1>2, <1>4 DEF TypeOK
  <2>2. RecordIsKept(s, k)
    BY <2>1 DEF LedgerInv
  <2>3. RecordIsKept(s, k)'
    BY <1>1, <1>2, <2>2 DEF RecordIsKept, Kept
  <2> QED BY <2>1, <2>3 DEF RecordIsKept, Kept, BeforeDay, InLedger
<1>5. RecordIsKept(t, task[t])'
  <2>1. PICK j \in TaskRecords : j = task'[t]
    BY DEF TypeOK
  <2>2. RecordIsKept(t, j)'
    BY <1>1, <2>1, OwnRecordIsKept
  <2> QED BY <2>1, <2>2 DEF RecordIsKept, Kept, BeforeDay, InLedger
<1> QED BY <1>3, <1>4, <1>5 DEF LedgerInv

LEMMA InitLedgers == Init => RunsTakeTurns /\ LedgersAgree /\ LedgerInv
<1> SUFFICES ASSUME Init PROVE RunsTakeTurns /\ LedgersAgree /\ LedgerInv
  OBVIOUS
<1>1. Processed = {} /\ todayET = 0 /\ remote.ledger = NoLedger /\ Runs \subseteq Tasks
  BY DEF Init, Processed, todayET, Tasks
<1>2. \A t \in Tasks : /\ task[t].pc = "idle" /\ task[t].cursor = NoCursor
                       /\ task[t].today = NoCursor /\ task[t].ledger = NoLedger
  BY DEF Init, Fresh
<1>3. RunsTakeTurns
  BY <1>1, <1>2 DEF RunsTakeTurns, Busy, NoCursor
<1>4. LedgersAgree
  BY <1>1, <1>2 DEF LedgersAgree, NoLedger
<1>5. LedgerInv
  BY <1>1, <1>2 DEF LedgerInv, RecordIsKept, Kept, BeforeDay
<1> QED BY <1>3, <1>4, <1>5

LEMMA NextLedgers ==
    ASSUME LookbackSuffices, ~Manual, ~LedgerFaults, IInv, IInv', [Next]_vars,
           RunsTakeTurns, LedgersAgree, LedgerInv
    PROVE  RunsTakeTurns' /\ LedgersAgree' /\ LedgerInv'
<1>1. TypeOK /\ TypeOK' /\ Forward
  BY NextForward DEF IInv
<1>2. CASE UNCHANGED <<remote, task>>
  BY <1>1, <1>2, ClockKeepsLedgers
<1>3. ASSUME NEW t \in Tasks, Moved(t) PROVE RunsTakeTurns' /\ LedgersAgree' /\ LedgerInv'
  <2>1. RunsTakeTurns'
    BY <1>1, <1>3, TurnsNext
  <2>2. LedgersAgree'
    BY <1>1, <1>3, <2>1, AgreeNext
  <2>3. LedgerInv'
    BY <1>1, <1>3, TasksKeepLedgers
  <2> QED BY <2>1, <2>2, <2>3
<1> QED BY <1>1, <1>2, <1>3, NextMoves

\* A file is cut short only by a sync-down that fails.
NoneTorn == ~DownFaults => remote.torn = {} /\ \A t \in Tasks : task[t].torn = {}

LEMMA NextNoneTorn ==
    ASSUME TypeOK, NoneTorn, [Next]_vars
    PROVE  NoneTorn'
<1> SUFFICES ASSUME ~DownFaults
             PROVE  remote'.torn = {} /\ \A t \in Tasks : task'[t].torn = {}
  BY DEF NoneTorn
<1>1. remote.torn = {} /\ \A t \in Tasks : task[t].torn = {}
  BY DEF NoneTorn
<1>2. CASE UNCHANGED <<remote, task>>
  BY <1>1, <1>2
<1>3. \A t \in Tasks : Gone(t)[t].torn = {} /\ \A s \in Tasks \ {t} : Gone(t)[s] = task[s]
  BY DEF Gone, Fresh, TypeOK
<1>4. ASSUME NEW r \in Runs, ClaimsStep(r)
      PROVE  remote'.torn = {} /\ \A t \in Tasks : task'[t].torn = {}
  <2>1. r \in Tasks /\ remote' = remote
    BY <1>4 DEF Tasks, ClaimsStep, StartRun, Fetch, Send, WriteLedger, SaveCursor
  <2>2. \A s \in Tasks \ {r} : task'[s] = task[s]
    BY <1>4, <2>1 DEF ClaimsStep, StartRun, Fetch, Send, WriteLedger, SaveCursor, TypeOK
  <2>3. task'[r].torn \in {task[r].torn, task[r].torn \ {task[r].today}}
    <3>1. CASE WriteLedger(r)
      BY <2>1, <3>1 DEF WriteLedger, TypeOK, TaskRecords
    <3>2. CASE StartRun(r) \/ Fetch(r) \/ Send(r) \/ SaveCursor(r)
      BY <2>1, <3>2 DEF StartRun, Fetch, Send, SaveCursor, TypeOK, TaskRecords
    <3> QED BY <1>4, <3>1, <3>2 DEF ClaimsStep
  <2> QED BY <1>1, <2>1, <2>2, <2>3
<1>5. ASSUME NEW t \in Tasks, OtherRun(t) \/ SyncStep(t)
      PROVE  remote'.torn = {} /\ \A s \in Tasks : task'[s].torn = {}
  <2>1. CASE OtherRun(t) \/ Launch(t)
    BY <1>1, <2>1 DEF OtherRun, Launch, TypeOK, TaskRecords
  <2>2. CASE \E f \in Files : SyncDown(t, f)
    <3>1. PICK f \in Files : SyncDown(t, f)
      BY <2>2
    <3>2. /\ remote' = remote /\ \A s \in Tasks \ {t} : task'[s] = task[s]
          /\ task'[t].torn \in {remote.torn, task[t].torn}
      BY <3>1 DEF SyncDown, TypeOK, TaskRecords
    <3> QED BY <1>1, <3>2
  <2>3. CASE UploadLedger(t)
    <3>1. PICK k \in 0..(MaxDay + 1) :
             /\ remote' = [remote EXCEPT !.ledger = Uploaded(t, k), !.torn = TornAfter(t, k)]
             /\ task' = [task EXCEPT ![t].pc = "upcursor"] \/ task' = Gone(t)
      BY <2>3 DEF UploadLedger
    <3>2. TornAfter(t, k) = {}
      BY <1>1 DEF TornAfter
    <3>3. remote'.torn = {}
      BY <3>1, <3>2 DEF TypeOK, Stores
    <3> QED BY <1>1, <1>3, <3>1, <3>3 DEF TypeOK, TaskRecords
  <2>4. CASE UploadCursor(t) \/ Crash(t)
    <3>1. task' = Gone(t) /\ remote'.torn = remote.torn
      BY <2>4 DEF UploadCursor, Crash, TypeOK, Stores
    <3> QED BY <1>1, <1>3, <3>1
  <2> QED BY <1>5, <2>1, <2>2, <2>3, <2>4 DEF SyncStep, SyncDownFails
<1> QED BY <1>2, <1>4, <1>5 DEF Next, Tick, Process, vars

\* What the ledgers rest on: runs take turns, a day's file has one author, and
\* no cursor, stored or copied, runs ahead of the stored ledger.
THEOREM LedgersAreKept ==
    ASSUME LookbackSuffices, ~Manual, ~LedgerFaults
    PROVE  Spec => [](RunsTakeTurns /\ LedgersAgree /\ LedgerInv)
<1>1. IInv /\ IInv' /\ [Next]_vars /\ (RunsTakeTurns /\ LedgersAgree /\ LedgerInv)
        => (RunsTakeTurns /\ LedgersAgree /\ LedgerInv)'
  BY NextLedgers
<1> QED BY <1>1, InitLedgers, CursorsAreCovered, PTL DEF Spec

\* With the daily schedule and ledger writes that do not fail, the audit ledger
\* in S3 holds every move no later run will fetch, whatever else fails and
\* however stale the copies the other tasks upload (claims/run.go writes the
\* ledger before the cursor, statesync.Up uploads it before the cursor).
THEOREM LedgerHoldsThePast ==
    ASSUME LookbackSuffices, ~Manual, ~LedgerFaults
    PROVE  Spec => []LedgerCoversCursor
<1>1. LedgerInv /\ NoneTorn => LedgerCoversCursor
  BY DEF LedgerInv, NoneTorn, Kept, InLedger, LedgerCoversCursor
<1>2. Init => NoneTorn
  BY DEF Init, NoneTorn, Fresh
<1>3. IInv /\ NoneTorn /\ [Next]_vars => NoneTorn'
  BY NextNoneTorn DEF IInv
<1> QED BY <1>1, <1>2, <1>3, CursorsAreCovered, LedgersAreKept, PTL DEF Spec
=============================================================================
