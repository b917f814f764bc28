--------------------------- MODULE OpsAlertProofs ---------------------------
(***************************************************************************)
(* Proofs about OpsAlert: whatever the number of runs, deliveries, retries *)
(* and failures, and in whatever order events are handled, a marker stands *)
(* for an alert that was pushed, and a run pages twice only when one of     *)
(* the named failures has made deduplication impossible.  And where the     *)
(* window holds the history and events are handled in turn, every alert is  *)
(* the one due by the count of consecutive failures.                        *)
(***************************************************************************)
EXTENDS OpsAlert, FiniteSetTheorems, WellFoundedInduction, TLAPS

-----------------------------------------------------------------------------
(* One delivery changes.                                                   *)

\* The handler of delivery c of run i is now e; every other one is as it was.
Becomes(i, c, e) ==
    /\ event'[i][c] = e
    /\ \A j \in Runs, d \in Copies : <<j, d>> # <<i, c>> => event'[j][d] = event[j][d]

LEMMA EventChange ==
    ASSUME TypeOK, NEW i \in Runs, NEW c \in Copies, NEW e \in EventRecords,
           event' = [event EXCEPT ![i][c] = e]
    PROVE  /\ event' \in [Runs -> [Copies -> EventRecords]]
           /\ Becomes(i, c, e)
  BY DEF TypeOK, Becomes

\* A delivery that neither leaves "mark" nor gets past its check disturbs
\* nothing of deduplication.
LEMMA BeforeCheck ==
    ASSUME IInv, NEW i \in Runs, NEW c \in Copies, NEW e, Becomes(i, c, e),
           pushed' = pushed, marker' = marker, slipped' = slipped,
           event[i][c].pc # "mark", e.pc \notin {"send", "mark"}
    PROVE  /\ MarkedOnlyIfPushed'
           /\ ToldBeforeMarked'
           /\ \A j \in Runs \ slipped' : Deduplicated(j)'
<1>1. MarkedOnlyIfPushed'
  BY DEF IInv, MarkedOnlyIfPushed
<1>2. \A j \in Runs, d \in Copies :
          event'[j][d].pc \in {"send", "mark"} => event'[j][d] = event[j][d]
  BY DEF Becomes
<1>3. ToldBeforeMarked'
  BY <1>2 DEF IInv, ToldBeforeMarked
<1>4. \A j \in Runs, d \in Copies : event[j][d].pc = "mark" => event'[j][d] = event[j][d]
  BY DEF Becomes
<1>5. ASSUME NEW j \in Runs \ slipped' PROVE Deduplicated(j)'
  <2>1. Deduplicated(j)
    BY <1>5 DEF IInv
  <2>2. Len(pushed'[j]) <= 1
    BY <2>1 DEF Deduplicated
  <2>3. pushed'[j] # <<>> => j \in marker' \/ \E d \in Copies : event'[j][d].pc = "mark"
    BY <2>1, <1>4 DEF Deduplicated
  <2>4. \A d \in Copies : event'[j][d].pc = "send" => pushed'[j] = <<>>
    BY <2>1, <1>2 DEF Deduplicated
  <2>5. \A d, f \in Copies : Sending(j, d)' /\ Sending(j, f)' => d = f
    BY <2>1, <1>2 DEF Deduplicated, Sending
  <2> QED BY <2>2, <2>3, <2>4, <2>5 DEF Deduplicated
<1> QED BY <1>1, <1>3, <1>5

-----------------------------------------------------------------------------
(* Types.                                                                  *)

LEMMA VerdictType ==
    ASSUME NEW i \in Runs, NEW recs
    PROVE  judge(recs, i) \in Verdicts
<1>1. Streak(recs, task[i].key) \in Verdicts
  BY DEF Streak, Verdicts
<1> QED BY <1>1 DEF judge, Verdicts

LEMMA EndedType ==
    ASSUME NEW pc \in {"queued", "done", "lost"}, NEW t \in 0..(MaxTries - 1)
    PROVE  Ended(pc, t) \in EventRecords
  BY DEF Ended, EventRecords, Verdicts

LEMMA MishapType ==
    ASSUME TypeOK, Mishap \/ Fine
    PROVE  mishaps' \in 0..MaxMishaps
  BY OpsAlertAssumption DEF TypeOK, Mishap, Fine

\* A failed invocation leaves the delivery queued or given up.
LEMMA RetryChanges ==
    ASSUME TypeOK, NEW i \in Runs, NEW c \in Copies, Retry(i, c)
    PROVE  \E e \in EventRecords :
              /\ e.pc \in {"queued", "lost"}
              /\ event' = [event EXCEPT ![i][c] = e]
<1>1. event[i][c] \in EventRecords
  BY DEF TypeOK
<1>2. event[i][c].tries \in 0..(MaxTries - 1) /\ 0 \in 0..(MaxTries - 1)
  BY <1>1, OpsAlertAssumption DEF EventRecords
<1>3. CASE event[i][c].tries + 1 < MaxTries
  <2> DEFINE e == Ended("queued", event[i][c].tries + 1)
  <2>1. event[i][c].tries + 1 \in 0..(MaxTries - 1)
    BY <1>2, <1>3, OpsAlertAssumption
  <2>2. e \in EventRecords
    BY <2>1, EndedType
  <2>3. event' = [event EXCEPT ![i][c] = e]
    BY <1>3 DEF Retry
  <2>4. e.pc = "queued"
    BY DEF Ended
  <2> QED BY <2>2, <2>3, <2>4
<1>4. CASE ~(event[i][c].tries + 1 < MaxTries)
  <2> DEFINE e == Ended("lost", 0)
  <2>2. e \in EventRecords
    BY <1>2, EndedType
  <2>3. event' = [event EXCEPT ![i][c] = e]
    BY <1>4 DEF Retry
  <2>4. e.pc = "lost"
    BY DEF Ended
  <2> QED BY <2>2, <2>3, <2>4
<1> QED BY <1>3, <1>4

\* An invocation that ends.
LEMMA DoneChanges ==
    ASSUME NEW i \in Runs, NEW c \in Copies, Done(i, c)
    PROVE  \E e \in EventRecords :
              /\ e.pc = "done"
              /\ event' = [event EXCEPT ![i][c] = e]
<1> DEFINE e == Ended("done", 0)
<1>1. 0 \in 0..(MaxTries - 1)
  BY OpsAlertAssumption
<1>2. e \in EventRecords /\ e.pc = "done"
  BY <1>1, EndedType DEF Ended
<1> QED BY <1>2 DEF Done

EventPcs == {"none", "queued", "check", "send", "mark", "done", "lost"}

\* A delivery that only moves on.
MovedTo(i, c, pc) ==
    \E e \in EventRecords :
       /\ e.pc = pc /\ e.verdict = event[i][c].verdict
       /\ event' = [event EXCEPT ![i][c] = e]

LEMMA PcChanges ==
    ASSUME TypeOK, NEW i \in Runs, NEW c \in Copies,
           NEW pc \in EventPcs, To(i, c, pc)
    PROVE  MovedTo(i, c, pc)
<1>1. event[i][c] \in EventRecords
  BY DEF TypeOK
<1> DEFINE e == [event[i][c] EXCEPT !.pc = pc]
<1>2. e \in EventRecords /\ e.pc = pc /\ e.verdict = event[i][c].verdict
  BY <1>1 DEF EventRecords, EventPcs
<1>3. event' = [event EXCEPT ![i][c] = e]
  BY DEF To
<1> QED BY <1>2, <1>3 DEF MovedTo

-----------------------------------------------------------------------------
(* The tasks.                                                              *)

\* A step of a task that does not stop.
LEMMA NoEvent ==
    ASSUME IInv, NEW i \in Runs, ~stopped(i),
           task' \in [Runs -> TaskRecords],
           \A j \in Runs \ {i} : task'[j] = task[j],
           UNCHANGED <<event, marker, pushed, slipped, misread>>
    PROVE  /\ MarkedOnlyIfPushed' /\ ToldBeforeMarked' /\ QuietUntilStopped'
           /\ \A j \in Runs \ slipped' : Deduplicated(j)'
<1>1. QuietUntilStopped'
  BY DEF IInv, QuietUntilStopped, stopped
<1>2. MarkedOnlyIfPushed' /\ ToldBeforeMarked'
  BY DEF IInv, MarkedOnlyIfPushed, ToldBeforeMarked
<1>3. \A j \in Runs \ slipped' : Deduplicated(j)'
  BY DEF IInv, Deduplicated, Sending
<1> QED BY <1>1, <1>2, <1>3

\* A task that stops has its event queued, and had none.
LEMMA EventQueued ==
    ASSUME IInv, NEW i \in Runs, NEW exit \in {"ok", "failed"},
           ~stopped(i), Stopped(i, exit), UNCHANGED <<marker, pushed, slipped>>
    PROVE  /\ task' \in [Runs -> TaskRecords]
           /\ event' \in [Runs -> [Copies -> EventRecords]]
           /\ MarkedOnlyIfPushed' /\ ToldBeforeMarked' /\ QuietUntilStopped'
           /\ \A j \in Runs \ slipped' : Deduplicated(j)'
<1>1. TypeOK /\ 1 \in Copies
  BY OpsAlertAssumption DEF IInv, Copies
<1>2. task' \in [Runs -> TaskRecords] /\ task'[i].pc = "stopped"
      /\ \A j \in Runs \ {i} : task'[j] = task[j]
  <2>1. task[i] \in TaskRecords
    BY <1>1 DEF TypeOK
  <2> DEFINE n == [task[i] EXCEPT !.pc = "stopped", !.exit = exit]
  <2>2. n \in TaskRecords /\ n.pc = "stopped"
    BY <2>1 DEF TaskRecords
  <2>3. task' = [task EXCEPT ![i] = n]
    BY DEF Stopped
  <2> QED BY <1>1, <2>2, <2>3 DEF TypeOK
<1>3. 1 \in Copies /\ To(i, 1, "queued")
  BY <1>1 DEF Stopped, To
<1>4. PICK e \in EventRecords :
          /\ e.pc = "queued" /\ e.verdict = event[i][1].verdict
          /\ event' = [event EXCEPT ![i][1] = e]
  <2>1. "queued" \in EventPcs
    BY DEF EventPcs
  <2>2. MovedTo(i, 1, "queued")
    BY <1>1, <1>3, <2>1, PcChanges, Zenon
  <2> QED BY <2>2 DEF MovedTo
<1>5. event' \in [Runs -> [Copies -> EventRecords]] /\ Becomes(i, 1, e)
  BY <1>1, <1>4, EventChange
<1>6. event[i][1].pc = "none"
  BY <1>1 DEF IInv, QuietUntilStopped
<1>7. MarkedOnlyIfPushed' /\ ToldBeforeMarked' /\ \A j \in Runs \ slipped' : Deduplicated(j)'
  BY <1>1, <1>4, <1>5, <1>6, BeforeCheck
<1>8. QuietUntilStopped'
  <2> SUFFICES ASSUME NEW j \in Runs, NEW d \in Copies, event'[j][d].pc # "none"
               PROVE  task'[j].pc = "stopped"
    BY DEF QuietUntilStopped, stopped
  <2>1. CASE j = i
    BY <2>1, <1>2
  <2>2. CASE j # i
    BY <2>2, <1>2, <1>5 DEF Becomes, IInv, QuietUntilStopped, stopped
  <2> QED BY <2>1, <2>2
<1> QED BY <1>2, <1>5, <1>7, <1>8

LEMMA TaskSteps ==
    ASSUME IInv, NEW i \in Runs, TaskStep(i)
    PROVE  IInv'
<1>1. TypeOK /\ task[i] \in TaskRecords
  BY DEF IInv, TypeOK
<1>2. ASSUME NEW k \in Keys, Start(i, k) PROVE IInv'
  <2> DEFINE n == [task[i] EXCEPT !.pc = "running", !.key = k]
  <2>1. n \in TaskRecords
    BY <1>1 DEF TaskRecords
  <2>2. task' = [task EXCEPT ![i] = n]
    BY <1>2 DEF Start
  <2>3. task' \in [Runs -> TaskRecords] /\ \A j \in Runs \ {i} : task'[j] = task[j]
    BY <1>1, <2>1, <2>2 DEF TypeOK
  <2>4. record' \in [Runs -> Terminal \cup {"none", "RUNNING"}]
    BY <1>1, <1>2 DEF Start, TypeOK
  <2>5. mishaps' \in 0..MaxMishaps
    BY <1>1, <1>2, MishapType DEF Start
  <2>6. ~stopped(i) /\ UNCHANGED <<event, marker, pushed, slipped, misread>>
    BY <1>2 DEF Start, started, stopped
  <2>7. /\ MarkedOnlyIfPushed' /\ ToldBeforeMarked' /\ QuietUntilStopped'
        /\ \A j \in Runs \ slipped' : Deduplicated(j)'
    BY <2>3, <2>6, NoEvent
  <2>8. TypeOK'
    BY <1>1, <2>3, <2>4, <2>5, <2>6 DEF TypeOK
  <2> QED BY <2>7, <2>8 DEF IInv
<1>3. ASSUME Finish(i) PROVE IInv'
  <2>1. PICK status \in Terminal :
          /\ task' = [task EXCEPT ![i].pc = "ending",
                                  ![i].exit = IF status = "FAILED" THEN "failed" ELSE "ok"]
          /\ \/ record' = [record EXCEPT ![i] = status] /\ Fine
             \/ UNCHANGED record /\ Mishap
    BY <1>3 DEF Finish
  <2> DEFINE x == IF status = "FAILED" THEN "failed" ELSE "ok"
             n == [task[i] EXCEPT !.pc = "ending", !.exit = x]
  <2>2. n \in TaskRecords
    BY <1>1 DEF TaskRecords
  <2>3. task' = [task EXCEPT ![i] = n]
    BY <2>1
  <2>4. task' \in [Runs -> TaskRecords] /\ \A j \in Runs \ {i} : task'[j] = task[j]
    BY <1>1, <2>2, <2>3 DEF TypeOK
  <2>5. record' \in [Runs -> Terminal \cup {"none", "RUNNING"}]
    BY <1>1, <2>1 DEF TypeOK
  <2>6. mishaps' \in 0..MaxMishaps
    BY <1>1, <2>1, MishapType
  <2>7. ~stopped(i) /\ UNCHANGED <<event, marker, pushed, slipped, misread>>
    BY <1>3 DEF Finish, stopped
  <2>8. /\ MarkedOnlyIfPushed' /\ ToldBeforeMarked' /\ QuietUntilStopped'
        /\ \A j \in Runs \ slipped' : Deduplicated(j)'
    BY <2>4, <2>7, NoEvent
  <2>9. TypeOK'
    BY <1>1, <2>4, <2>5, <2>6, <2>7 DEF TypeOK
  <2> QED BY <2>8, <2>9 DEF IInv
<1>4. ASSUME NEW exit \in {"ok", "failed"}, ~stopped(i), Stopped(i, exit),
             record' = record \/ record' = [record EXCEPT ![i] = "FAILED"],
             Mishap \/ Fine, UNCHANGED <<marker, pushed, slipped, misread>>
      PROVE  IInv'
  <2>1. /\ task' \in [Runs -> TaskRecords]
        /\ event' \in [Runs -> [Copies -> EventRecords]]
        /\ MarkedOnlyIfPushed' /\ ToldBeforeMarked' /\ QuietUntilStopped'
        /\ \A j \in Runs \ slipped' : Deduplicated(j)'
    BY <1>4, EventQueued
  <2>2. record' \in [Runs -> Terminal \cup {"none", "RUNNING"}]
    BY <1>1, <1>4 DEF TypeOK, Terminal
  <2>3. mishaps' \in 0..MaxMishaps
    BY <1>1, <1>4, MishapType
  <2>4. TypeOK'
    BY <1>1, <1>4, <2>1, <2>2, <2>3 DEF TypeOK
  <2> QED BY <2>1, <2>4 DEF IInv
<1>5. CASE Exit(i)
  <2>1. task[i].exit \in {"ok", "failed"} /\ ~stopped(i)
    BY <1>1, <1>5 DEF TaskRecords, Exit, stopped
  <2> QED BY <2>1, <1>4, <1>5 DEF Exit, Fine
<1>6. CASE Terminate(i)
  BY <1>4, <1>6 DEF Terminate, stopped
<1>7. CASE Kill(i)
  BY <1>4, <1>7 DEF Kill, stopped
<1> QED BY <1>2, <1>3, <1>5, <1>6, <1>7 DEF TaskStep

-----------------------------------------------------------------------------
(* The deliveries.                                                         *)

\* A delivery that does not get past its check, and with it the types.
LEMMA StillBeforeCheck ==
    ASSUME IInv, NEW i \in Runs, NEW c \in Copies, NEW e \in EventRecords,
           event' = [event EXCEPT ![i][c] = e], Mishap \/ Fine, stopped(i),
           event[i][c].pc # "mark", e.pc \notin {"send", "mark"},
           UNCHANGED <<task, record, marker, pushed, slipped>>, misread' \subseteq Runs
    PROVE  IInv'
<1>1. TypeOK
  BY DEF IInv
<1>2. event' \in [Runs -> [Copies -> EventRecords]] /\ Becomes(i, c, e)
  BY <1>1, EventChange
<1>3. MarkedOnlyIfPushed' /\ ToldBeforeMarked' /\ \A j \in Runs \ slipped' : Deduplicated(j)'
  BY <1>2, BeforeCheck
<1>4. QuietUntilStopped'
  BY <1>2 DEF IInv, QuietUntilStopped, stopped, Becomes
<1>5. mishaps' \in 0..MaxMishaps
  BY <1>1, MishapType
<1>6. TypeOK'
  BY <1>1, <1>2, <1>5 DEF TypeOK
<1> QED BY <1>3, <1>4, <1>6 DEF IInv

LEMMA RedeliverSteps ==
    ASSUME IInv, NEW i \in Runs, NEW c \in Copies, Redeliver(i, c)
    PROVE  IInv'
<1>1. TypeOK /\ stopped(i) /\ event[i][c].pc # "mark"
  BY DEF IInv, Redeliver
<1>2. To(i, c, "queued") /\ Mishap
      /\ UNCHANGED <<task, record, marker, pushed, slipped>> /\ misread' \subseteq Runs
  BY <1>1 DEF Redeliver, To, TypeOK
<1>3. "queued" \in EventPcs
  BY DEF EventPcs
<1>4. PICK e \in EventRecords :
          /\ e.pc = "queued" /\ e.verdict = event[i][c].verdict
          /\ event' = [event EXCEPT ![i][c] = e]
  <2>1. MovedTo(i, c, "queued")
    BY <1>1, <1>2, <1>3, PcChanges, Zenon
  <2> QED BY <2>1 DEF MovedTo
<1> QED BY <1>1, <1>2, <1>4, StillBeforeCheck

LEMMA JudgeSteps ==
    ASSUME IInv, NEW i \in Runs, NEW c \in Copies, Judge(i, c)
    PROVE  IInv'
<1>1. TypeOK /\ stopped(i) /\ event[i][c] \in EventRecords
  BY DEF IInv, QuietUntilStopped, Judge, TypeOK
<1>2. event[i][c].pc # "mark" /\ UNCHANGED <<task, record, marker, pushed, slipped>>
  BY DEF Judge
<1>3. misread' \subseteq Runs
  BY <1>1 DEF Judge, TypeOK
<1>4. CASE Done(i, c) /\ (Mishap \/ Fine)
  <2>1. PICK e \in EventRecords : e.pc = "done" /\ event' = [event EXCEPT ![i][c] = e]
    BY <1>4, DoneChanges
  <2> QED BY <1>1, <1>2, <1>3, <1>4, <2>1, StillBeforeCheck
<1>5. ASSUME NEW v \in Verdicts, Mishap \/ Fine,
             event' = [event EXCEPT ![i][c].pc = "check", ![i][c].verdict = v]
      PROVE  IInv'
  <2> DEFINE e == [event[i][c] EXCEPT !.pc = "check", !.verdict = v]
  <2>1. e \in EventRecords /\ e.pc = "check"
    BY <1>1 DEF EventRecords
  <2>2. event' = [event EXCEPT ![i][c] = e]
    BY <1>1, <1>5 DEF TypeOK
  <2> QED BY <1>1, <1>2, <1>3, <1>5, <2>1, <2>2, StillBeforeCheck
<1>6. CASE Retry(i, c)
  <2>1. PICK e \in EventRecords : e.pc \in {"queued", "lost"} /\ event' = [event EXCEPT ![i][c] = e]
    BY <1>1, <1>6, RetryChanges
  <2>2. Mishap
    BY <1>6 DEF Retry
  <2> QED BY <1>1, <1>2, <1>3, <2>1, <2>2, StillBeforeCheck
<1>7. CASE ~Retry(i, c)
  <2>1. PICK recs : /\ Mishap \/ Fine
                    /\ IF judge(recs, i) = "None"
                       THEN Done(i, c)
                       ELSE event' = [event EXCEPT ![i][c].pc = "check",
                                                   ![i][c].verdict = judge(recs, i)]
    BY <1>7 DEF Judge
  <2>2. judge(recs, i) \in Verdicts
    BY VerdictType
  <2> QED BY <1>4, <1>5, <2>1, <2>2
<1> QED BY <1>6, <1>7

\* Whatever delivery c of run i does to a run for which deduplication failed,
\* or fails now, the other runs keep theirs.
LEMMA OthersDeduplicated ==
    ASSUME IInv, NEW i \in Runs, NEW c \in Copies, NEW e, Becomes(i, c, e),
           \A j \in Runs \ {i} : pushed'[j] = pushed[j],
           marker \subseteq marker', slipped \subseteq slipped'
    PROVE  \A j \in Runs \ (slipped' \cup {i}) : Deduplicated(j)'
<1> SUFFICES ASSUME NEW j \in Runs \ (slipped' \cup {i}) PROVE Deduplicated(j)'
  OBVIOUS
<1>1. Deduplicated(j) /\ pushed'[j] = pushed[j]
  BY DEF IInv
<1>2. \A d \in Copies : event'[j][d] = event[j][d]
  BY DEF Becomes
<1> QED BY <1>1, <1>2 DEF Deduplicated, Sending

\* One more alert about run i.
LEMMA Pushes ==
    ASSUME TypeOK, NEW i \in Runs, NEW v \in Verdicts,
           pushed' = [pushed EXCEPT ![i] = Append(@, v)]
    PROVE  /\ pushed' \in [Runs -> Seq(Verdicts)]
           /\ pushed'[i] # <<>> /\ Len(pushed'[i]) = Len(pushed[i]) + 1
           /\ \A j \in Runs \ {i} : pushed'[j] = pushed[j]
<1>1. pushed[i] \in Seq(Verdicts)
  BY DEF TypeOK
<1>2. pushed'[i] = Append(pushed[i], v)
  BY DEF TypeOK
<1>3. pushed'[i] \in Seq(Verdicts) /\ Len(pushed'[i]) = Len(pushed[i]) + 1
  BY <1>1, <1>2
<1>4. pushed'[i] # <<>>
  <2>1. Len(pushed[i]) \in Nat /\ Len(<<>>) = 0
    BY <1>1
  <2> QED BY <1>3, <2>1
<1>5. pushed' \in [Runs -> Seq(Verdicts)]
  BY <1>1 DEF TypeOK
<1>6. \A j \in Runs \ {i} : pushed'[j] = pushed[j]
  BY DEF TypeOK
<1> QED BY <1>3, <1>4, <1>5, <1>6

\* A failure of the deduplication of run i, with or without another alert.
LEMMA Slips ==
    ASSUME IInv, NEW i \in Runs, NEW c \in Copies, NEW e \in EventRecords,
           event' = [event EXCEPT ![i][c] = e], e.pc # "mark", stopped(i),
           NEW v \in Verdicts,
           pushed' = pushed \/ pushed' = [pushed EXCEPT ![i] = Append(@, v)],
           slipped' = slipped \cup {i}, Mishap \/ Fine,
           UNCHANGED <<task, record, marker, misread>>
    PROVE  IInv'
<1>1. TypeOK
  BY DEF IInv
<1>2. event' \in [Runs -> [Copies -> EventRecords]] /\ Becomes(i, c, e)
  BY <1>1, EventChange
<1>3. /\ pushed' \in [Runs -> Seq(Verdicts)]
      /\ \A j \in Runs \ {i} : pushed'[j] = pushed[j]
      /\ pushed'[i] = pushed[i] \/ pushed'[i] # <<>>
  <2>1. CASE pushed' = pushed
    BY <2>1, <1>1 DEF TypeOK
  <2>2. CASE pushed' = [pushed EXCEPT ![i] = Append(@, v)]
    BY <2>2, <1>1, Pushes
  <2> QED BY <2>1, <2>2
<1>4. mishaps' \in 0..MaxMishaps
  BY <1>1, MishapType
<1>5. TypeOK'
  BY <1>1, <1>2, <1>3, <1>4 DEF TypeOK
<1>6. MarkedOnlyIfPushed'
  BY <1>1, <1>3 DEF IInv, MarkedOnlyIfPushed, TypeOK
<1>7. ToldBeforeMarked'
  BY <1>2, <1>3 DEF IInv, ToldBeforeMarked, Becomes
<1>8. QuietUntilStopped'
  BY <1>2 DEF IInv, QuietUntilStopped, stopped, Becomes
<1>9. \A j \in Runs \ slipped' : Deduplicated(j)'
  BY <1>2, <1>3, OthersDeduplicated
<1> QED BY <1>5, <1>6, <1>7, <1>8, <1>9 DEF IInv

LEMMA CheckSteps ==
    ASSUME IInv, NEW i \in Runs, NEW c \in Copies, Check(i, c)
    PROVE  IInv'
<1>1. TypeOK /\ stopped(i) /\ event[i][c].pc = "check"
  BY DEF IInv, QuietUntilStopped, Check
<1>2. UNCHANGED <<task, record, marker, pushed>> /\ misread' = misread /\ misread' \subseteq Runs
  BY <1>1 DEF Check, TypeOK
<1>3. CASE Done(i, c) /\ Fine /\ UNCHANGED slipped
  <2>1. PICK e \in EventRecords : e.pc = "done" /\ event' = [event EXCEPT ![i][c] = e]
    BY <1>3, DoneChanges
  <2> QED BY <1>1, <1>2, <1>3, <2>1, StillBeforeCheck
<1>4. ASSUME To(i, c, "send")
      PROVE  \E e \in EventRecords : e.pc = "send" /\ event' = [event EXCEPT ![i][c] = e]
  <2>1. "send" \in EventPcs
    BY DEF EventPcs
  <2>2. MovedTo(i, c, "send")
    BY <1>1, <1>4, <2>1, PcChanges, Zenon
  <2>3. PICK e \in EventRecords :
          /\ e.pc = "send" /\ e.verdict = event[i][c].verdict
          /\ event' = [event EXCEPT ![i][c] = e]
    BY <2>2 DEF MovedTo
  <2> QED BY <2>3
<1>5. ASSUME To(i, c, "send"), Mishap \/ Fine, slipped' = slipped \cup {i}
      PROVE  IInv'
  <2>1. PICK e \in EventRecords : e.pc = "send" /\ event' = [event EXCEPT ![i][c] = e]
    BY <1>4, <1>5
  <2>2. "None" \in Verdicts
    BY DEF Verdicts
  <2> QED BY <1>1, <1>2, <1>5, <2>1, <2>2, Slips
<1>6. CASE i \notin marker /\ To(i, c, "send") /\ Fine /\ ~Overlapped(i, c) /\ slipped' = slipped
  <2>1. PICK e \in EventRecords : e.pc = "send" /\ event' = [event EXCEPT ![i][c] = e]
    BY <1>4, <1>6
  <2>2. event' \in [Runs -> [Copies -> EventRecords]] /\ Becomes(i, c, e)
    BY <1>1, <2>1, EventChange
  <2>3. TypeOK'
    BY <1>1, <1>2, <1>6, <2>2, MishapType DEF TypeOK
  <2>4. MarkedOnlyIfPushed' /\ ToldBeforeMarked' /\ QuietUntilStopped'
    BY <1>1, <1>2, <2>1, <2>2
       DEF IInv, MarkedOnlyIfPushed, ToldBeforeMarked, QuietUntilStopped, stopped, Becomes
  <2>5. \A j \in Runs \ (slipped' \cup {i}) : Deduplicated(j)'
    BY <1>2, <1>6, <2>2, OthersDeduplicated
  <2>6. i \notin slipped => Deduplicated(i)'
    <3> SUFFICES ASSUME i \notin slipped PROVE Deduplicated(i)'
      OBVIOUS
    <3>1. Deduplicated(i)
      BY DEF IInv
    <3>2. \A d \in Copies : d # c => ~Sending(i, d) /\ ~Sending(i, d)'
      BY <1>6, <2>2 DEF Overlapped, Sending, Becomes
    <3>3. pushed[i] = <<>>
      BY <1>1, <1>6, <3>1, <3>2 DEF Deduplicated, Sending
    <3>4. pushed'[i] = <<>> /\ Len(pushed'[i]) <= 1
      BY <1>2, <3>3
    <3> QED BY <3>2, <3>4 DEF Deduplicated
  <2> QED BY <1>6, <2>3, <2>4, <2>5, <2>6 DEF IInv
<1> QED BY <1>3, <1>5, <1>6 DEF Check

LEMMA SendSteps ==
    ASSUME IInv, NEW i \in Runs, NEW c \in Copies, Send(i, c)
    PROVE  IInv'
<1>1. TypeOK /\ stopped(i) /\ event[i][c].pc = "send"
  BY DEF IInv, QuietUntilStopped, Send
<1>2. UNCHANGED <<task, record, marker>> /\ misread' = misread /\ misread' \subseteq Runs
  BY <1>1 DEF Send, TypeOK
<1> DEFINE v == event[i][c].verdict
<1>3. v \in Verdicts
  BY <1>1 DEF TypeOK, EventRecords
<1>4. CASE To(i, c, "mark") /\ Fine /\ pushed' = [pushed EXCEPT ![i] = Append(@, v)]
           /\ UNCHANGED slipped
  <2>1. "mark" \in EventPcs
    BY DEF EventPcs
  <2>2. MovedTo(i, c, "mark")
    BY <1>1, <1>4, <2>1, PcChanges, Zenon
  <2>3. PICK e \in EventRecords :
          /\ e.pc = "mark" /\ e.verdict = event[i][c].verdict
          /\ event' = [event EXCEPT ![i][c] = e]
    BY <2>2 DEF MovedTo
  <2>4. event' \in [Runs -> [Copies -> EventRecords]] /\ Becomes(i, c, e)
    BY <1>1, <2>3, EventChange
  <2>5. /\ pushed' \in [Runs -> Seq(Verdicts)]
        /\ pushed'[i] # <<>> /\ Len(pushed'[i]) = Len(pushed[i]) + 1
        /\ \A j \in Runs \ {i} : pushed'[j] = pushed[j]
    BY <1>1, <1>3, <1>4, Pushes
  <2>6. TypeOK'
    BY <1>1, <1>2, <1>4, <2>4, <2>5, MishapType DEF TypeOK
  <2>7. MarkedOnlyIfPushed'
    BY <1>1, <1>2, <2>5 DEF IInv, MarkedOnlyIfPushed, TypeOK
  <2>8. ToldBeforeMarked'
    BY <2>4, <2>5 DEF IInv, ToldBeforeMarked, Becomes
  <2>9. QuietUntilStopped'
    BY <1>1, <1>2, <2>4 DEF IInv, QuietUntilStopped, stopped, Becomes
  <2>10. \A j \in Runs \ (slipped' \cup {i}) : Deduplicated(j)'
    BY <1>2, <1>4, <2>4, <2>5, OthersDeduplicated
  <2>11. i \notin slipped => Deduplicated(i)'
    <3> SUFFICES ASSUME i \notin slipped PROVE Deduplicated(i)'
      OBVIOUS
    <3>1. Deduplicated(i)
      BY DEF IInv
    <3>2. \A d \in Copies : d # c => ~Sending(i, d)
      BY <1>1, <3>1 DEF Deduplicated, Sending
    <3>3. \A d \in Copies : d # c => ~Sending(i, d)'
      BY <2>4, <3>2 DEF Sending, Becomes
    <3>4. pushed[i] = <<>>
      BY <1>1, <3>1 DEF Deduplicated
    <3>5. Len(pushed'[i]) <= 1
      BY <2>5, <3>4
    <3>6. event'[i][c].pc = "mark"
      BY <2>3, <2>4 DEF Becomes
    <3> QED BY <3>3, <3>5, <3>6 DEF Deduplicated, Sending
  <2> QED BY <1>4, <2>6, <2>7, <2>8, <2>9, <2>10, <2>11 DEF IInv
<1>5. CASE Retry(i, c) /\ UNCHANGED <<pushed, slipped>>
  <2>1. PICK e \in EventRecords : e.pc \in {"queued", "lost"} /\ event' = [event EXCEPT ![i][c] = e]
    BY <1>1, <1>5, RetryChanges
  <2>2. Mishap
    BY <1>5 DEF Retry
  <2> QED BY <1>1, <1>2, <1>5, <2>1, <2>2, StillBeforeCheck
<1>6. CASE Retry(i, c) /\ pushed' = [pushed EXCEPT ![i] = Append(@, v)]
           /\ slipped' = slipped \cup {i}
  <2>1. PICK e \in EventRecords : e.pc \in {"queued", "lost"} /\ event' = [event EXCEPT ![i][c] = e]
    BY <1>1, <1>6, RetryChanges
  <2>2. Mishap
    BY <1>6 DEF Retry
  <2> QED BY <1>1, <1>2, <1>3, <1>6, <2>1, <2>2, Slips
<1> QED BY <1>4, <1>5, <1>6 DEF Send

LEMMA MarkSteps ==
    ASSUME IInv, NEW i \in Runs, NEW c \in Copies, Mark(i, c)
    PROVE  IInv'
<1>1. TypeOK /\ stopped(i) /\ event[i][c].pc = "mark"
  BY DEF IInv, QuietUntilStopped, Mark
<1>2. UNCHANGED <<task, record, pushed>> /\ misread' = misread /\ misread' \subseteq Runs
  BY <1>1 DEF Mark, TypeOK
<1>3. CASE Done(i, c) /\ Fine /\ marker' = marker \cup {i} /\ UNCHANGED slipped
  <2>1. PICK e \in EventRecords : e.pc = "done" /\ event' = [event EXCEPT ![i][c] = e]
    BY <1>3, DoneChanges
  <2>2. event' \in [Runs -> [Copies -> EventRecords]] /\ Becomes(i, c, e)
    BY <1>1, <2>1, EventChange
  <2>3. TypeOK'
    BY <1>1, <1>2, <1>3, <2>2, MishapType DEF TypeOK
  <2>4. MarkedOnlyIfPushed'
    BY <1>1, <1>2, <1>3 DEF IInv, MarkedOnlyIfPushed, ToldBeforeMarked
  <2>5. ToldBeforeMarked'
    BY <1>2, <2>1, <2>2 DEF IInv, ToldBeforeMarked, Becomes
  <2>6. QuietUntilStopped'
    BY <1>1, <1>2, <2>2 DEF IInv, QuietUntilStopped, stopped, Becomes
  <2>7. \A j \in Runs \ (slipped' \cup {i}) : Deduplicated(j)'
    BY <1>2, <1>3, <2>2, OthersDeduplicated
  <2>8. i \notin slipped => Deduplicated(i)'
    <3> SUFFICES ASSUME i \notin slipped PROVE Deduplicated(i)'
      OBVIOUS
    <3>1. Deduplicated(i)
      BY DEF IInv
    <3>2. \A d \in Copies : ~Sending(i, d)'
      BY <1>1, <2>1, <2>2, <3>1 DEF Deduplicated, Sending, Becomes
    <3>3. Len(pushed'[i]) <= 1 /\ i \in marker'
      BY <1>2, <1>3, <3>1 DEF Deduplicated
    <3> QED BY <3>2, <3>3 DEF Deduplicated, Sending
  <2> QED BY <1>3, <2>3, <2>4, <2>5, <2>6, <2>7, <2>8 DEF IInv
<1>4. CASE Done(i, c) /\ Mishap /\ slipped' = slipped \cup {i} /\ UNCHANGED marker
  <2>1. PICK e \in EventRecords : e.pc = "done" /\ event' = [event EXCEPT ![i][c] = e]
    BY <1>4, DoneChanges
  <2>2. "None" \in Verdicts
    BY DEF Verdicts
  <2> QED BY <1>1, <1>2, <1>4, <2>1, <2>2, Slips
<1>5. CASE Retry(i, c) /\ slipped' = slipped \cup {i} /\ UNCHANGED marker
  <2>1. PICK e \in EventRecords : e.pc \in {"queued", "lost"} /\ event' = [event EXCEPT ![i][c] = e]
    BY <1>1, <1>5, RetryChanges
  <2>2. Mishap /\ "None" \in Verdicts
    BY <1>5 DEF Retry, Verdicts
  <2> QED BY <1>1, <1>2, <1>5, <2>1, <2>2, Slips
<1> QED BY <1>3, <1>4, <1>5 DEF Mark

-----------------------------------------------------------------------------
(* The theorems.                                                           *)

\* Every step keeps a marker behind a push and, for a run with no failure of
\* its deduplication, one invocation at a time between its check and its mark.
THEOREM AlertsAreDeduplicated == Spec => []IInv
<1>1. Init => IInv
  <2> SUFFICES ASSUME Init PROVE IInv
    OBVIOUS
  <2>1. TypeOK
    <3>1. 0 \in 0..(MaxTries - 1) /\ 0 \in 0..MaxMishaps
      BY OpsAlertAssumption
    <3>2. [pc |-> "none", verdict |-> "None", tries |-> 0] \in EventRecords
      BY <3>1 DEF EventRecords, Verdicts
    <3>3. [pc |-> "idle", key |-> NoKey, exit |-> "ok"] \in TaskRecords
      BY DEF TaskRecords
    <3>4. <<>> \in Seq(Verdicts)
      OBVIOUS
    <3> QED BY <3>1, <3>2, <3>3, <3>4 DEF Init, TypeOK
  <2>2. \A i \in Runs, c \in Copies : event[i][c].pc = "none"
    BY DEF Init
  <2>3. \A i \in Runs : pushed[i] = <<>> /\ Len(pushed[i]) = 0
    BY DEF Init
  <2>4. marker = {}
    BY DEF Init
  <2> QED BY <2>1, <2>2, <2>3, <2>4 DEF IInv, MarkedOnlyIfPushed, ToldBeforeMarked,
             QuietUntilStopped, Deduplicated, Sending
<1>2. IInv /\ [Next]_vars => IInv'
  <2> SUFFICES ASSUME IInv, [Next]_vars PROVE IInv'
    OBVIOUS
  <2>1. CASE UNCHANGED vars
    BY <2>1 DEF vars, IInv, TypeOK, MarkedOnlyIfPushed, ToldBeforeMarked,
       QuietUntilStopped, stopped, Deduplicated, Sending
  <2>2. ASSUME NEW i \in Runs, TaskStep(i) PROVE IInv'
    BY <2>2, TaskSteps
  <2>3. ASSUME NEW i \in Runs, NEW c \in Copies, Redeliver(i, c) PROVE IInv'
    BY <2>3, RedeliverSteps
  <2>4. ASSUME NEW i \in Runs, NEW c \in Copies, HandlerStep(i, c) PROVE IInv'
    BY <2>4, JudgeSteps, CheckSteps, SendSteps, MarkSteps DEF HandlerStep
  <2> QED BY <2>1, <2>2, <2>3, <2>4 DEF Next
<1> QED BY <1>1, <1>2, PTL DEF Spec

\* A marker, which silences every later delivery about a run, is written only
\* when the operator has been told of the run: check, send, mark (alertmarker).
THEOREM NothingIsSilenced == Spec => []MarkedOnlyIfPushed
<1>1. IInv => MarkedOnlyIfPushed
  BY DEF IInv
<1> QED BY <1>1, AlertsAreDeduplicated, PTL

\* A run pages twice only when a marker was unreadable or unwritable, an answer
\* was lost after the delivery, or two invocations were past their check at once.
THEOREM OneAlertUnlessSlipped == Spec => []OnePushPerTask
<1>1. IInv => OnePushPerTask
  BY DEF IInv, OnePushPerTask, Deduplicated, TypeOK
<1> QED BY <1>1, AlertsAreDeduplicated, PTL

-----------------------------------------------------------------------------
(* The count of a key's consecutive failures, without its recursion.       *)

\* The failures of key k up to run n that no success of it comes after.
FailedSince(k, n) ==
    {i \in 1..n : /\ task[i].key = k /\ record[i] = "FAILED"
                  /\ \A j \in i..n : task[j].key = k => record[j] # "SUCCESS"}
Count(k, n) == Cardinality(FailedSince(k, n))

LEMMA CountIsFinite ==
    ASSUME NEW k, NEW n \in 0..MaxRuns
    PROVE  IsFiniteSet(FailedSince(k, n)) /\ Count(k, n) \in Nat
<1>1. n \in Int /\ FailedSince(k, n) \in SUBSET (1..n)
  BY OpsAlertAssumption DEF FailedSince
<1>2. IsFiniteSet(FailedSince(k, n))
  BY <1>1, FS_Interval, FS_Subset
<1> QED BY <1>2, FS_CardinalityType DEF Count

\* One run more.
LEMMA CountOneMore ==
    ASSUME NEW k, NEW m \in Runs
    PROVE  Count(k, m) = IF task[m].key # k THEN Count(k, m - 1)
                         ELSE IF record[m] = "FAILED" THEN Count(k, m - 1) + 1
                         ELSE IF record[m] = "SUCCESS" THEN 0
                         ELSE Count(k, m - 1)
<1>1. m \in Int /\ m >= 1 /\ m - 1 \in 0..MaxRuns
  BY OpsAlertAssumption DEF Runs
<1>2. CASE task[m].key # k \/ record[m] \notin {"FAILED", "SUCCESS"}
  <2>1. FailedSince(k, m) = FailedSince(k, m - 1)
    BY <1>1, <1>2 DEF FailedSince
  <2> QED BY <1>2, <2>1 DEF Count
<1>3. CASE task[m].key = k /\ record[m] = "FAILED"
  <2>1. FailedSince(k, m) = FailedSince(k, m - 1) \cup {m}
    BY <1>1, <1>3 DEF FailedSince
  <2>2. m \notin FailedSince(k, m - 1)
    BY <1>1 DEF FailedSince
  <2>3. IsFiniteSet(FailedSince(k, m - 1))
    BY <1>1, CountIsFinite
  <2>4. Cardinality(FailedSince(k, m - 1) \cup {m}) = Cardinality(FailedSince(k, m - 1)) + 1
    BY <2>2, <2>3, FS_AddElement
  <2> QED BY <1>3, <2>1, <2>4 DEF Count
<1>4. CASE task[m].key = k /\ record[m] = "SUCCESS"
  <2>1. FailedSince(k, m) = {}
    BY <1>1, <1>4 DEF FailedSince
  <2> QED BY <1>4, <2>1, FS_EmptySet DEF Count
<1> QED BY <1>2, <1>3, <1>4

CountStep(k, g, m) ==
    IF m = 0 THEN 0
    ELSE IF task[m].key # k THEN g[m - 1]
    ELSE CASE record[m] = "FAILED"  -> g[m - 1] + 1
           [] record[m] = "SUCCESS" -> 0
           [] OTHER                 -> g[m - 1]
Counter(k) == CHOOSE g : g = [m \in 0..MaxRuns |-> CountStep(k, g, m)]

LEMMA FailuresIsCounter ==
    ASSUME NEW k, NEW n
    PROVE  failures(k, n) = Counter(k)[n]
  BY DEF failures, Counter, CountStep

\* Any two functions that count as failures does are one: they would differ
\* first at a run before which they agree.
LEMMA CounterIsCount ==
    ASSUME NEW k, NEW n \in 0..MaxRuns
    PROVE  Counter(k)[n] = Count(k, n)
<1> DEFINE g == [m \in 0..MaxRuns |-> Count(k, m)]
<1>1. \A m \in 0..MaxRuns : m = 0 \/ (m \in Runs /\ m - 1 \in 0..MaxRuns)
  BY OpsAlertAssumption DEF Runs
<1>2. Count(k, 0) = 0
  <2>1. FailedSince(k, 0) = {}
    BY DEF FailedSince
  <2> QED BY <2>1, FS_EmptySet DEF Count
<1>3. \A m \in 0..MaxRuns : CountStep(k, g, m) = Count(k, m)
  <2> SUFFICES ASSUME NEW m \in 0..MaxRuns PROVE CountStep(k, g, m) = Count(k, m)
    OBVIOUS
  <2>1. CASE m = 0
    BY <1>2, <2>1 DEF CountStep
  <2>2. CASE m # 0
    <3>1. m \in Runs /\ g[m - 1] = Count(k, m - 1)
      BY <1>1, <2>2
    <3> HIDE DEF g
    <3> QED BY <2>2, <3>1, CountOneMore DEF CountStep
  <2> QED BY <2>1, <2>2
<1>4. g = [m \in 0..MaxRuns |-> CountStep(k, g, m)]
  BY <1>3
<1> DEFINE f == Counter(k)
<1>5. f = [m \in 0..MaxRuns |-> CountStep(k, f, m)]
  <2> HIDE DEF g
  <2> QED BY <1>4 DEF Counter
<1> HIDE DEF f
<1> DEFINE T == {m \in 0..MaxRuns : f[m] # Count(k, m)}
           R == OpToRel(<, Nat)
<1>6. SUFFICES ASSUME T # {} PROVE FALSE
  BY <1>6 DEF f
<1>7. T \subseteq Nat /\ IsWellFoundedOn(R, Nat)
  <2>1. IsWellFoundedOn(R, Nat)
    BY NatLessThanWellFounded
  <2>2. T \subseteq Nat
    OBVIOUS
  <2> QED BY <2>1, <2>2
<1>8. PICK m \in T : \A y \in T : <<y, m>> \notin R
  <2> HIDE DEF R, T
  <2> QED BY <1>6, <1>7, WFMin
<1>9. m \in 0..MaxRuns /\ f[m] # Count(k, m)
  OBVIOUS
<1>10. CASE m = 0
  BY <1>2, <1>5, <1>9, <1>10 DEF CountStep
<1>11. CASE m # 0
  <2>1. m \in Runs /\ m - 1 \in 0..MaxRuns
    BY <1>1, <1>9, <1>11
  <2>2. m - 1 \notin T
    <3>1. m - 1 \in Nat /\ m \in Nat /\ m - 1 < m
      BY <1>1, <1>9, <2>1
    <3>2. <<m - 1, m>> \in R
      BY <3>1 DEF OpToRel
    <3> QED BY <1>8, <3>2
  <2>3. f[m - 1] = Count(k, m - 1)
    BY <2>1, <2>2
  <2>4. f[m] = CountStep(k, f, m)
    BY <1>5, <1>9
  <2> QED BY <1>9, <1>11, <2>1, <2>3, <2>4, CountOneMore DEF CountStep
<1> QED BY <1>10, <1>11

\* What a run is due, by that count.
DueOf(i) ==
    LET before == Count(task[i].key, i - 1) IN
    CASE record[i] = "FAILED" /\ before = 0              -> "Started"
      [] record[i] = "FAILED" /\ before = EscalateAt - 1 -> "Escalated"
      [] record[i] = "SUCCESS" /\ before > 0             -> "Recovered"
      [] record[i] \notin Terminal /\ task[i].exit = "failed" -> "Crash"
      [] OTHER -> "None"

LEMMA DueIsDueOf ==
    ASSUME NEW i \in Runs
    PROVE  Due(i) = DueOf(i)
<1>1. i - 1 \in 0..MaxRuns
  BY OpsAlertAssumption DEF Runs
<1>2. failures(task[i].key, i - 1) = Count(task[i].key, i - 1)
  BY <1>1, FailuresIsCounter, CounterIsCount
<1> QED BY <1>2 DEF Due, DueOf

-----------------------------------------------------------------------------
(* The pages.  Where the handler sees the whole history and a run's event is *)
(* handled before its key's next run ends, what a delivery says is what the   *)
(* count says, when it is judged and ever after; where a record of the key    *)
(* could not be read, it still fits how the run ended.                        *)

\* Runs start in their order.
StartedInOrder == \A i, j \in Runs : j < i /\ started(i) => started(j)

\* A run that has not ended has no terminal record; one that has came after
\* every delivery about its key's earlier runs was handled.
HasEnded(i) == task[i].pc = "ending" \/ record[i] \in Terminal
RecordsFit == \A i \in Runs : task[i].pc \in {"idle", "running"} => record[i] \notin Terminal
JudgedInTurn == \A i \in Runs : HasEnded(i) => EarlierJudged(i)

ToldWhenStopped == \A i \in Runs : pushed[i] # <<>> => stopped(i)

\* What may be said of run i.
Sayable(i, v) == v = DueOf(i) \/ (i \in misread /\ v \in Plausible(i))

\* A delivery on its way to its push carries an alert that may be said.
VerdictsAreDue ==
    \A i \in Runs, c \in Copies : event[i][c].pc \in {"check", "send", "mark"} =>
        Sayable(i, event[i][c].verdict) /\ event[i][c].verdict # "None"

AlertsAreDue ==
    \A i \in Runs :
        /\ \A n \in DOMAIN pushed[i] : Sayable(i, pushed[i][n])
        /\ (\E c \in Copies : event[i][c].pc = "done") /\ DueOf(i) # "None"
              => pushed[i] # <<>> \/ i \in misread

InTurn == StartedInOrder /\ RecordsFit /\ JudgedInTurn
PageInv == InTurn /\ ToldWhenStopped /\ VerdictsAreDue /\ AlertsAreDue

Active == {"queued", "check", "send", "mark"}

\* What a run is due is settled when it stops.
LEMMA DueStays ==
    ASSUME NEW i \in Runs, task'[i] = task[i], record'[i] = record[i],
           record[i] \in Terminal =>
               \A j \in Runs : j < i =>
                   \/ task'[j] = task[j] /\ record'[j] = record[j]
                   \/ task[j].key # task[i].key /\ task'[j].key = task[j].key
    PROVE  DueOf(i)' = DueOf(i)
<1>1. PICK k : k = task[i].key /\ k = task'[i].key
  OBVIOUS
<1>2. ASSUME record[i] \in Terminal
      PROVE  FailedSince(k, i - 1)' = FailedSince(k, i - 1)
  <2>1. \A j \in 1..(i - 1) : j \in Runs /\ j < i
    BY OpsAlertAssumption DEF Runs
  <2>2. \A j \in 1..(i - 1) : /\ task'[j].key = k <=> task[j].key = k
                              /\ task[j].key = k => record'[j] = record[j]
    BY <1>1, <1>2, <2>1
  <2> HIDE <1>1
  <2>3. \A x \in 1..(i - 1) : \A j \in x..(i - 1) : j \in 1..(i - 1)
    BY OpsAlertAssumption DEF Runs
  <2> QED BY <2>2, <2>3 DEF FailedSince
<1>3. CASE record[i] \in Terminal
  <2>1. Count(task[i].key, i - 1)' = Count(task[i].key, i - 1)
    <3>1. Count(k, i - 1)' = Count(k, i - 1)
      BY <1>2, <1>3 DEF Count
    <3>2. Count(task[i].key, i - 1) = Count(k, i - 1)
      BY <1>1
    <3>3. Count(task[i].key, i - 1)' = Count(k, i - 1)'
      BY <1>1 DEF Count, FailedSince
    <3> QED BY <3>1, <3>2, <3>3
  <2> QED BY <2>1 DEF DueOf
<1>4. CASE record[i] \notin Terminal
  BY <1>4 DEF DueOf, Terminal
<1> QED BY <1>3, <1>4

-----------------------------------------------------------------------------
(* The task steps.                                                         *)

TaskMoves(m) ==
    /\ ~stopped(m) /\ task'[m].pc # "idle"
    /\ \A j \in Runs \ {m} : task'[j] = task[j] /\ record'[j] = record[j] /\ event'[j] = event[j]
    /\ started(m) => task'[m].key = task[m].key
    /\ ~started(m) => \A j \in Runs : j < m => started(j)
    /\ (task'[m].pc = "ending" \/ record'[m] \in Terminal) => started(m) /\ EarlierJudged(m)
    /\ task'[m].pc = "running" => record'[m] \notin Terminal
    /\ \A c \in Copies : event'[m][c] = event[m][c] \/ event'[m][c].pc = "queued"
    /\ UNCHANGED <<marker, pushed, misread>>

LEMMA StopMoves ==
    ASSUME InOrder, TypeOK, InTurn, NEW m \in Runs, NEW x, Stopped(m, x),
           task[m].pc \in {"running", "ending"},
           \/ record' = record
           \/ task[m].pc = "ending" /\ record' = [record EXCEPT ![m] = "FAILED"],
           UNCHANGED <<marker, pushed, misread>>
    PROVE  TaskMoves(m)
<1>1. task[m] \in TaskRecords /\ started(m) /\ ~stopped(m)
  BY DEF TypeOK, started, stopped
<1>2. /\ task'[m].pc = "stopped" /\ task'[m].key = task[m].key
      /\ \A j \in Runs \ {m} : task'[j] = task[j]
  BY <1>1 DEF Stopped, TypeOK, TaskRecords
<1>3. /\ \A j \in Runs \ {m} : event'[j] = event[j]
      /\ \A c \in Copies : event'[m][c] = event[m][c] \/ event'[m][c].pc = "queued"
  BY DEF Stopped, TypeOK, EventRecords
<1>4. \A j \in Runs \ {m} : record'[j] = record[j]
  BY DEF TypeOK
<1>5. record'[m] \in Terminal => EarlierJudged(m)
  BY DEF TypeOK, InTurn, RecordsFit, JudgedInTurn, HasEnded
<1> QED BY <1>1, <1>2, <1>3, <1>4, <1>5 DEF TaskMoves

LEMMA TasksMove ==
    ASSUME InOrder, TypeOK, InTurn, NEW m \in Runs, TaskStep(m)
    PROVE  TaskMoves(m)
<1>1. task[m] \in TaskRecords
  BY DEF TypeOK
<1>2. ASSUME NEW k \in Keys, Start(m, k) PROVE TaskMoves(m)
  <2>1. /\ task'[m].pc = "running" /\ \A j \in Runs \ {m} : task'[j] = task[j]
        /\ ~started(m) /\ ~stopped(m) /\ \A j \in Runs : j < m => started(j)
    BY <1>1, <1>2 DEF Start, TypeOK, TaskRecords, started, stopped
  <2>2. record[m] \notin Terminal
    BY <2>1 DEF InTurn, RecordsFit, started
  <2>3. record'[m] \notin Terminal /\ \A j \in Runs \ {m} : record'[j] = record[j]
    BY <1>2, <2>2 DEF Start, TypeOK, Terminal
  <2> QED BY <1>2, <2>1, <2>3 DEF Start, TaskMoves
<1>3. CASE Finish(m)
  <2>1. PICK status \in Terminal, x \in {"failed", "ok"} :
          /\ task' = [task EXCEPT ![m].pc = "ending", ![m].exit = x]
          /\ record' = [record EXCEPT ![m] = status] \/ record' = record
    BY <1>3 DEF Finish
  <2>2. /\ task'[m].pc = "ending" /\ task'[m].key = task[m].key
        /\ \A j \in Runs \ {m} : task'[j] = task[j]
        /\ \A j \in Runs \ {m} : record'[j] = record[j]
    BY <1>1, <2>1 DEF TypeOK, TaskRecords
  <2>3. started(m) /\ ~stopped(m) /\ EarlierJudged(m)
        /\ UNCHANGED <<event, marker, pushed, misread>>
    BY <1>3 DEF Finish, started, stopped
  <2> QED BY <2>2, <2>3 DEF TaskMoves
<1>4. CASE Exit(m)
  BY <1>4, StopMoves DEF Exit
<1>5. CASE Terminate(m)
  BY <1>5, StopMoves DEF Terminate
<1>6. CASE Kill(m)
  BY <1>6, StopMoves DEF Kill
<1> QED BY <1>2, <1>3, <1>4, <1>5, <1>6 DEF TaskStep

LEMMA TasksKeepTurn ==
    ASSUME TypeOK, InTurn, NEW m \in Runs, TaskMoves(m)
    PROVE  InTurn'
<1>1. StartedInOrder'
  <2> SUFFICES ASSUME NEW i \in Runs, NEW j \in Runs, j < i, task'[i].pc # "idle"
               PROVE  task'[j].pc # "idle"
    BY DEF StartedInOrder, started
  <2>1. CASE j = m
    BY <2>1 DEF TaskMoves
  <2>2. CASE j # m /\ i # m
    BY <2>2 DEF TaskMoves, InTurn, StartedInOrder, started
  <2>3. CASE j # m /\ i = m
    BY <2>3 DEF TaskMoves, InTurn, StartedInOrder, started
  <2> QED BY <2>1, <2>2, <2>3
<1>2. RecordsFit'
  BY DEF TaskMoves, InTurn, RecordsFit
<1>3. ASSUME NEW i \in Runs, HasEnded(i)' PROVE EarlierJudged(i)'
  <2>1. EarlierJudged(i) /\ started(i) /\ task'[i].key = task[i].key
    <3>1. CASE i = m
      BY <1>3, <3>1 DEF TaskMoves, HasEnded
    <3>2. CASE i # m
      BY <1>3, <3>2 DEF TaskMoves, HasEnded, InTurn, JudgedInTurn, RecordsFit, started
    <3> QED BY <3>1, <3>2
  <2> SUFFICES ASSUME NEW j \in Runs, j < i, task'[j].key = task'[i].key
               PROVE  /\ task'[j].pc = "stopped"
                      /\ \A c \in Copies : event'[j][c].pc \in {"none", "done", "lost"}
    BY DEF EarlierJudged, stopped
  <2>2. CASE j # m
    BY <2>1, <2>2 DEF TaskMoves, EarlierJudged, stopped
  <2>3. j # m
    <3> SUFFICES ASSUME j = m PROVE FALSE
      OBVIOUS
    <3>1. started(m)
      BY <2>1 DEF InTurn, StartedInOrder
    <3>2. task[m].key = task[i].key
      BY <2>1, <3>1 DEF TaskMoves
    <3>3. stopped(m)
      BY <2>1, <3>2 DEF EarlierJudged
    <3> QED BY <3>3 DEF TaskMoves
  <2> QED BY <2>2, <2>3
<1> QED BY <1>1, <1>2, <1>3 DEF InTurn, JudgedInTurn

LEMMA TasksKeepPages ==
    ASSUME InOrder, IInv, PageInv, NEW m \in Runs, TaskStep(m)
    PROVE  PageInv'
<1>1. TypeOK /\ InTurn /\ TaskMoves(m)
  BY TasksMove DEF IInv, PageInv
<1>2. InTurn'
  BY <1>1, TasksKeepTurn
<1>3. /\ \A c \in Copies : event[m][c].pc = "none"
      /\ pushed[m] = <<>>
  BY <1>1 DEF IInv, QuietUntilStopped, PageInv, ToldWhenStopped, TaskMoves
<1>4. ASSUME NEW i \in Runs, i # m, stopped(i)
      PROVE  DueOf(i)' = DueOf(i) /\ \A v : Sayable(i, v)' <=> Sayable(i, v)
  <2>1. task'[i] = task[i] /\ record'[i] = record[i]
    BY <1>1, <1>4 DEF TaskMoves
  <2>2. ASSUME record[i] \in Terminal, NEW j \in Runs, j < i
        PROVE  \/ task'[j] = task[j] /\ record'[j] = record[j]
               \/ task[j].key # task[i].key /\ task'[j].key = task[j].key
    <3>1. EarlierJudged(i) /\ started(j)
      BY <1>1, <1>4, <2>2 DEF InTurn, JudgedInTurn, HasEnded, StartedInOrder, started, stopped
    <3>2. CASE j # m
      BY <1>1, <3>2 DEF TaskMoves
    <3>3. CASE j = m
      BY <1>1, <2>2, <3>1, <3>3 DEF TaskMoves, EarlierJudged
    <3> QED BY <3>2, <3>3
  <2>3. DueOf(i)' = DueOf(i)
    BY <2>1, <2>2, DueStays
  <2>4. misread' = misread /\ Plausible(i)' = Plausible(i)
    BY <1>1, <2>1 DEF TaskMoves, Plausible
  <2> QED BY <2>3, <2>4 DEF Sayable
<1>5. ToldWhenStopped'
  BY <1>1, <1>3 DEF PageInv, ToldWhenStopped, TaskMoves, stopped
<1>6. VerdictsAreDue'
  <2> SUFFICES ASSUME NEW i \in Runs, NEW c \in Copies, event'[i][c].pc \in {"check", "send", "mark"}
               PROVE  Sayable(i, event[i][c].verdict)' /\ event'[i][c].verdict # "None"
    BY DEF VerdictsAreDue
  <2>1. i # m
    BY <1>1, <1>3 DEF TaskMoves
  <2>2. event'[i][c] = event[i][c] /\ stopped(i)
    BY <1>1, <2>1 DEF TaskMoves, IInv, QuietUntilStopped
  <2> QED BY <1>4, <2>1, <2>2 DEF PageInv, VerdictsAreDue
<1>7. AlertsAreDue'
  <2> SUFFICES ASSUME NEW i \in Runs
               PROVE  /\ \A n \in DOMAIN pushed'[i] : Sayable(i, pushed[i][n])'
                      /\ (\E c \in Copies : event'[i][c].pc = "done") /\ DueOf(i)' # "None"
                            => pushed'[i] # <<>> \/ i \in misread'
    BY DEF AlertsAreDue
  <2>1. pushed'[i] = pushed[i] /\ misread' = misread
    BY <1>1 DEF TaskMoves
  <2>2. CASE i = m
    <3>1. DOMAIN pushed[i] = {}
      BY <1>3, <2>2
    <3>2. \A c \in Copies : event'[i][c].pc # "done"
      BY <1>1, <1>3, <2>2 DEF TaskMoves
    <3> QED BY <2>1, <3>1, <3>2
  <2>3. CASE i # m /\ stopped(i)
    BY <1>1, <1>4, <2>1, <2>3 DEF TaskMoves, PageInv, AlertsAreDue
  <2>4. CASE i # m /\ ~stopped(i)
    <3>1. pushed[i] = <<>> /\ DOMAIN pushed[i] = {}
      BY <2>4 DEF PageInv, ToldWhenStopped
    <3>2. \A c \in Copies : event'[i][c].pc # "done"
      BY <1>1, <2>4 DEF TaskMoves, IInv, QuietUntilStopped
    <3> QED BY <2>1, <3>1, <3>2
  <2> QED BY <2>2, <2>3, <2>4
<1> QED BY <1>2, <1>5, <1>6, <1>7 DEF PageInv

-----------------------------------------------------------------------------
(* What the handler says is what the count says.                           *)

\* With the whole history in its window, the handler reads every record.
LEMMA SeesEverything ==
    ASSUME MaxRuns <= Window
    PROVE  recent = {i \in Runs : record[i] # "none"}
<1> DEFINE all == {i \in Runs : record[i] # "none"}
<1> SUFFICES ASSUME NEW i \in all PROVE Cardinality({j \in all : j > i}) < Window
  BY DEF recent
<1>1. i \in Int /\ i >= 1 /\ i <= MaxRuns /\ MaxRuns \in Int /\ Window \in Int
  BY OpsAlertAssumption DEF Runs
<1>2. {j \in all : j > i} \in SUBSET ((i + 1)..MaxRuns)
  BY <1>1 DEF Runs
<1>3. IsFiniteSet((i + 1)..MaxRuns) /\ Cardinality((i + 1)..MaxRuns) <= MaxRuns - i
  <2>1. i + 1 \in Int
    BY <1>1
  <2>2. /\ IsFiniteSet((i + 1)..MaxRuns)
        /\ Cardinality((i + 1)..MaxRuns) = IF i + 1 > MaxRuns THEN 0 ELSE MaxRuns - (i + 1) + 1
    BY <1>1, <2>1, FS_Interval
  <2> QED BY <1>1, <2>2
<1> HIDE DEF all
<1>4. /\ Cardinality({j \in all : j > i}) \in Nat
      /\ Cardinality({j \in all : j > i}) <= Cardinality((i + 1)..MaxRuns)
      /\ Cardinality((i + 1)..MaxRuns) \in Nat
  BY <1>2, <1>3, FS_Subset, FS_CardinalityType
<1> QED BY <1>1, <1>3, <1>4

\* A run whose delivery is to be judged is the last of its key to have ended.
LEMMA NewestIsJudged ==
    ASSUME TypeOK, InTurn, MaxRuns <= Window,
           NEW i \in Runs, NEW c \in Copies, event[i][c].pc \in Active, record[i] \in Terminal
    PROVE  /\ history(recent, task[i].key) =
                  {j \in 1..i : task[j].key = task[i].key /\ record[j] \in Terminal}
           /\ i \in history(recent, task[i].key)
<1> DEFINE k == task[i].key
           H == history(recent, k)
<1>1. \A j \in Runs : j \in Int /\ (j <= i <=> j \in 1..i) /\ (j <= i \/ i < j)
  BY OpsAlertAssumption DEF Runs
<1>2. 1..i \subseteq Runs
  BY OpsAlertAssumption DEF Runs
<1>3. \A j \in Runs : i < j /\ task[j].key = k => record[j] \notin Terminal
  BY DEF InTurn, JudgedInTurn, HasEnded, EarlierJudged, Active
<1>4. "none" \notin Terminal
  BY DEF Terminal
<1>5. H = {j \in Runs : task[j].key = k /\ record[j] \in Terminal}
  BY <1>4, SeesEverything DEF history
<1>6. H = {j \in 1..i : task[j].key = k /\ record[j] \in Terminal}
  BY <1>1, <1>2, <1>3, <1>5
<1>7. i \in H
  BY <1>1, <1>6
<1> QED BY <1>6, <1>7

\* The last of some runs up to it.
LEMMA LastIsNewest ==
    ASSUME NEW i \in Int, NEW S \in SUBSET Int, i \in S, \A j \in S : j <= i
    PROVE  Newest(S) = i
<1>1. PICK n : n = Newest(S) /\ n \in S /\ \A j \in S : j <= n
  BY DEF Newest
<1>2. n <= i /\ i <= n /\ n \in Int
  BY <1>1
<1> QED BY <1>1, <1>2

\* Whatever records are lost, what is said fits how the run ended.
LEMMA JudgeIsPlausible ==
    ASSUME TypeOK, InTurn, MaxRuns <= Window, NEW lost,
           NEW i \in Runs, NEW c \in Copies, event[i][c].pc \in Active
    PROVE  judge(recent \ lost, i) \in Plausible(i)
<1> DEFINE k == task[i].key
           H == history(recent \ lost, k)
           v == judge(recent \ lost, i)
<1>1. v \in Verdicts
  BY VerdictType
<1>2. CASE ~terminalRecord(recent \ lost, i)
  BY <1>2 DEF judge, Plausible, Verdicts
<1>3. CASE terminalRecord(recent \ lost, i)
  <2>1. i \in Int /\ record[i] \in Terminal /\ i \in recent \ lost
    BY <1>3, OpsAlertAssumption DEF terminalRecord, Runs
  <2>2. \A j \in 1..i : j \in Int /\ j <= i
    BY <2>1
  <2>3. H \subseteq 1..i
    BY <2>1, NewestIsJudged DEF history
  <2>4. i \in H /\ H \in SUBSET Int /\ \A j \in H : j <= i
    BY <2>1, <2>2, <2>3 DEF history
  <2>5. Newest(H) = i /\ H # {}
    <3> HIDE DEF H
    <3> QED BY <2>1, <2>4, LastIsNewest
  <2>6. v = Streak(recent \ lost, k)
    BY <1>3 DEF judge
  <2>7. CASE record[i] = "TENANT"
    <3>1. v = "None"
      BY <2>5, <2>6, <2>7 DEF Streak
    <3> QED BY <3>1 DEF Plausible, Verdicts
  <2>8. CASE record[i] = "SUCCESS"
    <3>1. v \in {"Recovered", "None"}
      BY <2>5, <2>6, <2>8 DEF Streak
    <3> QED BY <2>8, <3>1 DEF Plausible, Verdicts
  <2>9. CASE record[i] = "FAILED"
    <3>1. v \in {"Started", "Escalated", "None"}
      BY <2>5, <2>6, <2>9 DEF Streak
    <3> QED BY <2>9, <3>1 DEF Plausible, Verdicts
  <2> QED BY <2>1, <2>7, <2>8, <2>9 DEF Terminal
<1> QED BY <1>2, <1>3

\* With every record read, the verdict is the one due.
LEMMA JudgeIsDue ==
    ASSUME TypeOK, InTurn, MaxRuns <= Window,
           NEW i \in Runs, NEW c \in Copies, event[i][c].pc \in Active
    PROVE  judge(recent, i) = DueOf(i)
<1> DEFINE k == task[i].key
           H == history(recent, k)
           D == dropTenantActionableSuccesses(H)
<1>0. i \in Int /\ i >= 1 /\ i - 1 \in 0..MaxRuns /\ i \in 0..MaxRuns /\ 1..i \subseteq Runs
  BY OpsAlertAssumption DEF Runs
<1>1. CASE record[i] \notin Terminal
  BY <1>1 DEF judge, terminalRecord, DueOf, Terminal
<1>2. CASE record[i] \in Terminal
  <2>1. /\ H = {j \in 1..i : task[j].key = k /\ record[j] \in Terminal}
        /\ i \in H
    BY <1>2, NewestIsJudged
  <2>2. judge(recent, i) = Streak(recent, k)
    <3>1. i \in recent
      BY <1>2, SeesEverything DEF Terminal
    <3> QED BY <1>2, <3>1 DEF judge, terminalRecord
  <2>3. D = {j \in 1..i : task[j].key = k /\ record[j] \in {"SUCCESS", "FAILED"}}
    BY <2>1 DEF dropTenantActionableSuccesses, Terminal
  <2> DEFINE last == Newest(H)
  <2> HIDE DEF H, D
  <2>4. Streak(recent, k) =
          CASE record[i] = "TENANT" -> "None"
            [] record[i] = "SUCCESS" -> IF leadingFailures(D \ {i}) > 0 THEN "Recovered" ELSE "None"
            [] OTHER -> IF leadingFailures(D) = 1 THEN "Started"
                        ELSE IF leadingFailures(D) = EscalateAt THEN "Escalated" ELSE "None"
    <3>0. H \in SUBSET Int /\ \A j \in H : j <= i
      BY <1>0, <2>1
    <3>1. H # {} /\ Newest(H) = i
      BY <1>0, <2>1, <3>0, LastIsNewest
    <3>2. CASE record[i] = "TENANT"
      BY <3>1, <3>2 DEF Streak, H
    <3>3. CASE record[i] = "SUCCESS"
      BY <3>1, <3>3 DEF Streak, H, D
    <3>4. CASE record[i] \notin {"TENANT", "SUCCESS"}
      BY <3>1, <3>4 DEF Streak, H, D
    <3> QED BY <3>2, <3>3, <3>4
  <2>5. CASE record[i] = "TENANT"
    BY <2>2, <2>4, <2>5 DEF DueOf, Terminal
  <2>6. CASE record[i] = "SUCCESS"
    <3>1. {x \in D \ {i} : \A y \in D \ {i} : y >= x => record[y] = "FAILED"} = FailedSince(k, i - 1)
      BY <1>0, <2>3 DEF FailedSince
    <3>2. leadingFailures(D \ {i}) = Count(k, i - 1)
      BY <3>1 DEF leadingFailures, Count
    <3> QED BY <2>2, <2>4, <2>6, <3>2 DEF DueOf, Terminal
  <2>7. CASE record[i] = "FAILED"
    <3>1. {x \in D : \A y \in D : y >= x => record[y] = "FAILED"} = FailedSince(k, i)
      BY <1>0, <2>3 DEF FailedSince
    <3>2. leadingFailures(D) = Count(k, i)
      BY <3>1 DEF leadingFailures, Count
    <3>3. Count(k, i) = Count(k, i - 1) + 1 /\ Count(k, i - 1) \in Nat
      BY <1>0, <2>7, CountOneMore, CountIsFinite
    <3>4. /\ leadingFailures(D) = 1 <=> Count(k, i - 1) = 0
          /\ leadingFailures(D) = EscalateAt <=> Count(k, i - 1) = EscalateAt - 1
      BY <3>2, <3>3 DEF EscalateAt
    <3>5. judge(recent, i) = IF Count(k, i - 1) = 0 THEN "Started"
                     ELSE IF Count(k, i - 1) = EscalateAt - 1 THEN "Escalated" ELSE "None"
      <4>1. record[i] # "TENANT" /\ record[i] # "SUCCESS"
        BY <2>7
      <4> HIDE DEF k
      <4> QED BY <2>2, <2>4, <3>4, <4>1
    <3>6. DueOf(i) = IF Count(k, i - 1) = 0 THEN "Started"
                     ELSE IF Count(k, i - 1) = EscalateAt - 1 THEN "Escalated" ELSE "None"
      BY <2>7 DEF DueOf, EscalateAt, Terminal
    <3> QED BY <3>5, <3>6
  <2> QED BY <1>2, <2>5, <2>6, <2>7 DEF Terminal
<1> QED BY <1>1, <1>2

-----------------------------------------------------------------------------
(* The handler's steps.                                                    *)

LEMMA HandlerKeepsTurn ==
    ASSUME InTurn, NEW i \in Runs, NEW c \in Copies, NEW e, Becomes(i, c, e),
           UNCHANGED <<task, record>>,
           \/ event[i][c].pc \in Active
           \/ \A j \in Runs : j > i /\ task[j].key = task[i].key => task[j].pc \in {"idle", "running"}
    PROVE  InTurn' /\ \A j \in Runs : DueOf(j)' = DueOf(j) /\ Plausible(j)' = Plausible(j)
<1>1. StartedInOrder' /\ RecordsFit'
  BY DEF InTurn, StartedInOrder, RecordsFit, started
<1>2. ASSUME NEW l \in Runs, HasEnded(l)' PROVE EarlierJudged(l)'
  <2>1. HasEnded(l) /\ EarlierJudged(l) /\ task[l].pc \notin {"idle", "running"}
    BY <1>2 DEF HasEnded, InTurn, JudgedInTurn, RecordsFit
  <2> SUFFICES ASSUME NEW j \in Runs, j < l, task[j].key = task[l].key
               PROVE  /\ task[j].pc = "stopped"
                      /\ \A d \in Copies : event'[j][d].pc \in {"none", "done", "lost"}
    BY DEF EarlierJudged, stopped
  <2>2. /\ task[j].pc = "stopped"
        /\ \A d \in Copies : event[j][d].pc \in {"none", "done", "lost"}
    BY <2>1 DEF EarlierJudged, stopped
  <2>3. j # i
    <3> SUFFICES ASSUME j = i PROVE FALSE
      OBVIOUS
    <3>1. event[i][c].pc \notin Active
      BY <2>2 DEF Active
    <3>2. l > i
      BY OpsAlertAssumption DEF Runs
    <3> QED BY <2>1, <3>1, <3>2
  <2> QED BY <2>2, <2>3 DEF Becomes
<1>3. \A j \in Runs : DueOf(j)' = DueOf(j) /\ Plausible(j)' = Plausible(j)
  BY DEF DueOf, Count, FailedSince, Plausible
<1> QED BY <1>1, <1>2, <1>3 DEF InTurn, JudgedInTurn

\* What a handler may push about run i, and what it may be left with.
Adds(i) ==
    \/ pushed' = pushed
    \/ \E v \in Verdicts : Sayable(i, v) /\ pushed' = [pushed EXCEPT ![i] = Append(@, v)]
Carries(i, e) ==
    /\ e.pc \in {"check", "send", "mark"} => Sayable(i, e.verdict)' /\ e.verdict # "None"
    /\ e.pc = "done" => DueOf(i) = "None" \/ pushed[i] # <<>> \/ i \in misread'

LEMMA HandlerKeepsPages ==
    ASSUME TypeOK, PageInv, NEW i \in Runs, stopped(i), NEW c \in Copies, NEW e, Becomes(i, c, e),
           UNCHANGED <<task, record>>, misread \subseteq misread',
           \/ event[i][c].pc \in Active
           \/ \A j \in Runs : j > i /\ task[j].key = task[i].key => task[j].pc \in {"idle", "running"},
           Adds(i), Carries(i, e)
    PROVE  PageInv'
<1>0. InTurn' /\ \A j \in Runs : DueOf(j)' = DueOf(j) /\ Plausible(j)' = Plausible(j)
  BY HandlerKeepsTurn DEF PageInv
<1>1. /\ InTurn' /\ \A j \in Runs : DueOf(j)' = DueOf(j)
      /\ \A j \in Runs : \A v : Sayable(j, v) => Sayable(j, v)'
  BY <1>0 DEF Sayable
<1>2. /\ \A j \in Runs \ {i} : pushed'[j] = pushed[j]
      /\ \A n \in DOMAIN pushed'[i] : Sayable(i, pushed'[i][n])
      /\ pushed[i] # <<>> => pushed'[i] # <<>>
  <2>1. \A n \in DOMAIN pushed[i] : Sayable(i, pushed[i][n])
    BY DEF PageInv, AlertsAreDue
  <2>2. CASE pushed' = pushed
    BY <2>1, <2>2
  <2>3. ASSUME NEW v \in Verdicts, Sayable(i, v), pushed' = [pushed EXCEPT ![i] = Append(@, v)]
        PROVE  /\ \A j \in Runs \ {i} : pushed'[j] = pushed[j]
               /\ \A n \in DOMAIN pushed'[i] : Sayable(i, pushed'[i][n])
               /\ pushed[i] # <<>> => pushed'[i] # <<>>
    <3>1. PICK s \in Seq(Verdicts) : s = pushed[i]
      BY DEF TypeOK
    <3>2. pushed'[i] = Append(s, v)
      BY <2>3, <3>1 DEF TypeOK
    <3>3. \A n \in DOMAIN Append(s, v) : (n \in DOMAIN s /\ Append(s, v)[n] = s[n]) \/ Append(s, v)[n] = v
      OBVIOUS
    <3>4. \A n \in DOMAIN pushed'[i] : Sayable(i, pushed'[i][n])
      BY <2>1, <2>3, <3>1, <3>2, <3>3
    <3>5. pushed'[i] # <<>> /\ \A j \in Runs \ {i} : pushed'[j] = pushed[j]
      BY <2>3, Pushes
    <3> QED BY <3>4, <3>5
  <2> QED BY <2>2, <2>3 DEF Adds
<1>3. ToldWhenStopped'
  BY <1>2 DEF PageInv, ToldWhenStopped, stopped
<1>4. VerdictsAreDue'
  <2> SUFFICES ASSUME NEW j \in Runs, NEW d \in Copies, event'[j][d].pc \in {"check", "send", "mark"}
               PROVE  Sayable(j, event[j][d].verdict)' /\ event'[j][d].verdict # "None"
    BY DEF VerdictsAreDue
  <2>1. CASE j = i /\ d = c
    <3>1. event'[j][d] = e
      BY <2>1 DEF Becomes
    <3>2. (e.verdict = DueOf(i)' \/ (i \in misread' /\ e.verdict \in Plausible(i)')) /\ e.verdict # "None"
      BY <3>1 DEF Carries, Sayable
    <3> QED BY <2>1, <3>1, <3>2 DEF Sayable
  <2>2. CASE ~(j = i /\ d = c)
    <3>1. event'[j][d] = event[j][d]
      BY <2>2 DEF Becomes
    <3>2. Sayable(j, event[j][d].verdict) /\ event[j][d].verdict # "None"
      BY <3>1 DEF PageInv, VerdictsAreDue
    <3> QED BY <1>0, <3>1, <3>2 DEF Sayable
  <2> QED BY <2>1, <2>2
<1>5. AlertsAreDue'
  <2> SUFFICES ASSUME NEW j \in Runs
               PROVE  /\ \A n \in DOMAIN pushed'[j] : Sayable(j, pushed[j][n])'
                      /\ (\E d \in Copies : event'[j][d].pc = "done") /\ DueOf(j) # "None"
                            => pushed'[j] # <<>> \/ j \in misread'
    BY <1>1 DEF AlertsAreDue
  <2>0. \A n \in DOMAIN pushed'[j] : Sayable(j, pushed'[j][n])
    BY <1>2 DEF PageInv, AlertsAreDue
  <2>1. \A n \in DOMAIN pushed'[j] : Sayable(j, pushed[j][n])'
    BY <1>0, <2>0 DEF Sayable
  <2>2. CASE j = i
    <3>1. ASSUME NEW d \in Copies, event'[i][d].pc = "done", DueOf(i) # "None"
          PROVE  pushed[i] # <<>> \/ i \in misread'
      <4>1. CASE d = c
        BY <3>1, <4>1 DEF Becomes, Carries
      <4>2. CASE d # c
        BY <3>1, <4>2 DEF Becomes, PageInv, AlertsAreDue
      <4> QED BY <4>1, <4>2
    <3> QED BY <1>2, <2>1, <2>2, <3>1
  <2>3. CASE j # i
    BY <1>2, <2>1, <2>3 DEF Becomes, PageInv, AlertsAreDue
  <2> QED BY <2>2, <2>3
<1> QED BY <1>1, <1>3, <1>4, <1>5 DEF PageInv

\* A delivery that moves on to a later step of its handler.
LEMMA HandlersKeepPages ==
    ASSUME InOrder, MaxRuns <= Window, IInv, PageInv, NEW i \in Runs, NEW c \in Copies,
           Redeliver(i, c) \/ HandlerStep(i, c)
    PROVE  PageInv'
<1>1. TypeOK /\ stopped(i) /\ event[i][c] \in EventRecords /\ UNCHANGED <<task, record>>
      /\ misread \subseteq misread'
  BY DEF IInv, QuietUntilStopped, Redeliver, HandlerStep, Judge, Check, Send, Mark, TypeOK
<1>2. ASSUME NEW e \in EventRecords, event' = [event EXCEPT ![i][c] = e],
             event[i][c].pc \in Active, Adds(i), Carries(i, e)
      PROVE  PageInv'
  <2>1. Becomes(i, c, e)
    BY <1>1, <1>2, EventChange
  <2> QED BY <1>1, <1>2, <2>1, HandlerKeepsPages
<1>3. ASSUME Retry(i, c), event[i][c].pc \in Active, Adds(i)
      PROVE  PageInv'
  <2>1. PICK e \in EventRecords : e.pc \in {"queued", "lost"} /\ event' = [event EXCEPT ![i][c] = e]
    BY <1>1, <1>3, RetryChanges
  <2> QED BY <1>2, <1>3, <2>1 DEF Carries
<1>4. ASSUME Done(i, c), event[i][c].pc \in Active, pushed' = pushed,
             DueOf(i) = "None" \/ pushed[i] # <<>> \/ i \in misread'
      PROVE  PageInv'
  <2>1. PICK e \in EventRecords : e.pc = "done" /\ event' = [event EXCEPT ![i][c] = e]
    BY <1>4, DoneChanges
  <2> QED BY <1>2, <1>4, <2>1 DEF Carries, Adds
<1>5. ASSUME NEW pc \in EventPcs, To(i, c, pc)
      PROVE  \E e \in EventRecords : /\ e.pc = pc /\ e.verdict = event[i][c].verdict
                                     /\ event' = [event EXCEPT ![i][c] = e]
  <2>1. MovedTo(i, c, pc)
    BY <1>1, <1>5, PcChanges, Zenon
  <2> QED BY <2>1 DEF MovedTo
<1>6. event[i][c].pc \in {"check", "send", "mark"} =>
          /\ Sayable(i, event[i][c].verdict) /\ event[i][c].verdict # "None"
          /\ event[i][c].verdict \in Verdicts
  BY <1>1 DEF PageInv, VerdictsAreDue, EventRecords
<1>7. DueOf(i)' = DueOf(i) /\ Plausible(i)' = Plausible(i)
  BY <1>1 DEF DueOf, Count, FailedSince, Plausible
<1>8. CASE Redeliver(i, c)
  <2>1. "queued" \in EventPcs /\ To(i, c, "queued") /\ Adds(i)
    BY <1>8 DEF Redeliver, To, EventPcs, Adds
  <2>2. PICK e \in EventRecords : e.pc = "queued" /\ event' = [event EXCEPT ![i][c] = e]
    BY <1>5, <2>1
  <2>3. Becomes(i, c, e) /\ Carries(i, e)
    BY <1>1, <2>2, EventChange DEF Carries
  <2>4. \A j \in Runs : j > i /\ task[j].key = task[i].key => task[j].pc \in {"idle", "running"}
    BY <1>8 DEF Redeliver
  <2> QED BY <1>1, <2>1, <2>2, <2>3, <2>4, HandlerKeepsPages
<1>9. CASE Judge(i, c)
  <2>1. event[i][c].pc = "queued" /\ event[i][c].pc \in Active /\ pushed' = pushed /\ Adds(i)
    BY <1>9 DEF Judge, Active, Adds
  <2>2. CASE Retry(i, c)
    BY <1>3, <2>1, <2>2
  <2>3. CASE ~Retry(i, c)
    <3>1. PICK lost : /\ misread' = IF lost = {} THEN misread ELSE misread \cup {i}
                      /\ IF judge(recent \ lost, i) = "None"
                         THEN Done(i, c)
                         ELSE event' = [event EXCEPT ![i][c].pc = "check",
                                                     ![i][c].verdict = judge(recent \ lost, i)]
      BY <1>9, <2>3 DEF Judge
    <3>2. PICK v : v = judge(recent \ lost, i) /\ v \in Verdicts
      BY VerdictType
    <3>3. v = DueOf(i) \/ (i \in misread' /\ v \in Plausible(i))
      <4>1. CASE lost = {}
        <5>1. recent \ lost = recent
          BY <4>1
        <5>2. judge(recent, i) = DueOf(i)
          BY <1>1, <2>1, JudgeIsDue DEF PageInv
        <5> QED BY <3>2, <5>1, <5>2
      <4>2. CASE lost # {}
        <5>1. i \in misread'
          BY <3>1, <4>2
        <5>2. judge(recent \ lost, i) \in Plausible(i)
          BY <1>1, <2>1, JudgeIsPlausible DEF PageInv
        <5> QED BY <3>2, <5>1, <5>2
      <4> QED BY <4>1, <4>2
    <3>4. CASE v = "None"
      BY <1>4, <2>1, <3>1, <3>2, <3>3, <3>4
    <3>5. CASE v # "None"
      <4>0. PICK e : e = [event[i][c] EXCEPT !.pc = "check", !.verdict = v]
        OBVIOUS
      <4>1. e \in EventRecords /\ e.pc = "check" /\ e.verdict = v
        BY <1>1, <3>2, <4>0 DEF EventRecords
      <4>2. event' = [event EXCEPT ![i][c].pc = "check", ![i][c].verdict = v]
        BY <3>1, <3>2, <3>5
      <4>3. event' = [event EXCEPT ![i][c] = e]
        BY <1>1, <4>0, <4>2 DEF TypeOK
      <4>4. v = DueOf(i)' \/ (i \in misread' /\ v \in Plausible(i)')
        BY <1>7, <3>3
      <4>5. Carries(i, e)
        BY <3>5, <4>1, <4>4 DEF Carries, Sayable
      <4> QED BY <1>2, <2>1, <4>1, <4>3, <4>5
    <3> QED BY <3>4, <3>5
  <2> QED BY <2>2, <2>3
<1>10. ASSUME event[i][c].pc \in {"check", "send", "mark"}, NEW e \in EventRecords,
             e.pc # "done", e.verdict = event[i][c].verdict, misread' = misread
      PROVE  Carries(i, e)
  BY <1>6, <1>7, <1>10 DEF Carries, Sayable
<1>11. CASE Check(i, c)
  <2>1. event[i][c].pc = "check" /\ event[i][c].pc \in Active /\ pushed' = pushed
        /\ Adds(i) /\ misread' = misread
    BY <1>11 DEF Check, Active, Adds
  <2>2. CASE i \in marker /\ Done(i, c)
    BY <1>4, <2>1, <2>2 DEF IInv, MarkedOnlyIfPushed
  <2>3. CASE To(i, c, "send")
    <3>1. PICK e \in EventRecords : /\ e.pc = "send" /\ e.verdict = event[i][c].verdict
                                    /\ event' = [event EXCEPT ![i][c] = e]
      BY <1>5, <2>3 DEF EventPcs
    <3>2. Carries(i, e)
      BY <1>10, <2>1, <3>1
    <3> QED BY <1>2, <2>1, <3>1, <3>2
  <2> QED BY <1>11, <2>2, <2>3 DEF Check
<1>12. CASE Send(i, c)
  <2>1. event[i][c].pc = "send" /\ event[i][c].pc \in Active /\ misread' = misread
    BY <1>12 DEF Send, Active
  <2>2. Adds(i)
    BY <1>6, <1>12, <2>1 DEF Send, Adds
  <2>3. CASE To(i, c, "mark")
    <3>1. PICK e \in EventRecords : /\ e.pc = "mark" /\ e.verdict = event[i][c].verdict
                                    /\ event' = [event EXCEPT ![i][c] = e]
      BY <1>5, <2>3 DEF EventPcs
    <3>2. Carries(i, e)
      BY <1>10, <2>1, <3>1
    <3> QED BY <1>2, <2>1, <2>2, <3>1, <3>2
  <2>4. CASE Retry(i, c)
    BY <1>3, <2>1, <2>2, <2>4
  <2> QED BY <1>12, <2>3, <2>4 DEF Send
<1>13. CASE Mark(i, c)
  <2>1. event[i][c].pc = "mark" /\ event[i][c].pc \in Active /\ pushed' = pushed /\ Adds(i)
    BY <1>13 DEF Mark, Active, Adds
  <2>2. pushed[i] # <<>>
    BY <2>1 DEF IInv, ToldBeforeMarked
  <2> QED BY <1>3, <1>4, <1>13, <2>1, <2>2 DEF Mark
<1> QED BY <1>8, <1>9, <1>11, <1>12, <1>13 DEF HandlerStep

LEMMA InitPages == Init => PageInv
<1> SUFFICES ASSUME Init PROVE PageInv
  OBVIOUS
<1>1. \A i \in Runs : /\ task[i].pc = "idle" /\ record[i] = "none" /\ pushed[i] = <<>>
                      /\ \A c \in Copies : event[i][c].pc = "none"
  BY DEF Init
<1>2. DOMAIN <<>> = {}
  OBVIOUS
<1> QED BY <1>1, <1>2 DEF PageInv, InTurn, StartedInOrder, started, RecordsFit, JudgedInTurn, HasEnded,
           Terminal, ToldWhenStopped, VerdictsAreDue, AlertsAreDue

LEMMA NextPages ==
    ASSUME InOrder, MaxRuns <= Window, IInv, PageInv, [Next]_vars
    PROVE  PageInv'
<1>1. CASE UNCHANGED vars
  <2>1. \A i \in Runs : DueOf(i)' = DueOf(i)
    BY <1>1 DEF vars, DueOf, Count, FailedSince
  <2>2. InTurn'
    BY <1>1 DEF vars, PageInv, InTurn, StartedInOrder, started, RecordsFit, JudgedInTurn, HasEnded,
       EarlierJudged, stopped
  <2>3. \A i \in Runs : Plausible(i)' = Plausible(i)
    BY <1>1 DEF vars, Plausible
  <2> QED BY <1>1, <2>1, <2>2, <2>3 DEF vars, PageInv, ToldWhenStopped, stopped, VerdictsAreDue, AlertsAreDue,
         Sayable
<1>2. ASSUME NEW i \in Runs, TaskStep(i) PROVE PageInv'
  BY <1>2, TasksKeepPages
<1>3. ASSUME NEW i \in Runs, NEW c \in Copies, Redeliver(i, c) \/ HandlerStep(i, c) PROVE PageInv'
  BY <1>3, HandlersKeepPages
<1> QED BY <1>1, <1>2, <1>3 DEF Next

\* Every alert the operator gets is the one due by the count of its key's
\* failures, and a run that was handled has had the one it was due, for any
\* keys, deliveries, retries and failures, as long as the window holds the
\* history and a run's event is handled before its key's next run ends.  Where a
\* record of the key could not be read (ledger.go leaves it out), the alert still
\* fits how the run ended.
THEOREM StreaksPageAsCounted ==
    ASSUME InOrder, MaxRuns <= Window
    PROVE  Spec => []PagesAsCounted
<1>1. PageInv => PagesAsCounted
  BY DueIsDueOf DEF PageInv, AlertsAreDue, PagesAsCounted, Sayable
<1>2. IInv /\ PageInv /\ [Next]_vars => PageInv'
  BY NextPages
<1> QED BY <1>1, <1>2, InitPages, AlertsAreDeduplicated, PTL DEF Spec
=============================================================================
