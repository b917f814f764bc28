-------------------------- MODULE ConnectionProofs --------------------------
(***************************************************************************)
(* Proofs about Connection: type correctness; the inductive invariant, and *)
(* from it VerifiedIsProven, CredsOnlyReplacedBySubmission and the          *)
(* refinement of TenantConnection; and, each with an invariant of its own, *)
(* what a stamp and a status say of the credentials beside them            *)
(* (StampInv, AboutInv), who was told of a failure (ToldInv) and that      *)
(* verifications are alone (SoleInv): for every set of submissions and     *)
(* runs, any number of retries and of deletions.                           *)
(***************************************************************************)
EXTENDS Connection, FiniteSetTheorems, TLAPS

-----------------------------------------------------------------------------
(* Lemmas: what the records written by each writer are.                    *)

LEMMA NextVerType ==
    ASSUME NEW v \in Versions
    PROVE  NextVer(v) \in Versions /\ NextVer(v) > v
  BY DEF NextVer, Versions, Absent

LEMMA ConstantRecords ==
    NoRecord \in Records /\ LegacyRecord \in Records
  BY DEF NoRecord, LegacyRecord, Records, Versions, Absent, Statuses, Classes,
         LoginFaults, NoStamp, Creds

LEMMA StoreType ==
    ASSUME NEW c \in Records, Store(c)
    PROVE  conn' \in Records /\ fresh' \in BOOLEAN
  BY NextVerType DEF Store, Records

LEMMA SubmissionType ==
    ASSUME TypeOK, NEW r \in Requests
    PROVE  Submission(r) \in Records
  BY ConstantRecords DEF TypeOK, Submission, Records, Statuses, Creds

LEMMA VerdictType ==
    ASSUME TypeOK, NEW r \in Requests
    PROVE  Verdict(r) \in Records
<1> DEFINE c == task[r].copy
<1>1. c \in Records /\ task[r].out \in Outcomes
  BY DEF TypeOK
<1>2. /\ StatusOnFail(task[r].out, c.status) \in Statuses
      /\ AboutOnFail(task[r].out, c) \in Creds \cup {NoCreds}
  BY <1>1 DEF StatusOnFail, AboutOnFail, Statuses, Records
<1>3. CASE task[r].out = "verified"
  BY <1>1, <1>3 DEF Verdict, Records, Statuses
<1>4. CASE task[r].out # "verified"
  BY <1>1, <1>2, <1>4 DEF Verdict, Records, Outcomes
<1> QED BY <1>3, <1>4

LEMMA StoppedType ==
    ASSUME TypeOK, NEW l \in Runs
    PROVE  Stopped(l) \in Records
<1>1. run[l].copy \in Records /\ run[l].creds \in Creds \cup {NoCreds}
      /\ run[l].out \in Classes \cup {"none"}
  BY DEF TypeOK, Classes
<1> QED BY <1>1 DEF Stopped, Records, Statuses

-----------------------------------------------------------------------------
(* Type correctness.                                                       *)

\* What a step writes to a task's process keeps its type.
LEMMA TaskUpdate ==
    ASSUME TypeOK, NEW r \in Requests, NEW pc \in TaskStates,
           NEW c \in Records, NEW o \in Outcomes
    PROVE  /\ [task EXCEPT ![r].pc = pc]
                \in [Requests -> [pc : TaskStates, copy : Records, out : Outcomes]]
           /\ [task EXCEPT ![r].pc = pc, ![r].copy = c]
                \in [Requests -> [pc : TaskStates, copy : Records, out : Outcomes]]
           /\ [task EXCEPT ![r].pc = pc, ![r].out = o]
                \in [Requests -> [pc : TaskStates, copy : Records, out : Outcomes]]
<1> DEFINE T == [pc : TaskStates, copy : Records, out : Outcomes]
<1>1. task \in [Requests -> T]
  BY DEF TypeOK
<1>2. /\ [task[r] EXCEPT !.pc = pc] \in T
      /\ [[task[r] EXCEPT !.pc = pc] EXCEPT !.copy = c] \in T
      /\ [[task[r] EXCEPT !.pc = pc] EXCEPT !.out = o] \in T
  BY <1>1
<1> QED BY <1>1, <1>2

\* ... and of run.
LEMMA RunUpdate ==
    ASSUME TypeOK, NEW l \in Runs, NEW pc \in RunStates,
           NEW c \in Records, NEW o \in LoginFaults \cup {"none"}
    PROVE  /\ [run EXCEPT ![l].pc = pc]
                \in [Runs -> [pc : RunStates, creds : Creds \cup {NoCreds},
                             copy : Records, out : LoginFaults \cup {"none"}]]
           /\ [run EXCEPT ![l].pc = pc, ![l].copy = c]
                \in [Runs -> [pc : RunStates, creds : Creds \cup {NoCreds},
                             copy : Records, out : LoginFaults \cup {"none"}]]
           /\ [run EXCEPT ![l].pc = pc, ![l].out = o]
                \in [Runs -> [pc : RunStates, creds : Creds \cup {NoCreds},
                             copy : Records, out : LoginFaults \cup {"none"}]]
<1> DEFINE T == [pc : RunStates, creds : Creds \cup {NoCreds},
                 copy : Records, out : LoginFaults \cup {"none"}]
<1>1. run \in [Runs -> T]
  BY DEF TypeOK
<1>2. /\ [run[l] EXCEPT !.pc = pc] \in T
      /\ [[run[l] EXCEPT !.pc = pc] EXCEPT !.copy = c] \in T
      /\ [[run[l] EXCEPT !.pc = pc] EXCEPT !.out = o] \in T
  BY <1>1
<1> QED BY <1>1, <1>2

\* The tenant's feed keeps its type.
LEMMA TellType ==
    ASSUME told \subseteq Requests \cup Runs, unheard \subseteq Requests \cup Runs,
           NEW p \in Requests \cup Runs, Tell(p) \/ NobodyIsTold
    PROVE  told' \subseteq Requests \cup Runs /\ unheard' \subseteq Requests \cup Runs
  BY DEF Tell, NobodyIsTold

\* Whose failure went to the feed, whether the feed took it or not.
Addressed == told \cup unheard

\* What a step says of the tenant's feed.
LEMMA TellIs ==
    ASSUME NEW p
    PROVE  /\ Tell(p) => /\ told' \subseteq told \cup {p} /\ unheard' \subseteq unheard \cup {p}
                         /\ Addressed' = Addressed \cup {p}
           /\ NobodyIsTold => told' = told /\ unheard' = unheard /\ Addressed' = Addressed
  BY DEF Tell, NobodyIsTold, Addressed

LEMMA InitType == Init => TypeOK
<1> SUFFICES ASSUME Init PROVE TypeOK
  OBVIOUS
<1>1. conn \in Records /\ NoRecord \in Records
  BY ConstantRecords DEF Init
<1>2. req \in [Requests -> [pc : RequestStates, n : Nat, seen : Versions]]
  BY DEF Init, RequestStates, Versions
<1>3. task \in [Requests -> [pc : TaskStates, copy : Records, out : Outcomes]]
  BY <1>1 DEF Init, TaskStates, Outcomes
<1>4. run \in [Runs -> [pc : RunStates, creds : Creds \cup {NoCreds},
                       copy : Records, out : LoginFaults \cup {"none"}]]
  BY <1>1 DEF Init, RunStates
<1>5. fresh \in BOOLEAN /\ proven \subseteq Creds \cup {NoCreds} /\ told = {} /\ unheard = {}
  BY DEF Init, Creds
<1>6. deletes \in 0..MaxDeletes
  BY ConnectionAssumption DEF Init
<1>7. slow \in BOOLEAN
  BY DEF Init
<1> QED BY <1>1, <1>2, <1>3, <1>4, <1>5, <1>6, <1>7 DEF TypeOK

LEMMA RequestType ==
    ASSUME TypeOK, NEW r \in Requests, ReadForSubmit(r) \/ PutSubmission(r) \/ Launch(r)
    PROVE  TypeOK'
<1>1. conn.ver \in Versions
  BY DEF TypeOK, Records
<1>2. CASE ReadForSubmit(r)
  <2>1. CASE req' = [req EXCEPT ![r].pc = "put", ![r].seen = conn.ver]
    BY <1>1, <1>2, <2>1, SMTT(30) DEF TypeOK, ReadForSubmit, RequestStates
  <2>2. CASE req' = [req EXCEPT ![r].pc = "refused"]
    BY <1>2, <2>2, SMTT(30) DEF TypeOK, ReadForSubmit, RequestStates
  <2> QED BY <1>2, <2>1, <2>2 DEF ReadForSubmit
<1>3. CASE PutSubmission(r)
  <2>1. conn' \in Records /\ fresh' \in BOOLEAN
    BY <1>3, SubmissionType, StoreType DEF PutSubmission, NotStored, TypeOK
  <2>2. req' \in [Requests -> [pc : RequestStates, n : Nat, seen : Versions]]
    <3>1. CASE \E pc \in {"launch", "refused"} : req' = [req EXCEPT ![r].pc = pc]
      BY <3>1 DEF TypeOK, RequestStates
    <3>2. CASE req' = [req EXCEPT ![r].pc = "read", ![r].n = req[r].n + 1]
      BY <3>2 DEF TypeOK, RequestStates
    <3> QED BY <1>3, <3>1, <3>2 DEF PutSubmission
  <2> QED BY <1>3, <2>1, <2>2 DEF PutSubmission, TypeOK
<1>4. CASE Launch(r)
  <2>1. req' \in [Requests -> [pc : RequestStates, n : Nat, seen : Versions]]
    <3>1. \E pc \in {"accepted", "refused"} : req' = [req EXCEPT ![r].pc = pc]
      BY <1>4 DEF Launch
    <3> QED BY <3>1 DEF TypeOK, RequestStates
  <2>2. task' \in [Requests -> [pc : TaskStates, copy : Records, out : Outcomes]]
    <3>1. "read" \in TaskStates
      BY DEF TaskStates
    <3> QED BY <1>4, <3>1 DEF Launch, TypeOK
  <2> QED BY <1>4, <2>1, <2>2 DEF Launch, TypeOK
<1> QED BY <1>2, <1>3, <1>4

LEMMA TaskType ==
    ASSUME TypeOK, NEW r \in Requests, TaskStep(r) \/ TaskCrash(r)
    PROVE  TypeOK'
<1>1. task[r].copy \in Records /\ task[r].out \in Outcomes
  BY DEF TypeOK
<1>2. task[r].copy.creds \in Creds \cup {NoCreds}
  BY <1>1 DEF Records
<1>3. CASE TaskRead(r)
  <2>1. task' \in [Requests -> [pc : TaskStates, copy : Records, out : Outcomes]]
    <3>1. CASE task' = [task EXCEPT ![r].pc = "check", ![r].copy = conn]
      <4>1. conn \in Records /\ "check" \in TaskStates /\ "none" \in Outcomes
        BY DEF TypeOK, TaskStates, Outcomes
      <4> QED BY <3>1, <4>1, TaskUpdate, Zenon
    <3>2. CASE \E pc \in {"error", "readback"} : task' = [task EXCEPT ![r].pc = pc]
      BY <3>2 DEF TypeOK, TaskStates
    <3> QED BY <1>3, <3>1, <3>2 DEF TaskRead
  <2> QED BY <1>3, <2>1 DEF TaskRead, TypeOK
<1>4. CASE TaskReadBack(r)
  <2>1. task' \in [Requests -> [pc : TaskStates, copy : Records, out : Outcomes]]
    <3>1. CASE task' = [task EXCEPT ![r] = [pc |-> "tell", copy |-> conn,
                                            out |-> "check_failed"]]
      BY <3>1 DEF TypeOK, TaskStates, Outcomes, Classes
    <3>2. CASE task' = [task EXCEPT ![r].pc = "error"]
      BY <3>2 DEF TypeOK, TaskStates
    <3> QED BY <1>4, <3>1, <3>2 DEF TaskReadBack
  <2> QED BY <1>4, <2>1, TellIs DEF TaskReadBack, NobodyIsTold, TypeOK
<1>5. CASE TaskCheck(r)
  <2>1. {"record", "tell", "error"} \subseteq TaskStates /\ "verified" \in Outcomes
        /\ Classes \subseteq Outcomes
    BY DEF TaskStates, Outcomes
  <2>2. task' \in [Requests -> [pc : TaskStates, copy : Records, out : Outcomes]]
    <3>1. CASE \E o \in Classes \cup {"verified"}, pc \in {"record", "tell"} :
                   task' = [task EXCEPT ![r].pc = pc, ![r].out = o]
      <4>1. PICK o \in Classes \cup {"verified"}, pc \in {"record", "tell"} :
                   task' = [task EXCEPT ![r].pc = pc, ![r].out = o]
        BY <3>1
      <4>2. pc \in TaskStates /\ o \in Outcomes /\ NoRecord \in Records
        BY <2>1, ConstantRecords
      <4> QED BY <4>1, <4>2, TaskUpdate, Zenon
    <3>2. CASE task' = [task EXCEPT ![r].pc = "error"]
      <4>1. "error" \in TaskStates /\ "none" \in Outcomes /\ NoRecord \in Records
        BY <2>1, ConstantRecords DEF Outcomes
      <4> QED BY <3>2, <4>1, TaskUpdate, Zenon
    <3> QED BY <1>5, <3>1, <3>2 DEF TaskCheck
  <2>3. proven' \subseteq Creds \cup {NoCreds}
    BY <1>2, <1>5 DEF TaskCheck, TypeOK
  <2> QED BY <1>5, <2>2, <2>3 DEF TaskCheck, TypeOK
<1>6. CASE TaskTell(r)
  <2>1. task' \in [Requests -> [pc : TaskStates, copy : Records, out : Outcomes]]
    BY <1>6 DEF TaskTell, TypeOK, TaskStates
  <2>2. told' \subseteq Requests \cup Runs /\ unheard' \subseteq Requests \cup Runs
    BY <1>6, TellType DEF TaskTell, TypeOK
  <2> QED BY <1>6, <2>1, <2>2 DEF TaskTell, TypeOK
<1>7. CASE TaskRecord(r)
  <2>1. conn' \in Records /\ fresh' \in BOOLEAN
    BY <1>7, VerdictType, StoreType DEF TaskRecord, NotStored, TypeOK
  <2>2. task' \in [Requests -> [pc : TaskStates, copy : Records, out : Outcomes]]
    <3>1. PICK pc \in {"ok", "error"} : task' = [task EXCEPT ![r].pc = pc]
      BY <1>7 DEF TaskRecord, ExitCode
    <3>2. pc \in TaskStates /\ "none" \in Outcomes /\ NoRecord \in Records
      BY ConstantRecords DEF TaskStates, Outcomes
    <3> QED BY <3>1, <3>2, TaskUpdate, Zenon
  <2> QED BY <1>7, <2>1, <2>2 DEF TaskRecord, TypeOK
<1>8. CASE TaskCrash(r)
  BY <1>8 DEF TaskCrash, TypeOK, TaskStates
<1> QED BY <1>3, <1>4, <1>5, <1>6, <1>7, <1>8 DEF TaskStep

LEMMA RunType ==
    ASSUME TypeOK, NEW l \in Runs, RunAuthorize(l) \/ RunStep(l) \/ RunCrash(l)
    PROVE  TypeOK'
<1> DEFINE T == [pc : RunStates, creds : Creds \cup {NoCreds},
                 copy : Records, out : LoginFaults \cup {"none"}]
<1>1. conn.creds \in Creds \cup {NoCreds}
  BY DEF TypeOK, Records
<1>2. CASE RunAuthorize(l)
  <2>1. run \in [Runs -> T] /\ {"probe", "error"} \subseteq RunStates
    BY DEF TypeOK, RunStates
  <2>2. run' \in [Runs -> T]
    <3>1. CASE run' = [run EXCEPT ![l].pc = "probe", ![l].creds = conn.creds]
      BY <1>1, <2>1, <3>1
    <3>2. CASE run' = [run EXCEPT ![l].pc = "error"]
      BY <2>1, <3>2
    <3> QED BY <1>2, <3>1, <3>2 DEF RunAuthorize
  <2> QED BY <1>2, <2>2 DEF RunAuthorize, TypeOK
<1>3. CASE RunProbe(l)
  <2>1. PICK pc \in {"ok", "reread"} : run' = [run EXCEPT ![l].pc = pc]
    BY <1>3 DEF RunProbe
  <2>2. pc \in RunStates /\ "none" \in LoginFaults \cup {"none"}
    BY DEF RunStates
  <2>3. run' \in [Runs -> T]
    BY <2>1, <2>2, ConstantRecords, RunUpdate, Zenon
  <2> QED BY <1>3, <2>3 DEF RunProbe, TypeOK
<1>4. CASE RunReread(l)
  <2>1. CASE run' = [run EXCEPT ![l].pc = "mint", ![l].copy = conn]
    <3>1. /\ conn \in Records /\ "mint" \in RunStates
          /\ "none" \in LoginFaults \cup {"none"}
      BY DEF TypeOK, RunStates
    <3>2. run' \in [Runs -> T]
      BY <2>1, <3>1, RunUpdate, Zenon
    <3> QED BY <1>4, <3>2 DEF RunReread, TypeOK
  <2>2. CASE run' = [run EXCEPT ![l].pc = "error"]
    <3>1. /\ NoRecord \in Records /\ "error" \in RunStates
          /\ "none" \in LoginFaults \cup {"none"}
      BY ConstantRecords DEF RunStates
    <3>2. run' \in [Runs -> T]
      BY <2>2, <3>1, RunUpdate, Zenon
    <3> QED BY <1>4, <3>2 DEF RunReread, TypeOK
  <2> QED BY <1>4, <2>1, <2>2 DEF RunReread
<1>5. CASE RunMint(l)
  <2>1. run' \in [Runs -> T]
    <3>1. {"store", "stop", "ok"} \subseteq RunStates
      BY DEF RunStates
    <3>2. CASE \E pc \in {"store", "ok"} : run' = [run EXCEPT ![l].pc = pc]
      <4>1. PICK pc \in {"store", "ok"} : run' = [run EXCEPT ![l].pc = pc]
        BY <3>2
      <4>2. pc \in RunStates /\ "none" \in LoginFaults \cup {"none"}
        BY <3>1
      <4> QED BY <4>1, <4>2, ConstantRecords, RunUpdate, Zenon
    <3>3. CASE \E class \in LoginFaults :
                 run' = [run EXCEPT ![l].pc = "stop", ![l].out = class]
      <4>1. PICK class \in LoginFaults :
                 run' = [run EXCEPT ![l].pc = "stop", ![l].out = class]
        BY <3>3
      <4>2. "stop" \in RunStates /\ class \in LoginFaults \cup {"none"}
        BY <3>1
      <4> QED BY <4>1, <4>2, ConstantRecords, RunUpdate, Zenon
    <3> QED BY <1>5, <3>2, <3>3 DEF RunMint
  <2> QED BY <1>5, <2>1 DEF RunMint, TypeOK
<1>6. CASE RunStore(l)
  <2>1. [run[l].copy EXCEPT !.session = run[l].creds, !.err = "none"] \in Records
    BY DEF TypeOK, Records
  <2>2. conn' \in Records /\ fresh' \in BOOLEAN
    BY <1>6, <2>1, StoreType DEF RunStore, NotStored, TypeOK
  <2>3. run' \in [Runs -> T]
    <3>1. "ok" \in RunStates /\ "none" \in LoginFaults \cup {"none"}
      BY DEF RunStates
    <3>2. run' = [run EXCEPT ![l].pc = "ok"]
      BY <1>6 DEF RunStore
    <3> QED BY <3>1, <3>2, ConstantRecords, RunUpdate, Zenon
  <2> QED BY <1>6, <2>2, <2>3 DEF RunStore, TypeOK
<1>7. CASE RunStop(l)
  <2>1. conn' \in Records /\ fresh' \in BOOLEAN
    BY <1>7, StoppedType, StoreType DEF RunStop, NotStored, TypeOK
  <2>2. run' \in [Runs -> T]
    <3>1. PICK pc \in {"tell", "error"} : run' = [run EXCEPT ![l].pc = pc]
      BY <1>7 DEF RunStop
    <3>2. pc \in RunStates /\ "none" \in LoginFaults \cup {"none"}
      BY DEF RunStates
    <3> QED BY <3>1, <3>2, ConstantRecords, RunUpdate, Zenon
  <2> QED BY <1>7, <2>1, <2>2 DEF RunStop, TypeOK
<1>8. CASE RunTell(l)
  <2>1. told' \subseteq Requests \cup Runs /\ unheard' \subseteq Requests \cup Runs
    BY <1>8, TellType DEF RunTell, TypeOK
  <2>2. run' \in [Runs -> T]
    BY <1>8 DEF RunTell, TypeOK, RunStates
  <2> QED BY <1>8, <2>1, <2>2 DEF RunTell, TypeOK
<1>9. CASE RunCrash(l)
  <2>1. "crashed" \in RunStates /\ "none" \in LoginFaults \cup {"none"}
    BY DEF RunStates
  <2>2. run' = [run EXCEPT ![l].pc = "crashed"]
    BY <1>9 DEF RunCrash
  <2>3. run' \in [Runs -> T]
    BY <2>1, <2>2, ConstantRecords, RunUpdate, Zenon
  <2> QED BY <1>9, <2>3 DEF RunCrash, TypeOK
<1> QED BY <1>2, <1>3, <1>4, <1>5, <1>6, <1>7, <1>8, <1>9 DEF RunStep

LEMMA NextType == TypeOK /\ [Next]_vars => TypeOK'
<1> SUFFICES ASSUME TypeOK, [Next]_vars PROVE TypeOK'
  OBVIOUS
<1>1. ASSUME NEW r \in Requests,
             ReadForSubmit(r) \/ RequestStep(r) \/ TaskStep(r) \/ TaskCrash(r)
      PROVE  TypeOK'
  BY <1>1, RequestType, TaskType DEF RequestStep
<1>2. ASSUME NEW l \in Runs, RunAuthorize(l) \/ RunStep(l) \/ RunCrash(l)
      PROVE  TypeOK'
  BY <1>2, RunType
<1>3. CASE DeleteTenant
  BY <1>3, ConstantRecords, ConnectionAssumption DEF DeleteTenant, TypeOK
<1>4. CASE Elapse
  BY <1>4 DEF Elapse, TypeOK
<1>5. CASE UNCHANGED vars
  BY <1>5 DEF vars, TypeOK
<1> QED BY <1>1, <1>2, <1>3, <1>4, <1>5 DEF Next

\* Every variable keeps its type: no writer leaves a record, a version or a
\* process state the others do not expect.
THEOREM TypeCorrect == Spec => []TypeOK
  BY InitType, NextType, PTL DEF Spec

-----------------------------------------------------------------------------
(* Nothing is verified without a proof: CopiesAreProven is inductive.      *)

LEMMA VerdictProven ==
    ASSUME NEW r \in Requests, CopiesAreProven, TypeOK, task[r].pc = "record"
    PROVE  ProvenIfVerified(Verdict(r))
<1> DEFINE c == task[r].copy
<1>1. /\ ProvenIfVerified(c) /\ c \in Records
      /\ task[r].out = "verified" => c.creds \in proven
  BY DEF CopiesAreProven, TypeOK
<1>2. CASE task[r].out = "verified"
  BY <1>1, <1>2 DEF Verdict, ProvenIfVerified, Records
<1>3. CASE task[r].out # "verified"
  <2>1. StatusOnFail(task[r].out, c.status) = "verified" => c.status = "verified"
    BY DEF StatusOnFail
  <2>2. /\ Verdict(r).creds = c.creds
        /\ Verdict(r).status = StatusOnFail(task[r].out, c.status)
    BY <1>1, <1>3 DEF Verdict, Records
  <2> QED BY <1>1, <2>1, <2>2 DEF ProvenIfVerified
<1> QED BY <1>2, <1>3

LEMMA StoppedProven ==
    ASSUME NEW l \in Runs, CopiesAreProven, TypeOK
    PROVE  ProvenIfVerified(Stopped(l))
<1>1. ProvenIfVerified(run[l].copy) /\ run[l].copy \in Records
  BY DEF CopiesAreProven, TypeOK
<1> QED BY <1>1 DEF Stopped, ProvenIfVerified, Records

LEMMA StoreProven ==
    ASSUME NEW c \in Records, ProvenIfVerified(c), Store(c), proven' = proven
    PROVE  ProvenIfVerified(conn)'
  BY DEF Store, ProvenIfVerified, Records

LEMMA RequestProven ==
    ASSUME TypeOK, CopiesAreProven, NEW r \in Requests,
           ReadForSubmit(r) \/ PutSubmission(r) \/ Launch(r)
    PROVE  CopiesAreProven'
<1>1. CASE ReadForSubmit(r)
  BY <1>1 DEF ReadForSubmit, CopiesAreProven, ProvenIfVerified
<1>2. CASE PutSubmission(r)
  <2>1. UNCHANGED <<task, run, proven>>
    BY <1>2 DEF PutSubmission
  <2>2. ProvenIfVerified(Submission(r)) /\ Submission(r) \in Records
    BY SubmissionType, ConstantRecords DEF Submission, ProvenIfVerified, Records
  <2>3. ProvenIfVerified(conn)'
    BY <1>2, <2>1, <2>2, StoreProven
    DEF PutSubmission, NotStored, CopiesAreProven, ProvenIfVerified
  <2> QED BY <2>1, <2>3 DEF CopiesAreProven, ProvenIfVerified
<1>3. CASE Launch(r)
  <2>1. /\ UNCHANGED <<conn, run, proven>>
        /\ \A s \in Requests : /\ task'[s].copy = task[s].copy
                               /\ task'[s].pc = task[s].pc \/ task'[s].pc = "read"
                               /\ task'[s].out = task[s].out
    BY <1>3 DEF Launch, TypeOK
  <2> QED BY <2>1 DEF CopiesAreProven, ProvenIfVerified
<1> QED BY <1>1, <1>2, <1>3

LEMMA TaskProven ==
    ASSUME TypeOK, CopiesAreProven, NEW r \in Requests, TaskStep(r) \/ TaskCrash(r)
    PROVE  CopiesAreProven'
<1> DEFINE Others == \A s \in Requests \ {r} : task'[s] = task[s]
<1>1. CASE TaskRead(r)
  <2>1. /\ Others /\ UNCHANGED <<conn, run, proven>>
        /\ task'[r].copy \in {task[r].copy, conn}
        /\ task'[r].pc \in {"check", "error", "readback"}
        /\ task'[r].pc = "check" => task'[r].copy.creds # NoCreds
    BY <1>1 DEF TaskRead, TypeOK
  <2> QED BY <2>1 DEF CopiesAreProven, ProvenIfVerified
<1>2. CASE TaskReadBack(r)
  <2>1. /\ Others /\ UNCHANGED <<conn, run, proven>>
        /\ task'[r].copy \in {task[r].copy, conn}
        /\ \/ task'[r].pc = "error"
           \/ task'[r].pc = "tell" /\ task'[r].out = "check_failed"
    BY <1>2 DEF TaskReadBack, TypeOK
  <2> QED BY <2>1 DEF CopiesAreProven, ProvenIfVerified
<1>3. CASE TaskCheck(r)
  <2>1. /\ Others /\ UNCHANGED <<conn, run>>
        /\ task'[r].copy = task[r].copy /\ task'[r].pc # "check"
    BY <1>3 DEF TaskCheck, TypeOK
  <2>2. proven \subseteq proven'
    BY <1>3 DEF TaskCheck
  <2>3. \/ task[r].copy.creds \in proven'
        \/ task'[r].out # "verified"
        \/ task'[r].pc = "error"
    BY <1>3 DEF TaskCheck, TypeOK, Classes, LoginFaults
  <2> QED BY <2>1, <2>2, <2>3 DEF CopiesAreProven, ProvenIfVerified
<1>4. CASE TaskTell(r)
  <2>1. /\ Others /\ UNCHANGED <<conn, run, proven>>
        /\ task[r].pc = "tell" /\ task'[r].copy = task[r].copy
        /\ task'[r].out = task[r].out /\ task'[r].pc = "record"
    BY <1>4 DEF TaskTell, TypeOK
  <2> QED BY <2>1 DEF CopiesAreProven, ProvenIfVerified
<1>5. CASE TaskRecord(r)
  <2>1. /\ Others /\ UNCHANGED <<run, proven>>
        /\ task[r].pc = "record" /\ task'[r].copy = task[r].copy
        /\ task'[r].pc \in {"ok", "error"}
    BY <1>5 DEF TaskRecord, ExitCode, TypeOK
  <2>2. ProvenIfVerified(conn)'
    BY <1>5, <2>1, VerdictProven, VerdictType, StoreProven
    DEF TaskRecord, NotStored, CopiesAreProven, ProvenIfVerified
  <2> QED BY <2>1, <2>2 DEF CopiesAreProven, ProvenIfVerified
<1>6. CASE TaskCrash(r)
  <2>1. /\ Others /\ UNCHANGED <<conn, run, proven>>
        /\ task'[r].copy = task[r].copy /\ task'[r].pc = "crashed"
    BY <1>6 DEF TaskCrash, TypeOK
  <2> QED BY <2>1 DEF CopiesAreProven, ProvenIfVerified
<1> QED BY <1>1, <1>2, <1>3, <1>4, <1>5, <1>6 DEF TaskStep

LEMMA RunProven ==
    ASSUME TypeOK, CopiesAreProven, NEW l \in Runs,
           RunAuthorize(l) \/ RunStep(l) \/ RunCrash(l)
    PROVE  CopiesAreProven'
<1>1. /\ UNCHANGED <<task, proven>>
      /\ \A m \in Runs : run'[m].copy \in {run[m].copy, conn}
  <2>1. CASE RunReread(l)
    BY <2>1 DEF RunReread, TypeOK
  <2>2. CASE RunAuthorize(l) \/ RunProbe(l) \/ RunMint(l) \/ RunCrash(l)
    BY <2>2 DEF RunAuthorize, RunProbe, RunMint, RunCrash, TypeOK
  <2>3. CASE RunStore(l) \/ RunStop(l) \/ RunTell(l)
    BY <2>3 DEF RunStore, RunStop, RunTell, TypeOK
  <2> QED BY <2>1, <2>2, <2>3 DEF RunStep
<1>2. ProvenIfVerified(conn)'
  <2>1. CASE RunStore(l)
    <3> DEFINE c == [run[l].copy EXCEPT !.session = run[l].creds, !.err = "none"]
    <3>1. c \in Records /\ ProvenIfVerified(c)
      BY DEF CopiesAreProven, ProvenIfVerified, TypeOK, Records
    <3>2. CASE Store(c)
      BY <1>1, <3>1, <3>2, StoreProven
    <3>3. CASE conn' = conn
      BY <1>1, <3>3 DEF CopiesAreProven, ProvenIfVerified
    <3> QED BY <2>1, <3>2, <3>3 DEF RunStore, NotStored
  <2>2. CASE RunStop(l)
    BY <1>1, <2>2, StoppedProven, StoppedType, StoreProven
    DEF RunStop, NotStored, CopiesAreProven, ProvenIfVerified
  <2>3. CASE conn' = conn
    BY <1>1, <2>3 DEF CopiesAreProven, ProvenIfVerified
  <2> QED BY <2>1, <2>2, <2>3 DEF RunStep, RunAuthorize, RunProbe, RunReread,
                                  RunMint, RunTell, RunCrash
<1> QED BY <1>1, <1>2 DEF CopiesAreProven, ProvenIfVerified

LEMMA NextProven == TypeOK /\ CopiesAreProven /\ [Next]_vars => CopiesAreProven'
<1> SUFFICES ASSUME TypeOK, CopiesAreProven, [Next]_vars PROVE CopiesAreProven'
  OBVIOUS
<1>1. ASSUME NEW r \in Requests,
             ReadForSubmit(r) \/ RequestStep(r) \/ TaskStep(r) \/ TaskCrash(r)
      PROVE  CopiesAreProven'
  BY <1>1, RequestProven, TaskProven DEF RequestStep
<1>2. ASSUME NEW l \in Runs, RunAuthorize(l) \/ RunStep(l) \/ RunCrash(l)
      PROVE  CopiesAreProven'
  BY <1>2, RunProven
<1>3. CASE DeleteTenant
  BY <1>3 DEF DeleteTenant, CopiesAreProven, ProvenIfVerified, NoRecord
<1>4. CASE Elapse \/ UNCHANGED vars
  BY <1>4 DEF Elapse, vars, CopiesAreProven, ProvenIfVerified
<1> QED BY <1>1, <1>2, <1>3, <1>4 DEF Next

LEMMA InitProven == Init => CopiesAreProven
<1> SUFFICES ASSUME Init PROVE CopiesAreProven
  OBVIOUS
<1>1. NoRecord.status = "none"
  BY DEF NoRecord
<1>2. LegacyRecord.creds = OldCreds
  BY ConstantRecords DEF LegacyRecord, Records
<1>3. ProvenIfVerified(NoRecord) /\ ProvenIfVerified(LegacyRecord)
  BY <1>1, <1>2 DEF Init, ProvenIfVerified
<1>4. /\ \A r \in Requests : task[r].copy = NoRecord /\ task[r].pc = "none"
      /\ \A l \in Runs : run[l].copy = NoRecord
  BY DEF Init
<1> QED BY <1>3, <1>4 DEF Init, CopiesAreProven, ProvenIfVerified

\* The bot acts only on credentials that logged in and controlled their team,
\* with any number of submissions, runs, crashes and deletions.
THEOREM NothingVerifiedUnproven == Spec => []VerifiedIsProven
<1>1. CopiesAreProven => VerifiedIsProven
  BY DEF CopiesAreProven, ProvenIfVerified, VerifiedIsProven
<1> QED BY <1>1, InitType, InitProven, NextType, NextProven, PTL DEF Spec

-----------------------------------------------------------------------------
(* Versions witness copies: CopiesAreWitnessed is inductive, because every *)
(* write that succeeds moves the version on.                               *)

\* The record a step leaves: the one it found, or a newer one.
Advances == conn' = conn \/ conn'.ver > conn.ver

\* What the ladder writes when it stops is its copy, judged.
LEMMA StoppedCopy ==
    ASSUME TypeOK, NEW l \in Runs
    PROVE  /\ Stopped(l).ver = run[l].copy.ver
           /\ Stopped(l).creds = run[l].copy.creds
<1>1. run[l].copy \in Records
  BY DEF TypeOK
<1>2. CASE routeFor(run[l].out) = "tenant"
  BY <1>1, <1>2 DEF Stopped, Records
<1>3. CASE routeFor(run[l].out) # "tenant"
  BY <1>1, <1>3 DEF Stopped, Records
<1> QED BY <1>2, <1>3

LEMMA StoreAdvances ==
    ASSUME NEW c \in Records, VersionHolds(c), Store(c)
    PROVE  conn'.ver > conn.ver
<1>1. c.ver \in Versions /\ NextVer(c.ver) > c.ver
  BY NextVerType DEF Records
<1>2. conn'.ver = NextVer(c.ver)
  BY DEF Store, Records
<1> QED BY <1>1, <1>2 DEF VersionHolds

LEMMA WitnessKept ==
    ASSUME conn \in Records, conn' \in Records, Advances,
           NEW c \in Records, Witness(c)
    PROVE  c.ver <= conn'.ver /\ (c.ver = conn'.ver => c = conn')
<1>1. c.ver \in Int /\ conn.ver \in Int /\ conn'.ver \in Int
  BY DEF Records, Versions, Absent
<1> QED BY <1>1 DEF Advances, Witness

LEMMA WriteAdvances ==
    ASSUME TypeOK,
           \/ \E r \in Requests : PutSubmission(r) \/ TaskRecord(r)
           \/ \E l \in Runs : RunStore(l) \/ RunStop(l)
    PROVE  Advances
<1>1. ASSUME NEW r \in Requests, PutSubmission(r) PROVE Advances
  BY <1>1, SubmissionType, StoreAdvances DEF PutSubmission, NotStored, Advances
<1>2. ASSUME NEW r \in Requests, TaskRecord(r) PROVE Advances
  <2>1. Verdict(r) \in Records /\ Verdict(r).ver = task[r].copy.ver
    <3>1. task[r].copy \in Records
      BY DEF TypeOK
    <3>2. CASE task[r].out = "verified"
      BY <3>1, <3>2, VerdictType DEF Verdict, Records
    <3>3. CASE task[r].out # "verified"
      BY <3>1, <3>3, VerdictType DEF Verdict, Records
    <3> QED BY <3>2, <3>3
  <2> QED BY <1>2, <2>1, StoreAdvances DEF TaskRecord, NotStored, Advances, VersionHolds
<1>3. ASSUME NEW l \in Runs, RunStore(l) PROVE Advances
  <2> DEFINE c == [run[l].copy EXCEPT !.session = run[l].creds, !.err = "none"]
  <2>1. c \in Records /\ c.ver = run[l].copy.ver
    BY DEF TypeOK, Records
  <2> QED BY <1>3, <2>1, StoreAdvances DEF RunStore, NotStored, Advances, VersionHolds
<1>4. ASSUME NEW l \in Runs, RunStop(l) PROVE Advances
  <2>1. Stopped(l) \in Records /\ Stopped(l).ver = run[l].copy.ver
    BY StoppedType, StoppedCopy
  <2> QED BY <1>4, <2>1, StoreAdvances DEF RunStop, NotStored, Advances, VersionHolds
<1> QED BY <1>1, <1>2, <1>3, <1>4

LEMMA NextAdvances == TypeOK /\ [Next]_vars /\ deletes' = 0 => Advances
<1> SUFFICES ASSUME TypeOK, [Next]_vars, deletes' = 0 PROVE Advances
  OBVIOUS
<1>1. ASSUME NEW r \in Requests,
             ReadForSubmit(r) \/ RequestStep(r) \/ TaskStep(r) \/ TaskCrash(r)
      PROVE  Advances
  <2>1. \/ PutSubmission(r) \/ TaskRecord(r) \/ conn' = conn
    BY <1>1 DEF ReadForSubmit, RequestStep, Launch, TaskStep, TaskRead, TaskReadBack,
                TaskCheck, TaskTell, TaskCrash
  <2> QED BY <2>1, WriteAdvances DEF Advances
<1>2. ASSUME NEW l \in Runs, RunAuthorize(l) \/ RunStep(l) \/ RunCrash(l)
      PROVE  Advances
  <2>1. \/ RunStore(l) \/ RunStop(l) \/ conn' = conn
    BY <1>2 DEF RunAuthorize, RunStep, RunProbe, RunReread, RunMint, RunTell, RunCrash
  <2> QED BY <2>1, WriteAdvances DEF Advances
<1>3. ~DeleteTenant
  BY DEF DeleteTenant, TypeOK
<1>4. CASE Elapse \/ UNCHANGED vars
  BY <1>4 DEF Elapse, vars, Advances
<1> QED BY <1>1, <1>2, <1>3, <1>4 DEF Next

\* A writer that holds a copy after a step held it before, or just read it.
LEMMA CopiesAreRead ==
    ASSUME TypeOK, [Next]_vars
    PROVE  /\ \A r \in Requests : HoldsCopy(r)' =>
                \/ HoldsCopy(r) /\ task'[r].copy = task[r].copy
                \/ task'[r].copy = conn /\ conn' = conn
           /\ \A l \in Runs : LadderHoldsCopy(l)' =>
                \/ LadderHoldsCopy(l) /\ run'[l].copy = run[l].copy
                \/ run'[l].copy = conn /\ conn' = conn
<1>1. ASSUME NEW s \in Requests, ReadForSubmit(s) \/ RequestStep(s)
      PROVE  /\ run' = run
             /\ \A r \in Requests : HoldsCopy(r)' =>
                  HoldsCopy(r) /\ task'[r].copy = task[r].copy
  <2>1. CASE ReadForSubmit(s) \/ PutSubmission(s)
    BY <2>1 DEF ReadForSubmit, PutSubmission, HoldsCopy
  <2>2. CASE Launch(s)
    BY <2>2 DEF Launch, HoldsCopy, TypeOK
  <2> QED BY <1>1, <2>1, <2>2 DEF RequestStep
<1>2. ASSUME NEW s \in Requests, TaskStep(s) \/ TaskCrash(s)
      PROVE  /\ run' = run
             /\ \A r \in Requests : HoldsCopy(r)' =>
                  \/ HoldsCopy(r) /\ task'[r].copy = task[r].copy
                  \/ task'[r].copy = conn /\ conn' = conn
  <2>1. CASE TaskRead(s)
    <3>1. CASE task' = [task EXCEPT ![s].pc = "check", ![s].copy = conn]
      <4>1. task'[s].copy = conn /\ \A r \in Requests \ {s} : task'[r] = task[r]
        BY <3>1 DEF TypeOK
      <4> QED BY <2>1, <4>1 DEF TaskRead, HoldsCopy
    <3>2. CASE \E pc \in {"error", "readback"} : task' = [task EXCEPT ![s].pc = pc]
      <4>1. ~HoldsCopy(s)' /\ \A r \in Requests \ {s} : task'[r] = task[r]
        BY <3>2 DEF TypeOK, HoldsCopy
      <4> QED BY <2>1, <4>1 DEF TaskRead, HoldsCopy
    <3> QED BY <2>1, <3>1, <3>2 DEF TaskRead
  <2>2. CASE TaskReadBack(s)
    BY <2>2 DEF TaskReadBack, HoldsCopy, TypeOK
  <2>3. CASE TaskCheck(s) \/ TaskTell(s) \/ TaskCrash(s)
    <3>1. task'[s].copy = task[s].copy /\ (HoldsCopy(s)' => HoldsCopy(s))
      BY <2>3 DEF TaskCheck, TaskTell, TaskCrash, HoldsCopy, TypeOK
    <3>2. \A r \in Requests \ {s} : task'[r] = task[r]
      BY <2>3 DEF TaskCheck, TaskTell, TaskCrash, TypeOK
    <3>3. run' = run
      BY <2>3 DEF TaskCheck, TaskTell, TaskCrash
    <3> QED BY <3>1, <3>2, <3>3 DEF HoldsCopy
  <2>4. CASE TaskRecord(s)
    <3>1. PICK pc \in {"ok", "error"} : task' = [task EXCEPT ![s].pc = pc]
      BY <2>4 DEF TaskRecord, ExitCode
    <3>2. task'[s].pc = pc /\ \A r \in Requests \ {s} : task'[r] = task[r]
      BY <3>1 DEF TypeOK
    <3>3. run' = run
      BY <2>4 DEF TaskRecord
    <3> QED BY <3>2, <3>3 DEF HoldsCopy
  <2> QED BY <1>2, <2>1, <2>2, <2>3, <2>4 DEF TaskStep
<1>3. ASSUME NEW m \in Runs, RunAuthorize(m) \/ RunStep(m) \/ RunCrash(m)
      PROVE  /\ task' = task
             /\ \A l \in Runs : LadderHoldsCopy(l)' =>
                  \/ LadderHoldsCopy(l) /\ run'[l].copy = run[l].copy
                  \/ run'[l].copy = conn /\ conn' = conn
  <2>1. CASE RunReread(m)
    BY <2>1 DEF RunReread, LadderHoldsCopy, TypeOK
  <2>2. CASE RunAuthorize(m) \/ RunProbe(m) \/ RunMint(m) \/ RunCrash(m)
    BY <2>2 DEF RunAuthorize, RunProbe, RunMint, RunCrash, LadderHoldsCopy, TypeOK
  <2>3. CASE RunStore(m) \/ RunStop(m) \/ RunTell(m)
    <3>1. \E pc \in {"ok", "tell", "error"} : run' = [run EXCEPT ![m].pc = pc]
      BY <2>3 DEF RunStore, RunStop, RunTell
    <3> QED BY <2>3, <3>1 DEF RunStore, RunStop, RunTell, LadderHoldsCopy, TypeOK
  <2> QED BY <1>3, <2>1, <2>2, <2>3 DEF RunStep
<1>4. ASSUME DeleteTenant \/ Elapse \/ UNCHANGED vars
      PROVE  task' = task /\ run' = run
  BY <1>4 DEF DeleteTenant, Elapse, vars
<1> QED BY <1>1, <1>2, <1>3, <1>4 DEF Next, HoldsCopy, LadderHoldsCopy

LEMMA DeletesCount == TypeOK /\ [Next]_vars /\ deletes' = 0 => deletes = 0
<1> SUFFICES ASSUME TypeOK, [Next]_vars, deletes' = 0 PROVE deletes = 0
  OBVIOUS
<1>1. deletes \in Int /\ 0 <= deletes
  BY ConnectionAssumption DEF TypeOK
<1>2. ~DeleteTenant
  BY <1>1 DEF DeleteTenant
<1>3. deletes' = deletes
  BY <1>2 DEF Next, vars, Elapse, ReadForSubmit, RequestStep,
        PutSubmission, Launch, TaskStep, TaskRead, TaskReadBack, TaskCheck, TaskTell,
        TaskRecord, TaskCrash, RunAuthorize, RunStep, RunProbe, RunReread, RunMint,
        RunStore, RunStop, RunTell, RunCrash
<1> QED BY <1>3

LEMMA NextWitnessed ==
    TypeOK /\ TypeOK' /\ CopiesAreWitnessed /\ [Next]_vars => CopiesAreWitnessed'
<1> SUFFICES ASSUME TypeOK, TypeOK', CopiesAreWitnessed, [Next]_vars, deletes' = 0
             PROVE  /\ \A r \in Requests : HoldsCopy(r)' => Witness(task[r].copy)'
                    /\ \A l \in Runs : LadderHoldsCopy(l)' => Witness(run[l].copy)'
  BY DEF CopiesAreWitnessed
<1>1. deletes = 0
  BY DeletesCount
<1>2. Advances /\ conn \in Records /\ conn' \in Records
  BY NextAdvances DEF TypeOK
<1>3. ASSUME NEW r \in Requests, HoldsCopy(r)' PROVE Witness(task[r].copy)'
  <2>1. CASE HoldsCopy(r) /\ task'[r].copy = task[r].copy
    <3>1. Witness(task[r].copy) /\ task[r].copy \in Records
      BY <1>1, <2>1 DEF CopiesAreWitnessed, TypeOK
    <3> QED BY <1>2, <2>1, <3>1, WitnessKept DEF Witness
  <2>2. CASE task'[r].copy = conn /\ conn' = conn
    BY <1>2, <2>2 DEF Witness, Records, Versions, Absent
  <2> QED BY <1>3, <2>1, <2>2, CopiesAreRead
<1>4. ASSUME NEW l \in Runs, LadderHoldsCopy(l)' PROVE Witness(run[l].copy)'
  <2>1. CASE LadderHoldsCopy(l) /\ run'[l].copy = run[l].copy
    <3>1. Witness(run[l].copy) /\ run[l].copy \in Records
      BY <1>1, <2>1 DEF CopiesAreWitnessed, TypeOK
    <3> QED BY <1>2, <2>1, <3>1, WitnessKept DEF Witness
  <2>2. CASE run'[l].copy = conn /\ conn' = conn
    BY <1>2, <2>2 DEF Witness, Records, Versions, Absent
  <2> QED BY <1>4, <2>1, <2>2, CopiesAreRead
<1> QED BY <1>3, <1>4

LEMMA InitWitnessed == Init => CopiesAreWitnessed
  BY DEF Init, CopiesAreWitnessed, HoldsCopy, LadderHoldsCopy

\* The inductive invariant: the types, the copies witnessed by their versions
\* and the verified statuses proven.
THEOREM CopiesWitnessedAndProven == Spec => []IInv
<1>1. Init => IInv
  BY InitType, InitProven, InitWitnessed DEF IInv
<1>2. IInv /\ [Next]_vars => IInv'
  BY NextType, NextProven, NextWitnessed DEF IInv
<1> QED BY <1>1, <1>2, PTL DEF Spec

-----------------------------------------------------------------------------
(* Only a submission replaces the stored credentials.                      *)

LEMMA OnlySubmissionReplaces ==
    ASSUME IInv, [Next]_vars, deletes' = 0, deletes = 0, conn'.creds # conn.creds
    PROVE  \E r \in Requests : /\ req[r].pc = "put"
                                /\ conn'.creds = r /\ conn'.status = "pending"
<1> USE DEF IInv
<1>1. ASSUME NEW r \in Requests, PutSubmission(r)
      PROVE  req[r].pc = "put" /\ conn'.creds = r /\ conn'.status = "pending"
  <2>1. Submission(r).creds = r /\ Submission(r).status = "pending"
    BY ConstantRecords DEF Submission, Records
  <2> QED BY <1>1, <2>1, SubmissionType DEF PutSubmission, Store, NotStored, Records
<1>2. ASSUME NEW r \in Requests, TaskRecord(r) PROVE FALSE
  <2>1. Verdict(r) \in Records /\ Verdict(r).creds = task[r].copy.creds
    <3>1. task[r].copy \in Records
      BY DEF TypeOK
    <3>2. CASE task[r].out = "verified"
      BY <3>1, <3>2, VerdictType DEF Verdict, Records
    <3>3. CASE task[r].out # "verified"
      BY <3>1, <3>3, VerdictType DEF Verdict, Records
    <3> QED BY <3>2, <3>3
  <2>2. VersionHolds(task[r].copy) => task[r].copy = conn
    BY <1>2 DEF TaskRecord, VersionHolds, CopiesAreWitnessed, HoldsCopy, Witness
  <2> QED BY <1>2, <2>1, <2>2 DEF TaskRecord, Store, NotStored, Records
<1>3. ASSUME NEW l \in Runs, RunStore(l) \/ RunStop(l) PROVE FALSE
  <2> DEFINE c == [run[l].copy EXCEPT !.session = run[l].creds, !.err = "none"]
  <2>1. /\ c \in Records /\ c.creds = run[l].copy.creds
        /\ Stopped(l) \in Records /\ Stopped(l).creds = run[l].copy.creds
    <3>1. run[l].copy \in Records /\ run[l].creds \in Creds \cup {NoCreds}
      BY DEF TypeOK
    <3>2. c \in Records /\ c.creds = run[l].copy.creds
      BY <3>1 DEF Records
    <3> QED BY <3>2, StoppedType, StoppedCopy
  <2>2. VersionHolds(run[l].copy) => run[l].copy = conn
    BY <1>3 DEF RunStore, RunStop, VersionHolds, CopiesAreWitnessed,
                LadderHoldsCopy, Witness
  <2>3. CASE RunStore(l)
    BY <2>1, <2>2, <2>3 DEF RunStore, Store, NotStored, Records
  <2>4. CASE RunStop(l)
    BY <2>1, <2>2, <2>4 DEF RunStop, Store, NotStored, Records
  <2> QED BY <1>3, <2>3, <2>4
<1>4. ~DeleteTenant
  BY DEF DeleteTenant
<1>5. \/ \E r \in Requests : PutSubmission(r) \/ TaskRecord(r)
      \/ \E l \in Runs : RunStore(l) \/ RunStop(l)
  BY <1>4 DEF Next, vars, Elapse, ReadForSubmit, RequestStep, Launch, TaskStep,
       TaskRead, TaskReadBack, TaskCheck, TaskTell, TaskCrash, RunAuthorize, RunStep,
       RunProbe, RunReread, RunMint, RunTell, RunCrash
<1> QED BY <1>1, <1>2, <1>3, <1>5

\* No writer brings back credentials a reconnect has replaced, as long as the
\* tenant is not deleted: versions start again at 1 after a deletion, and a
\* copy from before it can match a record from after it.
THEOREM OnlyASubmissionReplacesCreds == Spec => CredsOnlyReplacedBySubmission
<1>1. IInv /\ [Next]_vars => [CredsReplacedOnlyHere]_vars
  <2> SUFFICES ASSUME IInv, [Next]_vars, deletes' = 0, conn'.creds # conn.creds
               PROVE  \E r \in Requests :
                        /\ req[r].pc = "put"
                        /\ conn'.creds = r /\ conn'.status = "pending"
    BY DEF CredsReplacedOnlyHere
  <2>1. deletes = 0
    BY DeletesCount DEF IInv
  <2> QED BY <2>1, OnlySubmissionReplaces
<1> QED BY <1>1, CopiesWitnessedAndProven, PTL DEF Spec, CredsOnlyReplacedBySubmission

-----------------------------------------------------------------------------
(* Connection implements TenantConnection while the tenant exists.         *)

\* What a verdict does to the record's credentials and status.
LEMMA VerdictEffect ==
    ASSUME IInv, NEW r \in Requests, TaskRecord(r), deletes = 0
    PROVE  TC!Verify \/ TC!Fail \/ UNCHANGED <<conn.creds, conn.status, proven>>
<1> DEFINE c == task[r].copy
<1>1. c \in Records /\ Verdict(r) \in Records
  BY VerdictType DEF IInv, TypeOK
<1>2. proven' = proven
  BY DEF TaskRecord
<1>3. CASE conn' = conn
  BY <1>2, <1>3
<1>4. CASE VersionHolds(c) /\ Store(Verdict(r))
  <2>1. c = conn
    BY <1>4 DEF TaskRecord, VersionHolds, IInv, CopiesAreWitnessed, HoldsCopy, Witness
  <2>2. conn'.creds = Verdict(r).creds /\ conn'.status = Verdict(r).status
    BY <1>1, <1>4 DEF Store, Records
  <2>3. CASE task[r].out = "verified"
    <3>1. Verdict(r).creds = c.creds /\ Verdict(r).status = "verified"
      BY <1>1, <2>3 DEF Verdict, Records
    <3>2. c.creds \in proven
      BY <2>3 DEF TaskRecord, IInv, CopiesAreProven
    <3> QED BY <1>2, <2>1, <2>2, <3>1, <3>2 DEF TC!Verify
  <2>4. CASE task[r].out # "verified"
    <3>1. /\ Verdict(r).creds = c.creds
          /\ Verdict(r).status = StatusOnFail(task[r].out, c.status)
      BY <1>1, <2>4 DEF Verdict, Records
    <3>2. StatusOnFail(task[r].out, c.status)
            \in {c.status, "needs_reconnect", "interrupted", "check_failed"}
      BY DEF StatusOnFail
    <3> QED BY <1>2, <2>1, <2>2, <3>1, <3>2 DEF TC!Fail
  <2> QED BY <2>3, <2>4
<1> QED BY <1>3, <1>4 DEF TaskRecord, NotStored

LEMMA LadderEffect ==
    ASSUME IInv, NEW l \in Runs, RunStore(l) \/ RunStop(l), deletes = 0
    PROVE  TC!Fail \/ UNCHANGED <<conn.creds, conn.status, proven>>
<1> DEFINE c == run[l].copy
           d == [c EXCEPT !.session = run[l].creds, !.err = "none"]
<1>1. c \in Records /\ d \in Records /\ Stopped(l) \in Records
  BY StoppedType DEF IInv, TypeOK, Records
<1>2. proven' = proven
  BY DEF RunStore, RunStop
<1>3. VersionHolds(c) => c = conn
  BY DEF RunStore, RunStop, VersionHolds, IInv, CopiesAreWitnessed,
         LadderHoldsCopy, Witness
<1>4. CASE RunStore(l)
  <2>1. d.creds = c.creds /\ d.status = c.status
    BY <1>1 DEF Records
  <2> QED BY <1>1, <1>2, <1>3, <1>4, <2>1 DEF RunStore, Store, NotStored, Records
<1>5. CASE RunStop(l)
  <2>1. /\ Stopped(l).creds = c.creds
        /\ Stopped(l).status \in {c.status, "needs_reconnect"}
    BY <1>1 DEF Stopped, Records
  <2>2. CASE VersionHolds(c) /\ Store(Stopped(l))
    <3>1. conn'.creds = Stopped(l).creds /\ conn'.status = Stopped(l).status
      BY <1>1, <2>2 DEF Store, Records
    <3> QED BY <1>2, <1>3, <2>1, <2>2, <3>1 DEF TC!Fail
  <2>3. CASE conn' = conn
    BY <1>2, <2>3
  <2> QED BY <1>5, <2>2, <2>3 DEF RunStop, NotStored
<1> QED BY <1>4, <1>5

LEMMA StepImplements ==
    ASSUME IInv, [Next]_vars, deletes = 0, deletes' = 0
    PROVE  TC!Next \/ UNCHANGED <<conn.creds, conn.status, proven>>
<1>1. ASSUME NEW r \in Requests, PutSubmission(r)
      PROVE  TC!Submit \/ UNCHANGED <<conn.creds, conn.status, proven>>
  <2>1. Submission(r).creds = r /\ Submission(r).status = "pending"
    BY ConstantRecords DEF Submission, Records
  <2>2. Submission(r) \in Records
    BY SubmissionType DEF IInv
  <2> QED BY <1>1, <2>1, <2>2 DEF PutSubmission, Store, NotStored, Records, TC!Submit
<1>2. ASSUME NEW r \in Requests, TaskCheck(r)
      PROVE  TC!Prove \/ UNCHANGED <<conn.creds, conn.status, proven>>
  <2>1. conn' = conn
    BY <1>2 DEF TaskCheck
  <2>2. task[r].copy.creds \in Creds
    BY <1>2 DEF TaskCheck, IInv, TypeOK, CopiesAreProven, Records
  <2>3. proven' = proven \cup {task[r].copy.creds} \/ proven' = proven
    BY <1>2 DEF TaskCheck
  <2> QED BY <2>1, <2>2, <2>3 DEF TC!Prove, Creds
<1>3. ASSUME NEW r \in Requests,
             \/ ReadForSubmit(r) \/ Launch(r) \/ TaskCrash(r)
             \/ TaskRead(r) \/ TaskReadBack(r) \/ TaskTell(r)
      PROVE  UNCHANGED <<conn.creds, conn.status, proven>>
  BY <1>3 DEF ReadForSubmit, Launch, TaskCrash, TaskRead, TaskReadBack, TaskTell
<1>4. ASSUME NEW l \in Runs,
             \/ RunAuthorize(l) \/ RunProbe(l) \/ RunReread(l) \/ RunMint(l)
             \/ RunTell(l) \/ RunCrash(l)
      PROVE  UNCHANGED <<conn.creds, conn.status, proven>>
  BY <1>4 DEF RunAuthorize, RunProbe, RunReread, RunMint, RunTell, RunCrash
<1>5. ~DeleteTenant
  BY DEF DeleteTenant
<1>6. CASE Elapse \/ UNCHANGED vars
  BY <1>6 DEF Elapse, vars
<1>7. ASSUME NEW r \in Requests,
             ReadForSubmit(r) \/ RequestStep(r) \/ TaskStep(r) \/ TaskCrash(r)
      PROVE  TC!Next \/ UNCHANGED <<conn.creds, conn.status, proven>>
  BY <1>1, <1>2, <1>3, <1>7, VerdictEffect DEF TC!Next, RequestStep, TaskStep
<1>8. ASSUME NEW l \in Runs, RunAuthorize(l) \/ RunStep(l) \/ RunCrash(l)
      PROVE  TC!Next \/ UNCHANGED <<conn.creds, conn.status, proven>>
  BY <1>4, <1>8, LadderEffect DEF TC!Next, RunStep
<1> QED BY <1>5, <1>6, <1>7, <1>8 DEF Next

LEMMA InitImplements == Init => TC!Init
<1> SUFFICES ASSUME Init PROVE TC!Init
  OBVIOUS
<1>1. NoRecord.status = "none" /\ NoRecord.creds = NoCreds
  BY DEF NoRecord
<1>2. LegacyRecord.creds = OldCreds /\ LegacyRecord.status = "verified"
  BY ConstantRecords DEF LegacyRecord, Records
<1> QED BY <1>1, <1>2 DEF Init, TC!Init

\* While the tenant exists, whatever the connect handler, the connect tasks
\* and the session ladders do, the record behaves as its contract promises:
\* credentials change only with a submission, and are verified only if proven.
THEOREM ConnectionImplementsTenantConnection ==
    ASSUME MaxDeletes = 0
    PROVE  Spec => ImplementsTenantConnection
<1>1. IInv /\ [Next]_vars /\ IInv' =>
        [TC!Next]_<<conn.creds, conn.status, proven>>
  <2>1. IInv => deletes = 0
    BY DEF IInv, TypeOK
  <2>2. IInv' => deletes' = 0
    BY DEF IInv, TypeOK
  <2> QED BY <2>1, <2>2, StepImplements
<1> QED BY <1>1, InitImplements, CopiesWitnessedAndProven, PTL
        DEF Spec, ImplementsTenantConnection, TC!Spec

-----------------------------------------------------------------------------
(* What is said of a record stays true of it: a submission has one task, a     *)
(* task that has ended keeps its copy, and every record stored is a submission *)
(* or a copy, judged.                                                          *)

LaunchedOnce == \A r \in Requests : task[r].pc = "none" <=> req[r].pc # "accepted"

Ended == {"ok", "error", "crashed"}
Refreshed(l) == [run[l].copy EXCEPT !.session = run[l].creds, !.err = "none"]

\* Every way in which a step can touch a task, a copy or the record.
Settles ==
    /\ \A r \in Requests : /\ task'[r].copy \in {task[r].copy, conn}
                           /\ task[r].pc \in Ended => task'[r] = task[r]
    /\ \A l \in Runs : run'[l].copy \in {run[l].copy, conn}
    /\ proven \subseteq proven' /\ Addressed \subseteq Addressed'
StoresWhatItMay ==
    \/ conn' \in {conn, NoRecord}
    \/ \E r \in Requests : PutSubmission(r) /\ Store(Submission(r))
    \/ \E r \in Requests : TaskRecord(r) /\ Store(Verdict(r))
    \/ \E l \in Runs : RunStore(l) /\ Store(Refreshed(l))
    \/ \E l \in Runs : RunStop(l) /\ Store(Stopped(l))

\* A step of a task touches no other task, and ends as itself or goes on.
LEMMA TaskStepIs ==
    ASSUME TypeOK, NEW r \in Requests, TaskStep(r) \/ TaskCrash(r)
    PROVE  /\ LiveTask(r) /\ UNCHANGED <<req, run>> /\ \A s \in Requests \ {r} : task'[s] = task[s]
           /\ task'[r].copy \in {task[r].copy, conn} /\ task'[r].pc # "none"
           /\ proven \subseteq proven' /\ Addressed \subseteq Addressed'
<1>1. CASE TaskRead(r)
  BY <1>1 DEF TaskRead, LiveTask, TypeOK, Addressed
<1>2. CASE TaskReadBack(r)
  <2>1. Addressed \subseteq Addressed'
    BY <1>2, TellIs DEF TaskReadBack
  <2> QED BY <1>2, <2>1 DEF TaskReadBack, LiveTask, TypeOK
<1>3. CASE TaskCheck(r)
  BY <1>3 DEF TaskCheck, LiveTask, TypeOK, Addressed
<1>4. CASE TaskTell(r)
  <2>1. Addressed \subseteq Addressed'
    BY <1>4, TellIs DEF TaskTell
  <2> QED BY <1>4, <2>1 DEF TaskTell, LiveTask, TypeOK
<1>5. CASE TaskRecord(r)
  <2>1. PICK pc \in {"ok", "error"} : task' = [task EXCEPT ![r].pc = pc]
    BY <1>5 DEF TaskRecord, ExitCode
  <2> QED BY <1>5, <2>1 DEF TaskRecord, LiveTask, TypeOK, Addressed
<1>6. CASE TaskCrash(r)
  BY <1>6 DEF TaskCrash, LiveTask, TypeOK, Addressed
<1> QED BY <1>1, <1>2, <1>3, <1>4, <1>5, <1>6 DEF TaskStep

LEMMA RequestStepIs ==
    ASSUME TypeOK, NEW r \in Requests, ReadForSubmit(r) \/ RequestStep(r)
    PROVE  /\ UNCHANGED <<run, proven, told, unheard>> /\ req[r].pc \in {"read", "put", "launch"}
           /\ \A s \in Requests \ {r} : req'[s] = req[s]
           /\ \/ task' = task /\ req'[r].pc # "accepted"
              \/ /\ Launch(r) /\ req'[r].pc = "accepted"
                 /\ task' = [task EXCEPT ![r].pc = "read"]
<1>1. CASE ReadForSubmit(r)
  BY <1>1 DEF ReadForSubmit, TypeOK
<1>2. CASE PutSubmission(r)
  <2>1. CASE \E pc \in {"launch", "refused"} : req' = [req EXCEPT ![r].pc = pc]
    BY <1>2, <2>1 DEF PutSubmission, TypeOK
  <2>2. CASE req' = [req EXCEPT ![r].pc = "read", ![r].n = req[r].n + 1]
    BY <1>2, <2>2 DEF PutSubmission, TypeOK
  <2> QED BY <1>2, <2>1, <2>2 DEF PutSubmission
<1>3. CASE Launch(r)
  BY <1>3 DEF Launch, TypeOK
<1> QED BY <1>1, <1>2, <1>3 DEF RequestStep

LEMMA RunStepIs ==
    ASSUME TypeOK, NEW l \in Runs, RunAuthorize(l) \/ RunStep(l) \/ RunCrash(l)
    PROVE  /\ UNCHANGED <<req, task, proven>> /\ Addressed \subseteq Addressed'
           /\ \A m \in Runs : run'[m].copy \in {run[m].copy, conn}
<1>1. CASE RunReread(l)
  BY <1>1 DEF RunReread, TypeOK, Addressed
<1>2. CASE RunAuthorize(l) \/ RunProbe(l) \/ RunMint(l) \/ RunCrash(l)
  <2>1. UNCHANGED <<req, task, proven, told, unheard>>
    BY <1>2 DEF RunAuthorize, RunProbe, RunMint, RunCrash
  <2>2. \A m \in Runs : run'[m].copy = run[m].copy
    BY <1>2 DEF RunAuthorize, RunProbe, RunMint, RunCrash, TypeOK
  <2> QED BY <2>1, <2>2 DEF Addressed
<1>3. CASE RunStore(l) \/ RunStop(l) \/ RunTell(l)
  <2>1. PICK pc \in {"ok", "tell", "error"} : run' = [run EXCEPT ![l].pc = pc]
    BY <1>3 DEF RunStore, RunStop, RunTell
  <2>2. UNCHANGED <<req, task, proven>> /\ Addressed \subseteq Addressed'
    BY <1>3, TellIs DEF RunStore, RunStop, RunTell, Addressed
  <2> QED BY <2>1, <2>2 DEF TypeOK
<1> QED BY <1>1, <1>2, <1>3 DEF RunStep

LEMMA NextLaunched == TypeOK /\ LaunchedOnce /\ [Next]_vars => LaunchedOnce'
<1> SUFFICES ASSUME TypeOK, LaunchedOnce, [Next]_vars PROVE LaunchedOnce'
  OBVIOUS
<1>1. ASSUME NEW r \in Requests, ReadForSubmit(r) \/ RequestStep(r) PROVE LaunchedOnce'
  <2>1. CASE task' = task /\ req'[r].pc # "accepted"
    BY <1>1, <2>1, RequestStepIs DEF LaunchedOnce
  <2>2. CASE req'[r].pc = "accepted" /\ task' = [task EXCEPT ![r].pc = "read"]
    <3>1. task'[r].pc = "read" /\ \A s \in Requests \ {r} : task'[s] = task[s]
      BY <2>2 DEF TypeOK
    <3> QED BY <1>1, <2>2, <3>1, RequestStepIs DEF LaunchedOnce
  <2> QED BY <1>1, <2>1, <2>2, RequestStepIs
<1>2. ASSUME NEW r \in Requests, TaskStep(r) \/ TaskCrash(r) PROVE LaunchedOnce'
  BY <1>2, TaskStepIs DEF LaunchedOnce, LiveTask
<1>3. ASSUME NEW l \in Runs, RunAuthorize(l) \/ RunStep(l) \/ RunCrash(l) PROVE LaunchedOnce'
  BY <1>3, RunStepIs DEF LaunchedOnce
<1>4. CASE DeleteTenant \/ Elapse \/ UNCHANGED vars
  BY <1>4 DEF DeleteTenant, Elapse, vars, LaunchedOnce
<1> QED BY <1>1, <1>2, <1>3, <1>4 DEF Next

LEMMA NextSettles ==
    ASSUME TypeOK, LaunchedOnce, [Next]_vars
    PROVE  Settles
<1>1. ASSUME NEW r \in Requests, ReadForSubmit(r) \/ RequestStep(r) PROVE Settles
  <2>1. CASE task' = task
    BY <1>1, <2>1, RequestStepIs DEF Settles, Addressed
  <2>2. CASE Launch(r) /\ task' = [task EXCEPT ![r].pc = "read"]
    <3>1. task[r].pc = "none"
      BY <2>2 DEF Launch, LaunchedOnce
    <3>2. task'[r].copy = task[r].copy /\ \A s \in Requests \ {r} : task'[s] = task[s]
      BY <2>2 DEF TypeOK
    <3> QED BY <1>1, <3>1, <3>2, RequestStepIs DEF Settles, Ended, Addressed
  <2> QED BY <1>1, <2>1, <2>2, RequestStepIs
<1>2. ASSUME NEW r \in Requests, TaskStep(r) \/ TaskCrash(r) PROVE Settles
  BY <1>2, TaskStepIs DEF Settles, LiveTask, Ended
<1>3. ASSUME NEW l \in Runs, RunAuthorize(l) \/ RunStep(l) \/ RunCrash(l) PROVE Settles
  BY <1>3, RunStepIs DEF Settles
<1>4. CASE DeleteTenant \/ Elapse \/ UNCHANGED vars
  BY <1>4 DEF DeleteTenant, Elapse, vars, Settles, Addressed
<1> QED BY <1>1, <1>2, <1>3, <1>4 DEF Next

LEMMA NextStores ==
    ASSUME TypeOK, [Next]_vars
    PROVE  StoresWhatItMay
<1>1. ASSUME NEW r \in Requests,
             ReadForSubmit(r) \/ RequestStep(r) \/ TaskStep(r) \/ TaskCrash(r)
      PROVE  StoresWhatItMay
  <2>1. CASE PutSubmission(r)
    BY <2>1 DEF PutSubmission, NotStored, StoresWhatItMay
  <2>2. CASE TaskRecord(r)
    BY <2>2 DEF TaskRecord, NotStored, StoresWhatItMay
  <2>3. PutSubmission(r) \/ TaskRecord(r) \/ conn' = conn
    BY <1>1 DEF ReadForSubmit, RequestStep, Launch, TaskStep, TaskRead, TaskReadBack,
                TaskCheck, TaskTell, TaskCrash
  <2> QED BY <2>1, <2>2, <2>3 DEF StoresWhatItMay
<1>2. ASSUME NEW l \in Runs, RunAuthorize(l) \/ RunStep(l) \/ RunCrash(l)
      PROVE  StoresWhatItMay
  <2>1. CASE RunStore(l)
    BY <2>1 DEF RunStore, Refreshed, NotStored, StoresWhatItMay
  <2>2. CASE RunStop(l)
    BY <2>2 DEF RunStop, NotStored, StoresWhatItMay
  <2>3. RunStore(l) \/ RunStop(l) \/ conn' = conn
    BY <1>2 DEF RunAuthorize, RunStep, RunProbe, RunReread, RunMint, RunTell, RunCrash
  <2> QED BY <2>1, <2>2, <2>3 DEF StoresWhatItMay
<1>3. CASE DeleteTenant \/ Elapse \/ UNCHANGED vars
  BY <1>3 DEF DeleteTenant, Elapse, vars, StoresWhatItMay
<1> QED BY <1>1, <1>2, <1>3 DEF Next

\* A record is stored as it was made, but for its version.
LEMMA StoredAs ==
    ASSUME NEW c \in Records, Store(c)
    PROVE  /\ conn'.status = c.status /\ conn'.creds = c.creds /\ conn'.about = c.about
           /\ conn'.stamp = c.stamp /\ conn'.err = c.err /\ fresh'
  BY DEF Store, Records

\* What each verdict is: of its copy, and the run's that reached it.
LEMMA VerdictIs ==
    ASSUME TypeOK, NEW r \in Requests
    PROVE  /\ Verdict(r) \in Records /\ Verdict(r).creds = task[r].copy.creds
           /\ Verdict(r).stamp.run = r
           /\ IF task[r].out = "verified"
              THEN /\ Verdict(r).status = "verified" /\ Verdict(r).about = task[r].copy.creds
                   /\ Verdict(r).stamp.verdict = "verified"
              ELSE /\ Verdict(r).status = StatusOnFail(task[r].out, task[r].copy.status)
                   /\ Verdict(r).about = AboutOnFail(task[r].out, task[r].copy)
                   /\ Verdict(r).stamp.verdict = "failed"
<1>1. task[r].copy \in Records
  BY DEF TypeOK
<1>2. CASE task[r].out = "verified"
  BY <1>1, <1>2, VerdictType DEF Verdict, Records
<1>3. CASE task[r].out # "verified"
  BY <1>1, <1>3, VerdictType DEF Verdict, Records
<1> QED BY <1>2, <1>3

\* A failed verdict carries the class it was reached on.
LEMMA VerdictErr ==
    ASSUME TypeOK, NEW r \in Requests, task[r].out # "verified"
    PROVE  Verdict(r).err = task[r].out
<1>1. task[r].copy \in Records
  BY DEF TypeOK
<1> QED BY <1>1 DEF Verdict, Records

LEMMA SubmissionIs ==
    ASSUME TypeOK, NEW r \in Requests
    PROVE  /\ Submission(r) \in Records /\ Submission(r).creds = r /\ Submission(r).stamp = NoStamp
           /\ Submission(r).status = "pending" /\ Submission(r).ver = req[r].seen
  BY SubmissionType, ConstantRecords DEF Submission, NoRecord, Records

LEMMA LadderIs ==
    ASSUME TypeOK, NEW l \in Runs, NEW c \in {Refreshed(l), Stopped(l)}
    PROVE  c \in Records /\ c.creds = run[l].copy.creds /\ c.stamp = run[l].copy.stamp
<1>1. run[l].copy \in Records /\ run[l].creds \in Creds \cup {NoCreds}
  BY DEF TypeOK
<1>2. CASE c = Refreshed(l)
  BY <1>1, <1>2 DEF Refreshed, Records
<1>3. CASE c = Stopped(l)
  BY <1>1, <1>3, StoppedType DEF Stopped, Records
<1> QED BY <1>2, <1>3

-----------------------------------------------------------------------------
(* LastConnectRun's stamp.                                                     *)

\* The stamp on a record, and on every copy of one, names a run that is over
\* and that checked the credentials beside it.
StampIsSound(c) ==
    c.stamp.run # NoCreds =>
        /\ task[c.stamp.run].pc \in {"ok", "error"}
        /\ task[c.stamp.run].copy.creds = c.creds
        /\ c.stamp.verdict = "verified" => c.creds \in proven

StampInv ==
    /\ StampIsSound(conn)
    /\ \A r \in Requests : StampIsSound(task[r].copy)
    /\ \A l \in Runs : StampIsSound(run[l].copy)

\* A run that is over keeps its copy, so a stamp that was sound stays sound.
LEMMA StampStays ==
    ASSUME TypeOK, Settles, NEW c \in Records, StampIsSound(c)
    PROVE  c.stamp.run # NoCreds =>
              /\ task'[c.stamp.run].pc \in {"ok", "error"}
              /\ task'[c.stamp.run].copy.creds = c.creds
              /\ c.stamp.verdict = "verified" => c.creds \in proven'
<1>1. c.stamp.run \in Requests \cup {NoCreds}
  BY DEF Records
<1> QED BY <1>1 DEF Settles, StampIsSound, Ended

LEMMA StampStored ==
    ASSUME TypeOK, TypeOK', CopiesAreProven, StampInv, Settles, StoresWhatItMay
    PROVE  StampIsSound(conn)'
<1> USE DEF StampInv
<1>1. CASE conn' = conn
  <2>1. conn \in Records
    BY DEF TypeOK
  <2> QED BY <1>1, <2>1, StampStays DEF StampIsSound
<1>2. CASE conn' = NoRecord
  BY <1>2 DEF StampIsSound, NoRecord, NoStamp
<1>3. ASSUME NEW r \in Requests, Store(Submission(r)) PROVE StampIsSound(conn)'
  <2>1. conn'.stamp.run = NoCreds
    BY <1>3, SubmissionIs, StoredAs DEF NoStamp
  <2> QED BY <2>1 DEF StampIsSound
<1>4. ASSUME NEW r \in Requests, TaskRecord(r), Store(Verdict(r)) PROVE StampIsSound(conn)'
  <2>1. /\ conn'.stamp.run = r /\ conn'.creds = task[r].copy.creds
        /\ conn'.stamp.verdict = "verified" => task[r].out = "verified"
    BY <1>4, VerdictIs, StoredAs
  <2>2. task[r].out = "verified" => task[r].copy.creds \in proven
    BY <1>4 DEF TaskRecord, CopiesAreProven
  <2>3. PICK pc \in {"ok", "error"} : task' = [task EXCEPT ![r].pc = pc]
    BY <1>4 DEF TaskRecord, ExitCode
  <2>4. task'[r].pc \in {"ok", "error"} /\ task'[r].copy = task[r].copy
    BY <2>3 DEF TypeOK
  <2>5. proven \subseteq proven'
    BY DEF Settles
  <2> QED BY <2>1, <2>2, <2>4, <2>5 DEF StampIsSound
<1>5. ASSUME NEW l \in Runs, NEW c \in {Refreshed(l), Stopped(l)}, Store(c)
      PROVE  StampIsSound(conn)'
  <2>1. conn'.stamp = run[l].copy.stamp /\ conn'.creds = run[l].copy.creds
    BY <1>5, LadderIs, StoredAs
  <2>2. run[l].copy \in Records /\ StampIsSound(run[l].copy)
    BY DEF TypeOK
  <2> QED BY <2>1, <2>2, StampStays DEF StampIsSound
<1> QED BY <1>1, <1>2, <1>3, <1>4, <1>5 DEF StoresWhatItMay

LEMMA NextStamp ==
    ASSUME TypeOK, TypeOK', LaunchedOnce, CopiesAreProven, StampInv, [Next]_vars
    PROVE  StampInv'
<1>1. Settles /\ StoresWhatItMay
  BY NextSettles, NextStores
<1>2. StampIsSound(conn)'
  BY <1>1, StampStored
<1>3. ASSUME NEW r \in Requests PROVE StampIsSound(task[r].copy)'
  <2>1. PICK c \in Records : c = task'[r].copy /\ StampIsSound(c)
    BY <1>1 DEF Settles, StampInv, TypeOK
  <2> QED BY <1>1, <2>1, StampStays DEF StampIsSound
<1>4. ASSUME NEW l \in Runs PROVE StampIsSound(run[l].copy)'
  <2>1. PICK c \in Records : c = run'[l].copy /\ StampIsSound(c)
    BY <1>1 DEF Settles, StampInv, TypeOK
  <2> QED BY <1>1, <2>1, StampStays DEF StampIsSound
<1> QED BY <1>2, <1>3, <1>4 DEF StampInv

\* What every record is at the start: unstamped, and about itself.
LEMMA FirstRecords ==
    ASSUME Init
    PROVE  /\ conn.stamp = NoStamp /\ conn.about = conn.creds
           /\ \/ conn.status = "none" /\ conn.creds = NoCreds
              \/ conn.status = "verified"
           /\ \A r \in Requests : task[r].copy = NoRecord /\ task[r].pc = "none"
           /\ \A l \in Runs : run[l].copy = NoRecord
           /\ \A r \in Requests : req[r].pc = "read"
           /\ told = {} /\ unheard = {}
<1>1. /\ LegacyRecord.stamp = NoStamp /\ LegacyRecord.about = LegacyRecord.creds
      /\ LegacyRecord.status = "verified"
  BY ConstantRecords DEF LegacyRecord, NoRecord, Records
<1> QED BY <1>1 DEF Init, NoRecord

LEMMA InitStamp == Init => LaunchedOnce /\ StampInv
<1> SUFFICES ASSUME Init PROVE LaunchedOnce /\ StampInv
  OBVIOUS
<1>1. NoStamp.run = NoCreds /\ NoRecord.stamp = NoStamp
  BY DEF NoStamp, NoRecord
<1>2. StampInv
  BY <1>1, FirstRecords DEF StampInv, StampIsSound
<1> QED BY <1>2, FirstRecords DEF LaunchedOnce

\* LastConnectRun is the verdict of a run on the very credentials beside it,
\* and says verified only if they were proven, whatever submissions, ladders
\* and deletions it raced with (connectRun.record, sessionLadder.stop).
THEOREM StampsJudgeTheirCreds == Spec => []StampJudgesStoredCreds
<1>1. StampInv => StampJudgesStoredCreds
  BY DEF StampInv, StampIsSound, StampJudgesStoredCreds
<1>2. Init => IInv /\ LaunchedOnce /\ StampInv
  BY InitType, InitProven, InitWitnessed, InitStamp DEF IInv
<1>3. IInv /\ LaunchedOnce /\ StampInv /\ [Next]_vars => (IInv /\ LaunchedOnce /\ StampInv)'
  BY NextType, NextProven, NextWitnessed, NextLaunched, NextStamp DEF IInv
<1> QED BY <1>1, <1>2, <1>3, PTL DEF Spec

-----------------------------------------------------------------------------
(* A status is about the credentials beside it, while no ladder writes it.     *)

AboutItself(c) == c.status \in {"verified", "needs_reconnect"} => c.about = c.creds
AboutInv == AboutItself(conn) /\ \A r \in Requests : AboutItself(task[r].copy)

LEMMA VerdictAboutItself ==
    ASSUME TypeOK, NEW r \in Requests, AboutItself(task[r].copy)
    PROVE  AboutItself(Verdict(r))
<1>1. CASE task[r].out = "verified"
  BY <1>1, VerdictIs DEF AboutItself
<1>2. CASE task[r].out # "verified"
  BY <1>2, VerdictIs DEF AboutItself, StatusOnFail, AboutOnFail
<1> QED BY <1>1, <1>2

LEMMA NextAbout ==
    ASSUME Runs = {}, TypeOK, TypeOK', LaunchedOnce, AboutInv, [Next]_vars
    PROVE  AboutInv'
<1>1. Settles /\ StoresWhatItMay
  BY NextSettles, NextStores
<1>2. CASE conn' \in {conn, NoRecord}
  BY <1>1, <1>2 DEF AboutInv, AboutItself, Settles, NoRecord
<1>3. ASSUME NEW r \in Requests, Store(Submission(r)) PROVE AboutItself(conn)'
  <2>1. conn'.status = "pending"
    BY <1>3, SubmissionIs, StoredAs
  <2> QED BY <2>1 DEF AboutItself
<1>4. ASSUME NEW r \in Requests, Store(Verdict(r)) PROVE AboutItself(conn)'
  <2>1. AboutItself(Verdict(r))
    BY VerdictAboutItself DEF AboutInv
  <2> QED BY <1>4, <2>1, VerdictIs, StoredAs DEF AboutItself
<1> QED BY <1>1, <1>2, <1>3, <1>4 DEF StoresWhatItMay, AboutInv, AboutItself, Settles

\* Verified and needs_reconnect are said of the credentials on the record,
\* for any submissions, crashes and deletions, while no scheduled run writes
\* it: the ladder judges credentials it read before the copy it writes
\* (connectRun.record against sessionLadder.stop).
THEOREM VerdictsAreAboutTheirCreds ==
    ASSUME Runs = {}
    PROVE  Spec => []VerdictIsAboutStoredCreds
<1>1. Init => LaunchedOnce /\ AboutInv
  BY FirstRecords, InitStamp DEF AboutInv, AboutItself, NoRecord
<1>2. TypeOK /\ TypeOK' /\ LaunchedOnce /\ AboutInv /\ [Next]_vars => LaunchedOnce' /\ AboutInv'
  BY NextLaunched, NextAbout
<1>3. AboutInv => VerdictIsAboutStoredCreds
  BY DEF AboutInv, AboutItself, VerdictIsAboutStoredCreds
<1> QED BY <1>1, <1>2, <1>3, TypeCorrect, PTL DEF Spec

-----------------------------------------------------------------------------
(* Who was told of a failure, while no ladder writes the record.               *)

WasTold(c) == \E r \in Addressed : r \in Requests /\ task[r].copy.creds = c.creds

\* A record that asks for another attempt is no record at all, or one a task
\* judged and told the tenant of.
ToldIfFailed(c) ==
    c.status \notin {"pending", "verified"} =>
      \/ c.stamp.verdict = "failed" /\ c.err # "none" /\ WasTold(c)
      \/ c.stamp = NoStamp /\ c.creds = NoCreds

\* A task tells before it records, and the operator's route is taken only by a
\* login with credentials.
TellsFirst(r) ==
    /\ task[r].pc \in {"tell", "record"} => task[r].out # "none"
    /\ r \in Addressed => task[r].pc \in {"record"} \cup Ended
    /\ task[r].pc \in {"tell", "record"} /\ task[r].out # "verified"
         /\ routeFor(task[r].out) = "operator" => task[r].copy.creds # NoCreds
    /\ task[r].pc = "record" /\ task[r].out # "verified"
         /\ routeFor(task[r].out) # "operator" => r \in Addressed

ToldInv ==
    /\ ToldIfFailed(conn)
    /\ \A r \in Requests : ToldIfFailed(task[r].copy) /\ TellsFirst(r)

\* The tasks that told somebody keep their copies.
LEMMA TellersSettle ==
    ASSUME TypeOK, LaunchedOnce, ToldInv, [Next]_vars, NEW r \in Requests, r \in Addressed
    PROVE  r \in Addressed' /\ task'[r].copy = task[r].copy
<1>1. Settles /\ task[r].pc \in {"record"} \cup Ended
  BY NextSettles DEF ToldInv, TellsFirst
<1>2. ASSUME NEW s \in Requests, ReadForSubmit(s) \/ RequestStep(s)
      PROVE  task'[r].copy = task[r].copy
  <2>1. CASE task' = task
    BY <2>1
  <2>2. CASE task' = [task EXCEPT ![s].pc = "read"]
    BY <2>2 DEF TypeOK
  <2> QED BY <1>2, <2>1, <2>2, RequestStepIs
<1>3. ASSUME NEW s \in Requests, TaskStep(s) \/ TaskCrash(s)
      PROVE  task'[r].copy = task[r].copy
  <2>1. CASE s # r
    BY <1>3, <2>1, TaskStepIs
  <2>2. CASE s = r
    <3>1. TaskRecord(r) \/ TaskCrash(r)
      BY <1>1, <1>3, <2>2 DEF TaskStep, TaskRead, TaskReadBack, TaskCheck, TaskTell, Ended
    <3>2. PICK pc : task' = [task EXCEPT ![r].pc = pc]
      BY <3>1 DEF TaskRecord, TaskCrash
    <3> QED BY <3>2 DEF TypeOK
  <2> QED BY <2>1, <2>2
<1>4. ASSUME NEW l \in Runs, RunAuthorize(l) \/ RunStep(l) \/ RunCrash(l)
      PROVE  task'[r].copy = task[r].copy
  BY <1>4, RunStepIs
<1>5. CASE DeleteTenant \/ Elapse \/ UNCHANGED vars
  BY <1>5 DEF DeleteTenant, Elapse, vars, Addressed
<1> QED BY <1>1, <1>2, <1>3, <1>4, <1>5 DEF Next, Settles

LEMMA ToldStays ==
    ASSUME TypeOK, LaunchedOnce, ToldInv, [Next]_vars, NEW c \in Records, ToldIfFailed(c)
    PROVE  ToldIfFailed(c)'
  BY TellersSettle DEF ToldIfFailed, WasTold

LEMMA ToldStored ==
    ASSUME Runs = {}, TypeOK, TypeOK', LaunchedOnce, ToldInv, [Next]_vars
    PROVE  ToldIfFailed(conn)'
<1>1. StoresWhatItMay /\ conn \in Records /\ ToldIfFailed(conn)
  BY NextStores DEF ToldInv, TypeOK
<1>2. CASE conn' = conn
  <2>1. PICK c \in Records : c = conn
    BY <1>1
  <2>2. ToldIfFailed(c)'
    BY <1>1, <2>1, ToldStays
  <2> QED BY <1>2, <2>1, <2>2
<1>3. CASE conn' = NoRecord
  BY <1>3 DEF ToldIfFailed, NoRecord
<1>4. ASSUME NEW r \in Requests, Store(Submission(r)) PROVE ToldIfFailed(conn)'
  <2>1. conn'.status = "pending"
    BY <1>4, SubmissionIs, StoredAs
  <2> QED BY <2>1 DEF ToldIfFailed
<1>5. ASSUME NEW r \in Requests, TaskRecord(r), Store(Verdict(r)) PROVE ToldIfFailed(conn)'
  <2>1. conn'.status = Verdict(r).status /\ conn'.creds = task[r].copy.creds
        /\ conn'.stamp = Verdict(r).stamp
    BY <1>5, VerdictIs, StoredAs
  <2>6. task[r].out # "verified" => conn'.err = task[r].out
    BY <1>5, VerdictIs, VerdictErr, StoredAs
  <2>2. task[r].pc = "record" /\ TellsFirst(r) /\ ToldIfFailed(task[r].copy)
    BY <1>5 DEF TaskRecord, ToldInv
  <2>3. CASE task[r].out = "verified"
    BY <2>1, <2>3, VerdictIs DEF ToldIfFailed
  <2>4. CASE task[r].out # "verified" /\ routeFor(task[r].out) = "operator"
    <3>1. /\ conn'.status = task[r].copy.status /\ conn'.stamp.verdict = "failed"
          /\ conn'.err # "none"
          /\ task[r].copy.creds # NoCreds
      BY <2>1, <2>2, <2>4, <2>6, VerdictIs DEF StatusOnFail, TellsFirst
    <3>2. conn'.status \notin {"pending", "verified"} => WasTold(task[r].copy)
      BY <2>2, <3>1 DEF ToldIfFailed
    <3>3. WasTold(task[r].copy) => \E s \in Addressed' : s \in Requests /\ task'[s].copy.creds = conn'.creds
      BY <2>1, TellersSettle DEF WasTold
    <3> QED BY <3>1, <3>2, <3>3 DEF ToldIfFailed, WasTold
  <2>5. CASE task[r].out # "verified" /\ routeFor(task[r].out) # "operator"
    <3>1. conn'.stamp.verdict = "failed" /\ conn'.err # "none" /\ r \in Addressed
      BY <2>1, <2>2, <2>5, <2>6, VerdictIs DEF TellsFirst
    <3>2. r \in Addressed' /\ task'[r].copy.creds = conn'.creds
      BY <2>1, <3>1, TellersSettle
    <3> QED BY <3>1, <3>2 DEF ToldIfFailed, WasTold
  <2> QED BY <2>3, <2>4, <2>5
<1> QED BY <1>1, <1>2, <1>3, <1>4, <1>5 DEF StoresWhatItMay

\* What each step of a task says of it.
LEMMA TellsFirstNext ==
    ASSUME TypeOK, CopiesAreProven, ToldInv, NEW r \in Requests, TaskStep(r) \/ TaskCrash(r)
    PROVE  TellsFirst(r)' /\ \A s \in Requests \ {r} : s \in Addressed' => s \in Addressed
<1> USE DEF Ended
<1>1. CASE TaskRead(r)
  <2>1. r \notin Addressed /\ task'[r].pc \in {"check", "error", "readback"} /\ Addressed' = Addressed
    BY <1>1 DEF TaskRead, TypeOK, ToldInv, TellsFirst, Addressed
  <2> QED BY <2>1 DEF TellsFirst
<1>2. CASE TaskReadBack(r)
  <2>1. CASE task' = [task EXCEPT ![r] = [pc |-> "tell", copy |-> conn, out |-> "check_failed"]]
             /\ Addressed' = Addressed
    <3>1. task'[r].pc = "tell" /\ task'[r].out = "check_failed" /\ r \notin Addressed
      BY <1>2, <2>1 DEF TaskReadBack, TypeOK, ToldInv, TellsFirst
    <3> QED BY <2>1, <3>1 DEF TellsFirst, routeFor
  <2>2. CASE task' = [task EXCEPT ![r].pc = "error"] /\ Addressed' = Addressed \cup {r}
    <3>1. task'[r].pc = "error"
      BY <2>2 DEF TypeOK
    <3> QED BY <2>2, <3>1 DEF TellsFirst
  <2> QED BY <1>2, <2>1, <2>2, TellIs DEF TaskReadBack
<1>3. CASE TaskCheck(r)
  <2>1. /\ task[r].pc = "check" /\ r \notin Addressed /\ Addressed' = Addressed
        /\ task[r].copy.creds # NoCreds /\ task'[r].copy = task[r].copy
    BY <1>3 DEF TaskCheck, TypeOK, ToldInv, TellsFirst, CopiesAreProven, Addressed
  <2>2. \/ task'[r].pc = "record" /\ task'[r].out = "verified"
        \/ task'[r].pc = "tell" /\ task'[r].out # "none"
        \/ task'[r].pc = "error"
    BY <1>3 DEF TaskCheck, TypeOK, Classes, LoginFaults
  <2> QED BY <2>1, <2>2 DEF TellsFirst
<1>4. CASE TaskTell(r)
  <2>1. /\ task[r].pc = "tell" /\ task'[r].pc = "record" /\ task'[r].out = task[r].out
        /\ task'[r].copy = task[r].copy
    BY <1>4 DEF TaskTell, TypeOK
  <2>2. IF routeFor(task[r].out) = "operator" THEN Addressed' = Addressed ELSE Addressed' = Addressed \cup {r}
    BY <1>4, TellIs DEF TaskTell
  <2>3. TellsFirst(r)
    BY DEF ToldInv
  <2> QED BY <2>1, <2>2, <2>3 DEF TellsFirst
<1>5. CASE TaskRecord(r) \/ TaskCrash(r)
  <2>1. PICK pc \in {"ok", "error", "crashed"} : task' = [task EXCEPT ![r].pc = pc]
    BY <1>5 DEF TaskRecord, TaskCrash, ExitCode
  <2>2. task'[r].pc = pc /\ Addressed' = Addressed
    BY <1>5, <2>1 DEF TaskRecord, TaskCrash, TypeOK, Addressed
  <2> QED BY <2>2 DEF TellsFirst
<1> QED BY <1>1, <1>2, <1>3, <1>4, <1>5 DEF TaskStep

LEMMA NextTold ==
    ASSUME Runs = {}, IInv, TypeOK', LaunchedOnce, ToldInv, [Next]_vars
    PROVE  ToldInv'
<1> USE DEF IInv
<1>1. Settles /\ ToldIfFailed(conn)'
  BY NextSettles, ToldStored
<1>2. ASSUME NEW r \in Requests PROVE ToldIfFailed(task[r].copy)'
  <2>1. PICK c \in Records : c = task'[r].copy /\ ToldIfFailed(c)
    BY <1>1 DEF Settles, ToldInv, TypeOK
  <2>2. ToldIfFailed(c)'
    BY <2>1, ToldStays
  <2> QED BY <2>1, <2>2
<1>3. ASSUME NEW r \in Requests PROVE TellsFirst(r)'
  <2>1. TellsFirst(r)
    BY DEF ToldInv
  <2>2. ASSUME NEW s \in Requests, ReadForSubmit(s) \/ RequestStep(s) PROVE TellsFirst(r)'
    <3>1. CASE task' = task
      BY <2>1, <2>2, <3>1, RequestStepIs DEF TellsFirst, Addressed
    <3>2. CASE Launch(s) /\ task' = [task EXCEPT ![s].pc = "read"]
      <4>1. task[s].pc = "none" /\ task'[s].pc = "read" /\ (r # s => task'[r] = task[r])
        BY <3>2 DEF Launch, LaunchedOnce, TypeOK
      <4>2. Addressed' = Addressed
        BY <2>2, RequestStepIs DEF Addressed
      <4> QED BY <2>1, <4>1, <4>2 DEF TellsFirst, Ended
    <3> QED BY <2>2, <3>1, <3>2, RequestStepIs
  <2>3. ASSUME NEW s \in Requests, TaskStep(s) \/ TaskCrash(s) PROVE TellsFirst(r)'
    <3>1. CASE r = s
      BY <2>3, <3>1, TellsFirstNext
    <3>2. CASE r # s
      <4>1. task'[r] = task[r] /\ (r \in Addressed' <=> r \in Addressed)
        BY <2>3, <3>2, TaskStepIs, TellsFirstNext
      <4> QED BY <2>1, <4>1 DEF TellsFirst
    <3> QED BY <3>1, <3>2
  <2>4. CASE DeleteTenant \/ Elapse \/ UNCHANGED vars
    BY <2>1, <2>4 DEF DeleteTenant, Elapse, vars, TellsFirst, Addressed
  <2> QED BY <2>2, <2>3, <2>4 DEF Next
<1> QED BY <1>1, <1>2, <1>3 DEF ToldInv

\* A failure on the record carries its class, and was told to the tenant by a
\* task that had these credentials in hand, whatever crashed or lost its race,
\* unless the feed itself could not be written, while no scheduled run writes
\* the record (recordConnectFailure).
THEOREM FailuresAreTold ==
    ASSUME Runs = {}
    PROVE  Spec => []FailureVerdictIsTold
<1>1. Init => IInv /\ LaunchedOnce /\ ToldInv
  <2> SUFFICES ASSUME Init PROVE IInv /\ LaunchedOnce /\ ToldInv
    OBVIOUS
  <2>1. ToldInv
    BY FirstRecords DEF ToldInv, ToldIfFailed, TellsFirst, NoRecord, Addressed
  <2> QED BY <2>1, InitType, InitProven, InitWitnessed, InitStamp DEF IInv
<1>2. IInv /\ LaunchedOnce /\ ToldInv /\ [Next]_vars => (IInv /\ LaunchedOnce /\ ToldInv)'
  BY NextType, NextProven, NextWitnessed, NextLaunched, NextTold DEF IInv
<1>3. ToldInv => FailureVerdictIsTold
  <2> SUFFICES ASSUME ToldInv, conn.stamp.verdict = "failed",
                      conn.status \notin {"pending", "verified"}
               PROVE  conn.err # "none" /\ WasTold(conn)
    BY DEF FailureVerdictIsTold, WasTold, Addressed
  <2> QED BY DEF ToldInv, ToldIfFailed, NoStamp
<1> QED BY <1>1, <1>2, <1>3, PTL DEF Spec

-----------------------------------------------------------------------------
(* One verification at a time: the record is in flight for as long as a        *)
(* submission is verified, and a guard that saw it otherwise saw an older one. *)

SoleInv ==
    deletes = 0 /\ ~slow =>
      /\ \A r \in Requests : Verifying(r) => conn.creds = r /\ conn.status = "pending" /\ fresh
      /\ \A r \in Requests : req[r].pc = "put" =>
            /\ req[r].seen <= conn.ver
            /\ req[r].seen = conn.ver => \A s \in Requests : ~Verifying(s)

\* A step of one request that leaves the record alone: who is being verified
\* was before, and a guard passed just now saw nobody.
LEMMA SoleRequest ==
    ASSUME TypeOK, LaunchedOnce, SoleInv, NEW r \in Requests,
           ReadForSubmit(r) \/ RequestStep(r), conn' = conn, fresh' = fresh
    PROVE  SoleInv'
<1> SUFFICES ASSUME deletes' = 0, ~slow' PROVE SoleInv'
  BY DEF SoleInv
<1>1. deletes = 0 /\ ~slow
  BY DEF ReadForSubmit, RequestStep, PutSubmission, Launch
<1>2. ASSUME NEW s \in Requests, Verifying(s)' PROVE Verifying(s)
  <2>1. CASE s # r
    <3>1. req'[s] = req[s]
      BY <2>1, RequestStepIs
    <3>2. task'[s] = task[s]
      <4>1. CASE task' = [task EXCEPT ![r].pc = "read"]
        BY <2>1, <4>1 DEF TypeOK
      <4> QED BY <4>1, RequestStepIs
    <3> QED BY <1>2, <3>1, <3>2 DEF Verifying, LiveTask
  <2>2. CASE s = r
    <3>1. CASE ReadForSubmit(r) \/ PutSubmission(r)
      <4>1. req'[r].pc # "launch" \/ (PutSubmission(r) /\ VersionHolds(Submission(r)) /\ Store(Submission(r)))
        <5>1. CASE ReadForSubmit(r)
          BY <5>1 DEF ReadForSubmit, TypeOK
        <5>2. CASE PutSubmission(r)
          <6>1. CASE req' = [req EXCEPT ![r].pc = "read", ![r].n = req[r].n + 1]
            BY <6>1 DEF TypeOK
          <6>2. CASE req' = [req EXCEPT ![r].pc = "refused"]
            BY <6>2 DEF TypeOK
          <6> QED BY <5>2, <6>1, <6>2 DEF PutSubmission
        <5> QED BY <3>1, <5>1, <5>2
      <4>2. task' = task
        BY <3>1 DEF ReadForSubmit, PutSubmission
      <4>3. ~(VersionHolds(Submission(r)) /\ Store(Submission(r)))
        <5> SUFFICES ASSUME VersionHolds(Submission(r)), Store(Submission(r)) PROVE FALSE
          OBVIOUS
        <5>1. Submission(r) \in Records
          BY SubmissionIs
        <5>2. conn'.ver > conn.ver /\ conn.ver \in Int
          BY <5>1, StoreAdvances DEF TypeOK, Records, Versions, Absent
        <5> QED BY <5>2
      <4> QED BY <1>2, <2>2, <4>1, <4>2, <4>3 DEF Verifying, LiveTask
    <3>2. CASE Launch(r)
      BY <2>2, <3>2 DEF Launch, Verifying
    <3> QED BY <3>1, <3>2 DEF RequestStep
  <2> QED BY <2>1, <2>2
<1>3. ASSUME NEW s \in Requests, req'[s].pc = "put"
      PROVE  /\ req'[s].seen <= conn.ver
             /\ req'[s].seen = conn.ver => \A q \in Requests : ~Verifying(q)
  <2>1. CASE req'[s] = req[s]
    BY <1>1, <1>3, <2>1 DEF SoleInv
  <2>2. CASE s = r /\ ReadForSubmit(r) /\ ~InFlightRefusal /\ req'[r].seen = conn.ver
    <3>1. \A q \in Requests : ~Verifying(q)
      BY <1>1, <2>2 DEF SoleInv, InFlightRefusal
    <3>2. conn.ver \in Int
      BY DEF TypeOK, Records, Versions, Absent
    <3> QED BY <2>2, <3>1, <3>2
  <2>3. s = r /\ req'[r] # req[r] => ReadForSubmit(r) /\ ~InFlightRefusal /\ req'[r].seen = conn.ver
    <3> SUFFICES ASSUME s = r
                 PROVE  ReadForSubmit(r) /\ ~InFlightRefusal /\ req'[r].seen = conn.ver
      OBVIOUS
    <3>1. CASE ReadForSubmit(r)
      BY <1>3, <3>1 DEF ReadForSubmit, TypeOK
    <3>2. CASE PutSubmission(r)
      <4>1. CASE req' = [req EXCEPT ![r].pc = "read", ![r].n = req[r].n + 1]
        BY <1>3, <4>1 DEF TypeOK
      <4>2. CASE \E pc \in {"launch", "refused"} : req' = [req EXCEPT ![r].pc = pc]
        BY <1>3, <4>2 DEF TypeOK
      <4> QED BY <3>2, <4>1, <4>2 DEF PutSubmission
    <3>3. CASE Launch(r)
      BY <1>3, <3>3 DEF Launch, TypeOK
    <3> QED BY <3>1, <3>2, <3>3 DEF RequestStep
  <2> QED BY <2>1, <2>2, <2>3, RequestStepIs
<1> QED BY <1>1, <1>2, <1>3 DEF SoleInv

\* The submission that is stored: nobody was being verified, and every guard
\* passed before it saw an older version.
LEMMA SoleSubmission ==
    ASSUME TypeOK, LaunchedOnce, SoleInv, NEW r \in Requests,
           PutSubmission(r), VersionHolds(Submission(r)), Store(Submission(r))
    PROVE  SoleInv'
<1> SUFFICES ASSUME deletes' = 0, ~slow' PROVE SoleInv'
  BY DEF SoleInv
<1>1. /\ deletes = 0 /\ ~slow /\ req[r].pc = "put" /\ UNCHANGED task
  BY DEF PutSubmission
<1>2. req[r].seen = conn.ver /\ conn'.ver > conn.ver
  BY SubmissionIs, StoreAdvances DEF VersionHolds
<1>3. conn.ver \in Int /\ conn'.ver \in Int
  BY <1>2, SubmissionIs, StoreType DEF TypeOK, Records, Versions, Absent
<1>4. \A s \in Requests : ~Verifying(s)
  BY <1>1, <1>2 DEF SoleInv
<1>5. conn'.creds = r /\ conn'.status = "pending" /\ fresh'
  BY SubmissionIs, StoredAs
<1>6. \A s \in Requests \ {r} : req'[s] = req[s]
  BY RequestStepIs DEF RequestStep
<1>7. req'[r].pc # "put"
  <2>1. CASE req' = [req EXCEPT ![r].pc = "read", ![r].n = req[r].n + 1]
    BY <2>1 DEF TypeOK
  <2>2. CASE \E pc \in {"launch", "refused"} : req' = [req EXCEPT ![r].pc = pc]
    BY <2>2 DEF TypeOK
  <2> QED BY <2>1, <2>2 DEF PutSubmission
<1>8. ASSUME NEW s \in Requests, Verifying(s)' PROVE s = r
  BY <1>1, <1>4, <1>6, <1>8 DEF Verifying, LiveTask
<1>9. ASSUME NEW s \in Requests, req'[s].pc = "put" PROVE req'[s].seen < conn'.ver
  <2>1. s # r /\ req'[s] = req[s] /\ req[s].seen <= conn.ver
    BY <1>1, <1>6, <1>7, <1>9 DEF SoleInv
  <2>2. req[s].seen \in Int
    BY DEF TypeOK, Versions, Absent
  <2> QED BY <1>2, <1>3, <2>1, <2>2
<1>10. \A s \in Requests : req'[s].pc = "put" => req'[s].seen <= conn'.ver /\ req'[s].seen # conn'.ver
  <2> SUFFICES ASSUME NEW s \in Requests, req'[s].pc = "put"
               PROVE  req'[s].seen <= conn'.ver /\ req'[s].seen # conn'.ver
    OBVIOUS
  <2>1. s # r /\ req'[s].seen \in Int
    BY <1>6, <1>7 DEF TypeOK, Versions, Absent
  <2> QED BY <1>3, <1>9, <2>1
<1> QED BY <1>5, <1>8, <1>10 DEF SoleInv

\* A task's step: what it was verifying it verifies on, or has verified.
LEMMA SoleTask ==
    ASSUME TypeOK, LaunchedOnce, SoleInv, NEW r \in Requests, TaskStep(r) \/ TaskCrash(r)
    PROVE  SoleInv'
<1> SUFFICES ASSUME deletes' = 0, ~slow' PROVE SoleInv'
  BY DEF SoleInv
<1>1. deletes = 0 /\ ~slow /\ Verifying(r) /\ req' = req
  <2>1. deletes' = deletes /\ slow' = slow
    BY DEF TaskStep, TaskRead, TaskReadBack, TaskCheck, TaskTell, TaskRecord, TaskCrash
  <2> QED BY <2>1, TaskStepIs DEF Verifying
<1>2. ASSUME NEW s \in Requests, Verifying(s)' PROVE Verifying(s)
  <2>1. CASE s = r
    BY <1>1, <2>1
  <2>2. CASE s # r
    <3>1. task'[s] = task[s]
      BY <2>2, TaskStepIs
    <3> QED BY <1>1, <1>2, <3>1 DEF Verifying, LiveTask
  <2> QED BY <2>1, <2>2
<1>3. \A s \in Requests : Verifying(s) => s = r
  BY <1>1 DEF SoleInv
<1>4. CASE conn' = conn /\ fresh' = fresh
  BY <1>1, <1>2, <1>4 DEF SoleInv
<1>5. CASE TaskRecord(r) /\ VersionHolds(task[r].copy) /\ Store(Verdict(r))
  <2>1. conn'.ver > conn.ver
    <3>1. Verdict(r) \in Records
      BY VerdictType
    <3>2. Verdict(r).ver = task[r].copy.ver
      <4>1. task[r].copy \in Records
        BY DEF TypeOK
      <4>2. CASE task[r].out = "verified"
        BY <4>1, <4>2 DEF Verdict, Records
      <4>3. CASE task[r].out # "verified"
        BY <4>1, <4>3 DEF Verdict, Records
      <4> QED BY <4>2, <4>3
    <3> QED BY <1>5, <3>1, <3>2, StoreAdvances DEF VersionHolds
  <2>2. conn.ver \in Int /\ conn'.ver \in Int
    BY <1>5, VerdictType, StoreType DEF TypeOK, Records, Versions, Absent
  <2>3. \A s \in Requests : req[s].seen \in Int
    BY DEF TypeOK, Versions, Absent
  <2>4. ~Verifying(r)'
    <3>1. PICK pc \in {"ok", "error"} : task' = [task EXCEPT ![r].pc = pc]
      BY <1>5 DEF TaskRecord, ExitCode
    <3>2. task'[r].pc = pc
      BY <3>1 DEF TypeOK
    <3>3. req[r].pc = "accepted"
      BY <1>5 DEF TaskRecord, LaunchedOnce
    <3> QED BY <1>1, <3>2, <3>3 DEF Verifying, LiveTask
  <2>5. \A s \in Requests : req[s].pc = "put" => req[s].seen <= conn'.ver
    BY <1>1, <2>1, <2>2, <2>3 DEF SoleInv
  <2> QED BY <1>1, <1>2, <1>3, <2>4, <2>5 DEF SoleInv
<1>6. \/ conn' = conn /\ fresh' = fresh
      \/ TaskRecord(r) /\ VersionHolds(task[r].copy) /\ Store(Verdict(r))
  BY DEF TaskStep, TaskRead, TaskReadBack, TaskCheck, TaskTell, TaskRecord, TaskCrash, NotStored
<1> QED BY <1>4, <1>5, <1>6

LEMMA NextSole ==
    ASSUME Runs = {}, TypeOK, LaunchedOnce, SoleInv, [Next]_vars
    PROVE  SoleInv'
<1>1. ASSUME NEW r \in Requests, ReadForSubmit(r) \/ RequestStep(r) PROVE SoleInv'
  <2>1. CASE conn' = conn /\ fresh' = fresh
    BY <1>1, <2>1, SoleRequest
  <2>2. CASE PutSubmission(r) /\ VersionHolds(Submission(r)) /\ Store(Submission(r))
    BY <2>2, SoleSubmission
  <2>3. \/ conn' = conn /\ fresh' = fresh
        \/ PutSubmission(r) /\ VersionHolds(Submission(r)) /\ Store(Submission(r))
    BY <1>1 DEF ReadForSubmit, RequestStep, PutSubmission, Launch, NotStored
  <2> QED BY <2>1, <2>2, <2>3
<1>2. ASSUME NEW r \in Requests, TaskStep(r) \/ TaskCrash(r) PROVE SoleInv'
  BY <1>2, SoleTask
<1>3. CASE DeleteTenant
  <2>1. deletes' # 0
    BY <1>3 DEF DeleteTenant, TypeOK
  <2> QED BY <2>1 DEF SoleInv
<1>4. CASE Elapse
  BY <1>4 DEF Elapse, SoleInv, Verifying, LiveTask
<1>5. CASE UNCHANGED vars
  BY <1>5 DEF vars, SoleInv, Verifying, LiveTask
<1> QED BY <1>1, <1>2, <1>3, <1>4, <1>5 DEF Next

\* connectInFlightRefusal's promise: two submissions never drive two logins at
\* once, however many there are and however their reads and writes interleave
\* with the task of the first, while verifications fit the window, the tenant
\* is not deleted and no scheduled run writes the record.
THEOREM VerificationsAreAlone ==
    ASSUME Runs = {}
    PROVE  Spec => []OneVerificationAtATime
<1>1. Init => LaunchedOnce /\ SoleInv
  BY FirstRecords, InitStamp DEF SoleInv, Verifying, LiveTask
<1>2. TypeOK /\ LaunchedOnce /\ SoleInv /\ [Next]_vars => LaunchedOnce' /\ SoleInv'
  BY NextLaunched, NextSole
<1>3. SoleInv => OneVerificationAtATime
  <2> SUFFICES ASSUME SoleInv, deletes = 0, ~slow
               PROVE  Cardinality({r \in Requests : Verifying(r)}) <= 1
    BY DEF OneVerificationAtATime
  <2> DEFINE V == {r \in Requests : Verifying(r)}
  <2>1. V \subseteq {conn.creds}
    BY DEF SoleInv
  <2> HIDE DEF V
  <2>2. IsFiniteSet({conn.creds}) /\ Cardinality({conn.creds}) = 1
    BY FS_Singleton
  <2>3. IsFiniteSet(V) /\ Cardinality(V) <= 1
    BY <2>1, <2>2, FS_Subset
  <2> QED BY <2>3 DEF V
<1> QED BY <1>1, <1>2, <1>3, TypeCorrect, PTL DEF Spec
=============================================================================
