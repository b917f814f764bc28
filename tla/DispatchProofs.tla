--------------------------- MODULE DispatchProofs ----------------------------
(***************************************************************************)
(* Proofs about Dispatch: however many tenants there are and however often    *)
(* Lambda runs an event again, a dispatch accounts for everybody; and about   *)
(* the Heartbeat that watches its roster: an outage is told once.             *)
(***************************************************************************)
EXTENDS MCFleet, TLAPS

-----------------------------------------------------------------------------
(* The inductive invariant.                                                   *)

\* Who counts as entitled has been active and usable all along.
EntitledServe == disp.entitled \subseteq active \cap usable

\* Nobody entitled falls out between the steps of an invocation.
Carried ==
    /\ disp.pc = "gate" => disp.entitled \subseteq disp.todo \cup disp.launchable
    /\ disp.pc \in {"publish", "launch", "done"} => disp.entitled \subseteq disp.launchable
    /\ disp.pc \in {"launch", "done"} =>
          \A t \in disp.launchable :
              t \in disp.todo \/ disp.tasks[t] > 0 \/ t \in disp.failed
    /\ disp.pc = "done" => disp.todo = {}
    /\ disp.pc \in {"launch", "done"} /\ disp.published => disp.launchable \subseteq listed

\* An invocation launches a tenant once at most, and what one attempt launched
\* the next can only repeat after a timeout.
Once ==
    /\ \A t \in Members : disp.tasks[t] <= disp.attempt + 1
    /\ disp.pc \in {"list", "gate", "publish"} => \A t \in Members : disp.tasks[t] <= disp.attempt
    /\ disp.pc = "launch" => \A t \in disp.todo : disp.tasks[t] <= disp.attempt
    /\ ~disp.late =>
          /\ \A t \in Members : disp.tasks[t] <= 1
          /\ disp.pc \in {"list", "gate", "publish"} => \A t \in Members : disp.tasks[t] = 0
          /\ disp.pc = "launch" => \A t \in disp.todo : disp.tasks[t] = 0

DispatchInv == DispatchTypeOK /\ EntitledServe /\ Carried /\ Once

LEMMA InvImpliesAccounted == DispatchInv => EveryTenantIsAccounted
<1> SUFFICES ASSUME DispatchInv PROVE EveryTenantIsAccounted
  OBVIOUS
<1>1. NobodyIsForgotten
  BY DEF DispatchInv, NobodyIsForgotten, Carried
<1>2. TwiceOnlyAfterTimeout
  <2>1. \A t \in Members : disp.tasks[t] \in Nat
    BY DispatchAssumption DEF DispatchInv, DispatchTypeOK, Dispatches
  <2>2. disp.late \in BOOLEAN
    BY DEF DispatchInv, DispatchTypeOK, Dispatches
  <2> QED BY <2>1, <2>2 DEF DispatchInv, TwiceOnlyAfterTimeout, Once
<1> QED BY <1>1, <1>2 DEF EveryTenantIsAccounted

\* The fields of the event, and that a record of such fields is one.
LEMMA Fields ==
    ASSUME NEW d \in Dispatches
    PROVE  /\ d.pc \in {"idle", "list", "gate", "publish", "launch", "done", "dropped"}
           /\ d.attempt \in 0..MaxRetries /\ d.todo \subseteq Members
           /\ d.launchable \subseteq Members /\ d.failed \subseteq Members
           /\ d.entitled \subseteq Members /\ d.tasks \in [Members -> 0..(MaxRetries + 1)]
           /\ d.late \in BOOLEAN /\ d.published \in BOOLEAN
  BY DEF Dispatches

LEMMA NoEventType == NoEvent \in Dispatches
  BY DispatchAssumption DEF NoEvent, Dispatches

LEMMA DispatchStarts == DispatchInit => DispatchInv
<1> SUFFICES ASSUME DispatchInit PROVE DispatchInv
  OBVIOUS
<1>1. DispatchTypeOK
  BY NoEventType DEF DispatchInit, DispatchTypeOK
<1>2. /\ disp.pc = "idle" /\ disp.entitled = {} /\ disp.attempt = 0
      /\ disp.tasks = [t \in Members |-> 0]
  BY DEF DispatchInit, NoEvent
<1>3. EntitledServe /\ Carried
  BY <1>2 DEF EntitledServe, Carried
<1>4. Once
  BY <1>2 DEF Once
<1> QED BY <1>1, <1>3, <1>4 DEF DispatchInv

-----------------------------------------------------------------------------
(* An error or a timeout.                                                     *)

\* The event after it, whose launches so far are kept.
Restarted(d, e) ==
    /\ e.tasks = d.tasks /\ e.entitled = d.entitled
    /\ \/ e.pc = "dropped" /\ e.attempt = d.attempt
       \/ e.pc = "list" /\ e.attempt = d.attempt + 1

LEMMA FailedType ==
    ASSUME NEW d \in Dispatches
    PROVE  Failed(d) \in Dispatches /\ Restarted(d, Failed(d)) /\ Failed(d).late = d.late
<1>1. CASE d.attempt = MaxRetries
  BY <1>1, Fields DEF Failed, Dispatches, Restarted
<1>2. CASE d.attempt # MaxRetries
  <2>1. d.attempt + 1 \in 0..MaxRetries
    BY <1>2, Fields, DispatchAssumption
  <2> QED BY <1>2, <2>1 DEF Failed, Dispatches, Restarted
<1> QED BY <1>1, <1>2

LEMMA LateType ==
    ASSUME NEW d \in Dispatches
    PROVE  /\ [d EXCEPT !.late = TRUE] \in Dispatches
           /\ [d EXCEPT !.late = TRUE].late
           /\ [d EXCEPT !.late = TRUE].pc = d.pc /\ [d EXCEPT !.late = TRUE].tasks = d.tasks
           /\ [d EXCEPT !.late = TRUE].entitled = d.entitled
           /\ [d EXCEPT !.late = TRUE].attempt = d.attempt
  BY DEF Dispatches

LEMMA RestartKeepsInv ==
    ASSUME DispatchInv, disp' \in Dispatches, Restarted(disp, disp'),
           disp'.late \/ (disp.pc = "list" /\ ~disp.late),
           UNCHANGED <<active, usable, listed>>
    PROVE  DispatchInv'
<1>1. DispatchTypeOK'
  BY DEF DispatchInv, DispatchTypeOK
<1>2. EntitledServe' /\ Carried'
  BY DEF DispatchInv, EntitledServe, Carried, Restarted
<1>3. /\ disp.attempt \in Nat /\ \A t \in Members : disp.tasks[t] \in Nat
      /\ disp'.late \in BOOLEAN
  <2>1. disp \in Dispatches
    BY DEF DispatchInv, DispatchTypeOK
  <2> QED BY <2>1, Fields, DispatchAssumption
<1>4. \A t \in Members : disp'.tasks[t] = disp.tasks[t] /\ disp.tasks[t] <= disp.attempt + 1
  BY DEF DispatchInv, Once, Restarted
<1>5. CASE disp'.pc = "dropped"
  <2>1. ~disp'.late => \A t \in Members : disp'.tasks[t] <= 1
    BY <1>3, <1>4 DEF DispatchInv, Once
  <2> QED BY <1>1, <1>2, <1>3, <1>4, <1>5, <2>1 DEF DispatchInv, Once, Restarted
<1>6. CASE disp'.pc = "list"
  <2>1. disp'.attempt = disp.attempt + 1
    BY <1>6 DEF Restarted
  <2>2. ~disp'.late => \A t \in Members : disp'.tasks[t] = 0
    BY <1>3, <1>4 DEF DispatchInv, Once
  <2> QED BY <1>1, <1>2, <1>3, <1>4, <1>6, <2>1, <2>2 DEF DispatchInv, Once
<1> QED BY <1>5, <1>6 DEF Restarted

-----------------------------------------------------------------------------
(* The actions, one lemma each.                                               *)

\* What the type says of the numbers of the event.
LEMMA Counts ==
    ASSUME DispatchInv
    PROVE  /\ disp \in Dispatches /\ disp.attempt \in Nat
           /\ \A t \in Members : disp.tasks[t] \in Nat
           /\ MaxRetries \in Nat
<1>1. disp \in Dispatches
  BY DEF DispatchInv, DispatchTypeOK
<1> QED BY <1>1, Fields, DispatchAssumption

LEMMA FireKeepsInv == ASSUME DispatchInv, Fire PROVE DispatchInv'
<1>1. NoEvent.pc = "idle" /\ NoEvent.attempt = 0 /\ NoEvent.tasks = [t \in Members |-> 0]
  BY DEF NoEvent
<1>2. /\ disp'.pc = "list" /\ disp'.entitled = active \cap usable
      /\ disp'.attempt = 0 /\ disp'.tasks = [t \in Members |-> 0]
  BY <1>1 DEF Fire, NoEvent
<1>3. DispatchTypeOK'
  BY NoEventType DEF DispatchInv, DispatchTypeOK, Fire, Dispatches
<1>4. EntitledServe' /\ Carried'
  BY <1>2 DEF EntitledServe, Carried, Fire
<1>5. Once'
  BY <1>2 DEF Once
<1> QED BY <1>3, <1>4, <1>5 DEF DispatchInv

LEMMA ListKeepsInv == ASSUME DispatchInv, NEW ok \in BOOLEAN, List(ok) PROVE DispatchInv'
<1>1. CASE ~ok
  <2>1. disp \in Dispatches
    BY Counts
  <2>2. disp' = Failed(disp)
    BY <1>1 DEF List
  <2>3. disp' \in Dispatches /\ Restarted(disp, disp') /\ disp'.late = disp.late
    BY <2>1, <2>2, FailedType
  <2>4. disp'.late \/ (disp.pc = "list" /\ ~disp.late)
    BY <2>3 DEF List
  <2> QED BY <2>3, <2>4, RestartKeepsInv DEF List
<1>2. CASE ok
  <2>0. disp \in Dispatches
    BY Counts
  <2>1. disp' = [disp EXCEPT !.pc = IF active = {} THEN "publish" ELSE "gate", !.todo = active]
    BY <1>2 DEF List
  <2>2. /\ disp.pc = "list" /\ disp'.todo = active /\ disp'.entitled = disp.entitled
        /\ disp'.pc = (IF active = {} THEN "publish" ELSE "gate")
        /\ disp'.tasks = disp.tasks /\ disp'.attempt = disp.attempt /\ disp'.late = disp.late
    BY <2>0, <2>1 DEF List, Dispatches
  <2>3. DispatchTypeOK'
    BY <2>0, <2>1 DEF DispatchInv, DispatchTypeOK, List, Dispatches
  <2>4. EntitledServe' /\ Carried'
    BY <2>2 DEF DispatchInv, EntitledServe, Carried, List
  <2>5. Once'
    BY <2>2 DEF DispatchInv, Once
  <2> QED BY <2>3, <2>4, <2>5 DEF DispatchInv
<1> QED BY <1>1, <1>2

LEMMA GateKeepsInv ==
    ASSUME DispatchInv, NEW t \in Members, NEW ok \in BOOLEAN, Gate(t, ok) PROVE DispatchInv'
<1>0. disp \in Dispatches
  BY Counts
<1>1. /\ disp.pc = "gate" /\ disp'.todo = disp.todo \ {t} /\ disp'.entitled = disp.entitled
      /\ disp'.pc = (IF disp.todo = {t} THEN "publish" ELSE "gate")
      /\ disp'.launchable = (IF Admits(t, ok) THEN disp.launchable \cup {t} ELSE disp.launchable)
      /\ disp'.tasks = disp.tasks /\ disp'.attempt = disp.attempt /\ disp'.late = disp.late
  BY <1>0 DEF Gate, Dispatches
<1>2. DispatchTypeOK'
  BY <1>0 DEF DispatchInv, DispatchTypeOK, Gate, Dispatches
<1>3. t \in disp.entitled => Admits(t, ok)
  BY DEF DispatchInv, EntitledServe, Admits
<1>4. EntitledServe' /\ Carried'
  BY <1>1, <1>3 DEF DispatchInv, EntitledServe, Carried, Gate
<1>5. Once'
  BY <1>1 DEF DispatchInv, Once
<1> QED BY <1>2, <1>4, <1>5 DEF DispatchInv

LEMMA PublishKeepsInv == ASSUME DispatchInv, NEW ok \in BOOLEAN, Publish(ok) PROVE DispatchInv'
<1>0. disp \in Dispatches
  BY Counts
<1>1. /\ disp.pc = "publish" /\ disp'.todo = disp.launchable /\ disp'.entitled = disp.entitled
      /\ disp'.pc = (IF disp.launchable = {} THEN "done" ELSE "launch")
      /\ disp'.launchable = disp.launchable /\ disp'.failed = disp.failed
      /\ disp'.published = ok
      /\ disp'.tasks = disp.tasks /\ disp'.attempt = disp.attempt /\ disp'.late = disp.late
  BY <1>0 DEF Publish, Dispatches
<1>2. DispatchTypeOK'
  BY <1>0 DEF DispatchInv, DispatchTypeOK, Publish, Dispatches
<1>3. EntitledServe' /\ Carried'
  BY <1>1 DEF DispatchInv, EntitledServe, Carried, Publish
<1>4. disp'.todo \subseteq Members
  BY <1>0, <1>1, Fields
<1>5. Once'
  BY <1>1, <1>4, Counts DEF DispatchInv, Once
<1> QED BY <1>2, <1>3, <1>5 DEF DispatchInv

LEMMA LaunchKeepsInv ==
    ASSUME DispatchInv, NEW t \in Members, NEW ok \in BOOLEAN, LaunchFor(t, ok)
    PROVE  DispatchInv'
<1>0. disp \in Dispatches /\ disp.tasks \in [Members -> 0..(MaxRetries + 1)]
  BY Counts, Fields
<1>1. /\ disp.pc = "launch" /\ t \in disp.todo
      /\ disp'.todo = disp.todo \ {t} /\ disp'.entitled = disp.entitled
      /\ disp'.pc = (IF disp.todo = {t} THEN "done" ELSE "launch")
      /\ disp'.launchable = disp.launchable /\ disp'.published = disp.published
      /\ disp'.attempt = disp.attempt /\ disp'.late = disp.late
      /\ disp'.failed = (IF ok THEN disp.failed ELSE disp.failed \cup {t})
      /\ disp'.tasks = (IF ok THEN [disp.tasks EXCEPT ![t] = @ + 1] ELSE disp.tasks)
  BY <1>0 DEF LaunchFor, After, Dispatches
<1>2. /\ disp'.tasks[t] = (IF ok THEN disp.tasks[t] + 1 ELSE disp.tasks[t])
      /\ \A u \in Members \ {t} : disp'.tasks[u] = disp.tasks[u]
  BY <1>0, <1>1
<1>3. disp.tasks[t] \in Nat /\ disp.tasks[t] <= disp.attempt /\ disp.attempt \in 0..MaxRetries
  BY <1>0, <1>1, Counts, Fields DEF DispatchInv, Once
<1>4. DispatchTypeOK'
  <2>1. disp'.tasks \in [Members -> 0..(MaxRetries + 1)]
    <3>1. disp.tasks[t] + 1 \in 0..(MaxRetries + 1)
      BY <1>3, DispatchAssumption
    <3> QED BY <1>0, <1>1, <3>1
  <2>2. disp' = [disp EXCEPT !.todo = @ \ {t}, !.pc = IF disp.todo = {t} THEN "done" ELSE @,
                             !.tasks = disp'.tasks, !.failed = disp'.failed]
    BY <1>0, <1>1 DEF LaunchFor, After, Dispatches
  <2>3. /\ disp.todo \ {t} \subseteq Members
        /\ disp'.failed \subseteq Members
        /\ (IF disp.todo = {t} THEN "done" ELSE disp.pc) \in {"launch", "done"}
    BY <1>0, <1>1, Fields
  <2>4. disp' \in Dispatches
    BY <1>0, <2>1, <2>2, <2>3 DEF Dispatches
  <2> QED BY <2>4 DEF DispatchInv, DispatchTypeOK, LaunchFor
<1>5. EntitledServe' /\ Carried'
  <2>1. EntitledServe'
    BY <1>1 DEF DispatchInv, EntitledServe, LaunchFor
  <2>2. disp.launchable \subseteq Members
    BY <1>0, Fields
  <2>3. \A u \in disp.launchable : u \in disp'.todo \/ disp'.tasks[u] > 0 \/ u \in disp'.failed
    <3> SUFFICES ASSUME NEW u \in disp.launchable
                 PROVE  u \in disp'.todo \/ disp'.tasks[u] > 0 \/ u \in disp'.failed
      OBVIOUS
    <3>1. u \in disp.todo \/ disp.tasks[u] > 0 \/ u \in disp.failed
      BY <1>1 DEF DispatchInv, Carried
    <3>2. CASE u = t
      BY <1>1, <1>2, <1>3, <3>2
    <3>3. CASE u # t
      BY <1>1, <1>2, <2>2, <3>1, <3>3
    <3> QED BY <3>2, <3>3
  <2>4. Carried'
    BY <1>1, <2>3 DEF DispatchInv, Carried, LaunchFor
  <2> QED BY <2>1, <2>4
<1>6. Once'
  <2>1. \A u \in Members : disp'.tasks[u] <= disp'.attempt + 1
    BY <1>1, <1>2, <1>3, Counts DEF DispatchInv, Once
  <2>2. \A u \in disp'.todo : u \in Members \ {t} /\ disp'.tasks[u] = disp.tasks[u]
    BY <1>0, <1>1, <1>2, Fields
  <2>3. ~disp.late => disp.tasks[t] = 0 /\ \A u \in Members : disp.tasks[u] <= 1
    BY <1>1 DEF DispatchInv, Once
  <2>4. ~disp'.late => \A u \in Members : disp'.tasks[u] <= 1
    BY <1>1, <1>2, <2>3
  <2> QED BY <1>1, <2>1, <2>2, <2>4 DEF DispatchInv, Once
<1> QED BY <1>4, <1>5, <1>6 DEF DispatchInv

LEMMA TimeOutKeepsInv == ASSUME DispatchInv, TimeOut PROVE DispatchInv'
<1>1. disp \in Dispatches
  BY Counts
<1>2. Failed(disp) \in Dispatches /\ Restarted(disp, Failed(disp))
  BY <1>1, FailedType
<1>3. disp' = [Failed(disp) EXCEPT !.late = TRUE]
  BY DEF TimeOut
<1>4. disp' \in Dispatches /\ Restarted(disp, disp') /\ disp'.late
  <2>1. /\ disp' \in Dispatches /\ disp'.late
        /\ disp'.pc = Failed(disp).pc /\ disp'.tasks = Failed(disp).tasks
        /\ disp'.entitled = Failed(disp).entitled /\ disp'.attempt = Failed(disp).attempt
    BY <1>2, <1>3, LateType
  <2> QED BY <1>2, <2>1 DEF Restarted
<1> QED BY <1>4, RestartKeepsInv DEF TimeOut

LEMMA MemberKeepsInv ==
    ASSUME DispatchInv, NEW t \in Members, MemberChanges(t) PROVE DispatchInv'
<1>0. disp \in Dispatches
  BY Counts
<1>1. /\ disp'.entitled = disp.entitled \ {t} /\ disp'.todo = disp.todo
      /\ disp'.pc = disp.pc /\ disp'.launchable = disp.launchable
      /\ disp'.published = disp.published /\ disp'.failed = disp.failed
      /\ disp'.attempt = disp.attempt /\ disp'.late = disp.late /\ disp'.tasks = disp.tasks
  BY <1>0 DEF MemberChanges, Dispatches
<1>2. DispatchTypeOK'
  <2>1. disp' \in Dispatches
    BY <1>0 DEF MemberChanges, Dispatches
  <2>2. active' \subseteq Members /\ usable' \subseteq Members
    BY DEF DispatchInv, DispatchTypeOK, MemberChanges, Flip
  <2> QED BY <2>1, <2>2 DEF DispatchInv, DispatchTypeOK, MemberChanges
<1>3. EntitledServe'
  BY <1>1 DEF DispatchInv, EntitledServe, MemberChanges, Flip
<1>4. Carried'
  BY <1>1 DEF DispatchInv, Carried, MemberChanges
<1>5. Once'
  BY <1>1 DEF DispatchInv, Once
<1> QED BY <1>2, <1>3, <1>4, <1>5 DEF DispatchInv

-----------------------------------------------------------------------------
(* The theorems.                                                              *)

LEMMA DispatchStep == DispatchInv /\ [DispatchNext]_dispatchVars => DispatchInv'
<1> SUFFICES ASSUME DispatchInv, [DispatchNext]_dispatchVars PROVE DispatchInv'
  OBVIOUS
<1>1. CASE Fire
  BY <1>1, FireKeepsInv
<1>2. CASE TimeOut
  BY <1>2, TimeOutKeepsInv
<1>3. CASE \E ok \in BOOLEAN : List(ok)
  BY <1>3, ListKeepsInv
<1>4. CASE \E ok \in BOOLEAN : Publish(ok)
  BY <1>4, PublishKeepsInv
<1>5. CASE \E t \in Members, ok \in BOOLEAN : Gate(t, ok)
  BY <1>5, GateKeepsInv
<1>6. CASE \E t \in Members, ok \in BOOLEAN : LaunchFor(t, ok)
  BY <1>6, LaunchKeepsInv
<1>7. CASE \E t \in Members : MemberChanges(t)
  BY <1>7, MemberKeepsInv
<1>8. CASE UNCHANGED dispatchVars
  BY <1>8 DEF dispatchVars, DispatchInv, DispatchTypeOK, EntitledServe, Carried, Once
<1> QED BY <1>1, <1>2, <1>3, <1>4, <1>5, <1>6, <1>7, <1>8 DEF DispatchNext

\* Type correctness of the dispatcher, which needs the invariant: no event
\* launches more tasks for a tenant than it has invocations.
THEOREM DispatchTypeCorrect == DispatchSpec => []DispatchTypeOK
<1>1. DispatchInit => DispatchInv
  BY DispatchStarts
<1>2. DispatchInv /\ [DispatchNext]_dispatchVars => DispatchInv'
  BY DispatchStep
<1>3. DispatchInv => DispatchTypeOK
  BY DEF DispatchInv
<1> QED BY <1>1, <1>2, <1>3, PTL DEF DispatchSpec

\* dispatcher.dispatch, however Lambda retries it and however many tenants and
\* retries there are: a tenant active and usable throughout has a task or a
\* failed launch the heartbeat will see, and two tasks only after a timeout.
THEOREM NobodyIsLeftOut == DispatchSpec => []EveryTenantIsAccounted
<1>1. DispatchInit => DispatchInv
  BY DispatchStarts
<1>2. DispatchInv /\ [DispatchNext]_dispatchVars => DispatchInv'
  BY DispatchStep
<1>3. DispatchInv => EveryTenantIsAccounted
  BY InvImpliesAccounted
<1> QED BY <1>1, <1>2, <1>3, PTL DEF DispatchSpec
-----------------------------------------------------------------------------
(* Heartbeat.  Once an outage was told and nothing failed, the marker says so   *)
(* for as long as the outage lasts: it names the newest run or, for one that   *)
(* has left the ledger, any other.  A token judged before a run concerns an    *)
(* outage that is over.                                                       *)

\* What a heartbeat judged still holds of the ledger, or a run came in between.
JudgedFits(u) ==
    /\ u \in overtaken => told[u] = 0
    /\ beat[u] \in Tokens /\ u \notin overtaken => InLedger(u)

MarkerSaysSo(u) ==
    told[u] > 0 /\ u \notin shaky => marker[u] = "this" \/ (marker[u] = "older" /\ ~InLedger(u))

BeatInv ==
    /\ HeartbeatTypeOK
    /\ \A u \in Ids : JudgedFits(u) /\ MarkerSaysSo(u)
    /\ OneAlertPerOutage

LEMMA BeatNumbers ==
    /\ Horizon \in Nat /\ MaxLate \in Nat /\ Gone \in Nat /\ Gone = Horizon + 1
  BY HeartbeatAssumption DEF Gone

LEMMA InitBeat == HeartbeatInit => BeatInv
<1> SUFFICES ASSUME HeartbeatInit PROVE BeatInv
  OBVIOUS
<1>1. HeartbeatTypeOK
  BY BeatNumbers DEF HeartbeatInit, HeartbeatTypeOK, Tokens
<1>2. \A u \in Ids : beat[u] = "no" /\ told[u] = 0 /\ u \notin overtaken
  BY DEF HeartbeatInit
<1> QED BY <1>1, <1>2 DEF BeatInv, JudgedFits, MarkerSaysSo, OneAlertPerOutage, Tokens

LEMMA BeatKeeps ==
    ASSUME BeatInv, NEW list, NEW read \in Reads, NEW readable \in BOOLEAN, Beat(list, read, readable)
    PROVE  BeatInv'
<1>1. /\ UNCHANGED <<perTenant, age, marker, roster, told, shaky>>
      /\ overtaken' = {} /\ sound' \in BOOLEAN
      /\ beat' = [u \in Ids |-> IF u \in OverdueBy(list, read) THEN read[u] ELSE "no"]
  BY DEF Beat
<1>2. late' \in 0..MaxLate
  <2>1. late \in 0..MaxLate /\ 0 \in 0..MaxLate
    BY BeatNumbers DEF BeatInv, HeartbeatTypeOK
  <2> QED BY <2>1 DEF Beat
<1>3. \A u \in Ids : u \in OverdueBy(list, read) =>
          /\ read[u] \in Tokens \cup {"none"}
          /\ read[u] # "none" => InLedger(u)
  BY DEF OverdueBy, Reads
<1>4. beat' \in [Ids -> Tokens \cup {"no", "none"}]
  BY <1>1, <1>3
<1>5. HeartbeatTypeOK'
  BY <1>1, <1>2, <1>4 DEF BeatInv, HeartbeatTypeOK
<1>6. ASSUME NEW u \in Ids PROVE (JudgedFits(u) /\ MarkerSaysSo(u))'
  <2>1. beat'[u] \in Tokens => InLedger(u)
    BY <1>1, <1>3 DEF Tokens
  <2> QED BY <1>1, <2>1 DEF BeatInv, JudgedFits, MarkerSaysSo, InLedger, Tokens
<1> QED BY <1>1, <1>5, <1>6 DEF BeatInv, OneAlertPerOutage

LEMMA TellKeeps ==
    ASSUME BeatInv, NEW u \in Ids, NEW r \in BOOLEAN, NEW w \in BOOLEAN,
           NEW s \in {"ok", "lost", "failed", "none"}, Tell(u, r, s, w)
    PROVE  BeatInv'
<1> DEFINE prev == IF r THEN marker[u] ELSE "never"
           due == NeedsAlert(beat[u], prev)
           open == beat[u] = "older" /\ prev = "older"
           pushed == s \in {"ok", "lost"}
<1>0. told[u] \in 0..2
  BY DEF BeatInv, HeartbeatTypeOK
<1>1. /\ HeartbeatTypeOK
      /\ beat[u] \in Tokens \cup {"none"} /\ marker[u] \in Tokens \cup {"never"}
      /\ told[u] \in 0..2 /\ (open \/ (s = "none" <=> ~due))
  BY DEF Tell, BeatInv, HeartbeatTypeOK
<1>2. /\ marker' = IF s = "ok" /\ w THEN [marker EXCEPT ![u] = Recorded(beat[u])] ELSE marker
      /\ told' = IF pushed /\ u \notin overtaken /\ told[u] < 2
                 THEN [told EXCEPT ![u] = @ + 1] ELSE told
      /\ shaky' = IF r /\ w /\ s # "lost" /\ ~(pushed /\ Misjudged(u)) THEN shaky ELSE shaky \cup {u}
      /\ beat' = [beat EXCEPT ![u] = "no"] /\ sound' = (sound /\ s \in {"ok", "none"})
      /\ overtaken' = overtaken \ {u}
      /\ UNCHANGED <<perTenant, age, roster>>
  BY DEF Tell
<1>3. late' \in 0..MaxLate
  <2>1. late \in 0..MaxLate /\ 0 \in 0..MaxLate
    BY BeatNumbers DEF BeatInv, HeartbeatTypeOK
  <2> QED BY <2>1 DEF Tell
<1>4. HeartbeatTypeOK'
  <2>1. Recorded(beat[u]) \in Tokens
    BY <1>1 DEF Recorded, Tokens
  <2>2. marker' \in [Ids -> Tokens \cup {"never"}]
    BY <1>1, <1>2, <2>1 DEF HeartbeatTypeOK
  <2>3. told' \in [Ids -> 0..2]
    <3>1. told[u] < 2 => told[u] + 1 \in 0..2
      BY <1>0
    <3> QED BY <1>1, <1>2, <3>1 DEF HeartbeatTypeOK
  <2>4. /\ shaky' \subseteq Ids /\ beat' \in [Ids -> Tokens \cup {"no", "none"}]
        /\ sound' \in BOOLEAN /\ overtaken' \subseteq Ids
    BY <1>1, <1>2 DEF HeartbeatTypeOK
  <2> QED BY <1>1, <1>2, <1>3, <2>2, <2>3, <2>4 DEF HeartbeatTypeOK
\* An outage that was told, with nothing failed, is not told again.
<1>5. told[u] > 0 /\ u \notin shaky' => s \in {"none", "failed"}
  <2> SUFFICES ASSUME told[u] > 0, u \notin shaky', pushed PROVE FALSE
    OBVIOUS
  <2>1. r /\ u \notin shaky /\ ~Misjudged(u)
    BY <1>2
  <2>2. /\ JudgedFits(u)
        /\ marker[u] = "this" \/ (marker[u] = "older" /\ ~InLedger(u))
    BY <2>1 DEF BeatInv, MarkerSaysSo
  <2>3. u \notin overtaken /\ (beat[u] \in Tokens => InLedger(u))
    BY <2>2, <1>0 DEF JudgedFits
  <2>4. (beat[u] = "this" /\ InLedger(u)) \/ beat[u] = "none"
    BY <1>1, <2>1, <2>3 DEF Misjudged, Tokens
  <2>5. NeedsAlert(beat[u], marker[u])
    BY <1>1, <2>1, <2>4
  <2> QED BY <2>2, <2>4, <2>5 DEF NeedsAlert
<1>6. ASSUME NEW v \in Ids PROVE (JudgedFits(v) /\ MarkerSaysSo(v))' /\ (told'[v] > 1 => v \in shaky')
  <2>1. CASE v # u
    <3>1. /\ marker'[v] = marker[v] /\ told'[v] = told[v] /\ beat'[v] = beat[v]
          /\ v \in shaky' <=> v \in shaky
          /\ v \in overtaken' <=> v \in overtaken
      BY <1>1, <1>2, <2>1 DEF HeartbeatTypeOK
    <3> QED BY <1>2, <3>1 DEF BeatInv, JudgedFits, MarkerSaysSo, InLedger, OneAlertPerOutage
  <2>2. CASE v = u
    <3>1. beat'[u] \notin Tokens /\ u \notin overtaken'
      BY <1>1, <1>2 DEF HeartbeatTypeOK, Tokens
    <3>2. CASE told[u] > 0
      <4>1. u \notin shaky' => marker' = marker /\ told' = told /\ u \notin shaky
        BY <1>2, <1>5, <3>2
      <4>2. MarkerSaysSo(u)'
        BY <1>2, <4>1 DEF BeatInv, MarkerSaysSo, InLedger
      <4>3. told'[u] > 1 => u \in shaky'
        BY <4>1 DEF BeatInv, OneAlertPerOutage
      <4> QED BY <2>2, <3>1, <4>2, <4>3 DEF JudgedFits
    <3>3. CASE told[u] = 0
      <4>1. told'[u] \in {0, 1}
        BY <1>1, <1>2, <3>3 DEF HeartbeatTypeOK
      <4>2. CASE told'[u] = 1 /\ u \notin shaky'
        <5>1. s = "ok" /\ w /\ u \notin overtaken /\ ~Misjudged(u)
          BY <1>2, <3>3, <4>2
        <5>2. marker'[u] = Recorded(beat[u])
          BY <1>1, <1>2, <5>1 DEF HeartbeatTypeOK
        <5>3. beat[u] = "this" \/ (beat[u] = "none" /\ ~InLedger(u))
          BY <1>1, <5>1 DEF Misjudged, BeatInv, JudgedFits
        <5>4. InLedger(u)' = InLedger(u)
          BY <1>2 DEF InLedger
        <5> QED BY <2>2, <3>1, <4>2, <5>2, <5>3, <5>4 DEF JudgedFits, MarkerSaysSo, Recorded
      <4>3. CASE told'[u] = 0 \/ u \in shaky'
        BY <2>2, <3>1, <4>1, <4>3 DEF JudgedFits, MarkerSaysSo
      <4> QED BY <4>1, <4>2, <4>3
    <3> QED BY <1>0, <3>2, <3>3
  <2> QED BY <2>1, <2>2
<1> QED BY <1>4, <1>6 DEF BeatInv, OneAlertPerOutage

LEMMA RunKeeps ==
    ASSUME BeatInv, NEW u \in Ids, Run(u)
    PROVE  BeatInv'
<1>1. /\ HeartbeatTypeOK
      /\ age' = [age EXCEPT ![u] = 0] /\ marker' = [marker EXCEPT ![u] = Outdated(@)]
      /\ beat' = [beat EXCEPT ![u] = Outdated(@)]
      /\ overtaken' = IF beat[u] = "no" THEN overtaken ELSE overtaken \cup {u}
      /\ told' = [told EXCEPT ![u] = 0] /\ shaky' = shaky \ {u}
      /\ UNCHANGED <<perTenant, roster, sound, late>>
  BY DEF BeatInv, Run
<1>2. /\ marker[u] \in Tokens \cup {"never"} /\ beat[u] \in Tokens \cup {"no", "none"}
  BY <1>1 DEF HeartbeatTypeOK
<1>3. /\ Outdated(marker[u]) \in Tokens \cup {"never"}
      /\ Outdated(beat[u]) \in Tokens \cup {"no", "none"}
      /\ beat[u] = "no" => Outdated(beat[u]) = "no"
  BY <1>2 DEF Outdated, Tokens
<1>4. overtaken' \subseteq Ids
  BY <1>1 DEF HeartbeatTypeOK
<1>5. HeartbeatTypeOK'
  BY <1>1, <1>3, <1>4, BeatNumbers DEF HeartbeatTypeOK
<1>6. ASSUME NEW v \in Ids PROVE (JudgedFits(v) /\ MarkerSaysSo(v))' /\ (told'[v] > 1 => v \in shaky')
  <2>1. CASE v # u
    <3>1. /\ marker'[v] = marker[v] /\ told'[v] = told[v] /\ beat'[v] = beat[v] /\ age'[v] = age[v]
          /\ v \in shaky' <=> v \in shaky
          /\ v \in overtaken' <=> v \in overtaken
      BY <1>1, <2>1 DEF HeartbeatTypeOK
    <3> QED BY <3>1 DEF BeatInv, JudgedFits, MarkerSaysSo, InLedger, OneAlertPerOutage
  <2>2. CASE v = u
    <3>1. told'[u] = 0 /\ beat'[u] = Outdated(beat[u]) /\ age'[u] = 0
      BY <1>1 DEF HeartbeatTypeOK
    <3>2. InLedger(u)'
      BY <3>1, BeatNumbers DEF InLedger
    <3> QED BY <2>2, <3>1, <3>2 DEF JudgedFits, MarkerSaysSo
  <2> QED BY <2>1, <2>2
<1> QED BY <1>5, <1>6 DEF BeatInv, OneAlertPerOutage

LEMMA BeatClockKeeps == BeatInv /\ BeatClock => BeatInv'
<1> SUFFICES ASSUME BeatInv, BeatClock PROVE BeatInv'
  OBVIOUS
<1>1. /\ HeartbeatTypeOK /\ late < MaxLate /\ late' = late + 1
      /\ age' = [u \in Ids |-> IF age[u] = Gone THEN Gone ELSE age[u] + 1]
      /\ UNCHANGED <<perTenant, marker, roster, beat, overtaken, sound, told, shaky>>
  BY DEF BeatInv, BeatClock
<1>2. ASSUME NEW u \in Ids
      PROVE  age'[u] \in 0..Gone /\ beat[u] = "no" /\ (InLedger(u)' => InLedger(u))
  <2>1. age[u] \in 0..Gone
    BY <1>1 DEF HeartbeatTypeOK
  <2>2. age'[u] \in 0..Gone /\ age[u] <= age'[u]
    BY <1>1, <2>1, BeatNumbers
  <2>3. InLedger(u)' => InLedger(u)
    BY <2>1, <2>2, BeatNumbers DEF InLedger
  <2> QED BY <2>2, <2>3 DEF BeatClock, Beating
<1>3. HeartbeatTypeOK'
  <2>1. late' \in 0..MaxLate
    BY <1>1, BeatNumbers DEF HeartbeatTypeOK
  <2> QED BY <1>1, <1>2, <2>1 DEF HeartbeatTypeOK
<1>4. ASSUME NEW u \in Ids PROVE (JudgedFits(u) /\ MarkerSaysSo(u))'
  BY <1>1, <1>2 DEF BeatInv, JudgedFits, MarkerSaysSo, Tokens
<1> QED BY <1>1, <1>3, <1>4 DEF BeatInv, OneAlertPerOutage

LEMMA StepBeat == BeatInv /\ [HeartbeatNext]_beatVars => BeatInv'
<1> SUFFICES ASSUME BeatInv, [HeartbeatNext]_beatVars PROVE BeatInv'
  OBVIOUS
<1>1. CASE UNCHANGED beatVars
  BY <1>1 DEF BeatInv, HeartbeatTypeOK, JudgedFits, MarkerSaysSo, InLedger, OneAlertPerOutage,
              beatVars
<1>2. ASSUME NEW read \in Reads, Beat(roster, read, TRUE) \/ Beat({}, read, FALSE) PROVE BeatInv'
  <2>1. CASE Beat(roster, read, TRUE)
    <3>1. PICK list, rd, ok : list = roster /\ rd = read /\ rd \in Reads /\ ok = TRUE /\ ok \in BOOLEAN
      OBVIOUS
    <3>2. Beat(list, rd, ok)
      BY <2>1, <3>1
    <3> QED BY <3>1, <3>2, BeatKeeps
  <2>2. CASE Beat({}, read, FALSE)
    <3>1. PICK list, rd, ok : list = {} /\ rd = read /\ rd \in Reads /\ ok = FALSE /\ ok \in BOOLEAN
      OBVIOUS
    <3>2. Beat(list, rd, ok)
      BY <2>2, <3>1
    <3> QED BY <3>1, <3>2, BeatKeeps
  <2> QED BY <1>2, <2>1, <2>2
<1>3. CASE Telling
  BY <1>3, TellKeeps DEF Telling
<1>4. CASE \E u \in Ids : Run(u)
  BY <1>4, RunKeeps
<1>5. CASE \E list \in SUBSET Users : PublishRoster(list)
  BY <1>5 DEF BeatInv, HeartbeatTypeOK, JudgedFits, MarkerSaysSo, InLedger, OneAlertPerOutage,
              PublishRoster
<1>6. CASE BeatClock
  BY <1>6, BeatClockKeeps
<1> QED BY <1>1, <1>2, <1>3, <1>4, <1>5, <1>6 DEF HeartbeatNext

(* Every reachable state of the heartbeat is well typed (heartbeat.go).       *)
THEOREM HeartbeatTypeCorrect == HeartbeatSpec => []HeartbeatTypeOK
<1>1. BeatInv => HeartbeatTypeOK
  BY DEF BeatInv
<1> QED BY <1>1, InitBeat, StepBeat, PTL DEF HeartbeatSpec

(* The operator hears of an outage once, however long it lasts and whenever    *)
(* runs, heartbeats and the ledger's reach interleave, for any tenants, gap    *)
(* and horizon, unless a marker failed, an answer was lost or it was told      *)
(* without the record of its newest run (NeedsAlert, fetch).                   *)
THEOREM OutageIsToldOnce == HeartbeatSpec => []OneAlertPerOutage
<1>1. BeatInv => OneAlertPerOutage
  BY DEF BeatInv
<1> QED BY <1>1, InitBeat, StepBeat, PTL DEF HeartbeatSpec

-----------------------------------------------------------------------------
(* The two side by side, as they are checked.                                  *)

(* Whether dispatches or heartbeats run, what both keep is well typed, for any *)
(* tenants and jobs (lambda/dispatch, opsnotify/heartbeat.go).               *)
THEOREM FleetTypeCorrect == FleetSpec => []FleetTypeOK
<1>1. FleetInit => DispatchInit /\ HeartbeatInit
  BY DEF FleetInit
<1>2. [FleetNext]_fleetVars => [DispatchNext]_dispatchVars /\ [HeartbeatNext]_beatVars
  BY DEF FleetNext, fleetVars
<1>3. DispatchTypeOK /\ HeartbeatTypeOK => FleetTypeOK
  BY DEF FleetTypeOK
<1> QED BY <1>1, <1>2, <1>3, DispatchTypeCorrect, HeartbeatTypeCorrect, PTL
        DEF FleetSpec, DispatchSpec, HeartbeatSpec
=============================================================================
