---------------------------- MODULE LineupProofs -----------------------------
(***************************************************************************)
(* Proofs about what a run does to the world outside: it tells the operator   *)
(* (Alerts), and what it does to the real roster and the cached one (Apply);   *)
(* and, on the invariants of JobsProofs and DecisionProofs, about the jobs     *)
(* composed (MCJobs).                                                          *)
(***************************************************************************)
EXTENDS MCJobs, JobsProofs, DecisionProofs

-----------------------------------------------------------------------------
(* Alerts.  While nothing slipped, at most one run is at the key, what it is   *)
(* about to send is news, what it is about to mark was told, and between two   *)
(* runs the marker says what the operator heard last.  The marker of a start   *)
(* or a trade says so whatever slipped.                                       *)

Episodes == AlertDays \X AlertDays

\* The notes of a site.
Belongs(n) ==
    /\ site = "start" => n = Event
    /\ site = "trade" => n \in {Event, Unpriced}
    /\ site = "apply" => n \in Texts \cup {Cleared}
    /\ site = "cache" => n \in Episodes \cup {Cleared}

Idle(r) == push[r] = NotPushing

NoteFits(r) ==
    ~Idle(r) => Belongs(push[r].note) /\ (push[r].pc = "send" => push[r].note # Unpriced)

SendIsNews(r) == ~slipped /\ push[r].pc = "send" => last # push[r].note
MarkWasTold(r) == ~slipped /\ push[r].pc = "mark" => push[r].note \in {last, Unpriced}
OneAtATime == ~slipped => \A r, o \in AlertRuns : r = o \/ Idle(r) \/ Idle(o)

Agrees == marker \in {last, Unpriced} \/ (marker = Absent /\ last = Cleared)
InStep == ~slipped /\ (\A r \in AlertRuns : push[r].pc # "mark") => Agrees

EventWasHeard ==
    site \in {"start", "trade"} =>
        /\ marker = Event => last = Event
        /\ \A r \in AlertRuns : push[r].pc = "mark" /\ push[r].note = Event => last = Event

AlertInv ==
    /\ AlertTypeOK
    /\ marker = Absent \/ Belongs(marker)
    /\ \A r \in AlertRuns : NoteFits(r) /\ SendIsNews(r) /\ MarkWasTold(r)
    /\ OneAtATime /\ InStep /\ EventWasHeard
    /\ AlertsHadCause

\* The notes of different kinds are told apart.
LEMMA NotesDiffer ==
    ASSUME AlertTypeOK, NEW n, Belongs(n)
    PROVE  /\ n \in Notes /\ n # Absent
           /\ n = Unpriced => site = "trade"
           /\ Event # Unpriced /\ Event # Cleared /\ Event # Absent /\ Unpriced # Cleared
           /\ Unpriced # Absent /\ Cleared # Absent
           /\ site \in {"start", "trade"} /\ n # Unpriced => n = Event
<1>1. site \in {"start", "trade", "apply", "cache"}
  BY AlertAssumption DEF AlertTypeOK
<1>2. /\ Event \notin Texts /\ Unpriced \notin Texts /\ Event # Unpriced
      /\ Absent \notin Texts /\ Absent # Event /\ Absent # Unpriced
      /\ Cleared \notin Texts /\ Cleared # Event /\ Cleared # Unpriced
      /\ Absent # Cleared
      /\ Unpriced \notin Episodes /\ Absent \notin Episodes /\ Cleared \notin Episodes
  BY AlertAssumption DEF Episodes, AlertDays
<1> QED BY <1>1, <1>2 DEF Belongs, Notes, Episodes

LEMMA AlertTypes ==
    ASSUME AlertTypeOK
    PROVE  /\ push \in [AlertRuns -> [pc : PushStates, note : Notes] \cup {NotPushing}]
           /\ last \in Notes /\ slipped \in BOOLEAN /\ marker \in Notes \cup {Absent}
           /\ Cleared \in Notes
  BY DEF AlertTypeOK, Notes

LEMMA IdleIsNowhere ==
    ASSUME NEW r \in AlertRuns
    PROVE  /\ Idle(r) => push[r].pc = "idle"
           /\ AlertTypeOK /\ ~Idle(r) => push[r] \in [pc : PushStates, note : Notes]
  BY AlertTypes DEF Idle, NotPushing

\* A run that takes the key up while nothing slips finds nobody at it, and the
\* marker in step with what the operator heard.
LEMMA LookedIsAlone ==
    ASSUME AlertInv, NEW r \in AlertRuns, NEW readable \in BOOLEAN, Idle(r), ~Looked(r, readable)
    PROVE  ~slipped /\ readable /\ Agrees /\ \A o \in AlertRuns : Idle(o)
<1>1. ~slipped /\ readable /\ \A o \in AlertRuns : Idle(o)
  BY DEF Looked, Alone, Idle
<1>2. \A o \in AlertRuns : push[o].pc # "mark"
  BY <1>1, IdleIsNowhere
<1> QED BY <1>1, <1>2 DEF AlertInv, InStep

LEMMA LookedIsBoolean ==
    ASSUME AlertInv, NEW r \in AlertRuns, NEW readable \in BOOLEAN
    PROVE  Looked(r, readable) \in BOOLEAN /\ (slipped => Looked(r, readable))
  BY DEF Looked, AlertInv, AlertTypeOK

LEMMA TaintedIs ==
    ASSUME NEW b \in BOOLEAN
    PROVE  Tainted(b) \in {"clean", "slipped"} /\ (b => Tainted(b) = "slipped")
  BY DEF Tainted

\* Keeping quiet about what the marker says.
LEMMA SkipKeeps ==
    ASSUME AlertInv, NEW r \in AlertRuns, NEW n, NEW readable \in BOOLEAN, Skip(r, n, readable),
           readable, marker = n, n # Absent, site \in {"start", "trade"} => n # Unpriced
    PROVE  AlertInv'
<1>1. /\ Idle(r) /\ slipped' = Looked(r, readable)
      /\ muted' = IF last = n THEN muted ELSE muted \cup {Tainted(slipped')}
      /\ UNCHANGED <<site, marker, push, day, fetchedAt, last, repeated>>
  BY DEF Skip, Idle
<1>2. slipped' \in BOOLEAN /\ (slipped => slipped') /\ slipped \in BOOLEAN
  BY <1>1, LookedIsBoolean DEF AlertInv, AlertTypeOK
<1>3. Belongs(n) /\ AlertTypeOK
  BY DEF AlertInv
<1>4. last = n \/ slipped'
  <2> SUFFICES ASSUME ~slipped' PROVE last = n
    OBVIOUS
  <2>1. Agrees
    BY <1>1, LookedIsAlone
  <2>2. n = Unpriced => site = "trade"
    BY <1>3, NotesDiffer
  <2> QED BY <2>1, <2>2 DEF Agrees
<1>5. site \in {"start", "trade"} => last = n
  BY <1>3, NotesDiffer DEF AlertInv, EventWasHeard
<1>6. AlertsHadCause' /\ muted' \subseteq {"clean", "slipped"}
  <2>1. muted \subseteq {"clean", "slipped"} /\ AlertsHadCause
    BY DEF AlertInv, AlertTypeOK
  <2>2. CASE last = n
    BY <1>1, <2>1, <2>2 DEF AlertsHadCause
  <2>3. CASE last # n
    <3>1. Tainted(slipped') = "slipped" /\ site \notin {"start", "trade"}
      BY <1>2, <1>4, <1>5, <2>3, TaintedIs
    <3> QED BY <1>1, <2>1, <2>3, <3>1 DEF AlertsHadCause
  <2> QED BY <2>2, <2>3
<1>7. AlertTypeOK'
  BY <1>1, <1>2, <1>6 DEF AlertInv, AlertTypeOK
<1>8. (marker = Absent \/ Belongs(marker))'
  BY <1>1 DEF AlertInv, Belongs
<1>9. ASSUME NEW o \in AlertRuns PROVE (NoteFits(o) /\ SendIsNews(o) /\ MarkWasTold(o))'
  BY <1>1, <1>2 DEF AlertInv, NoteFits, SendIsNews, MarkWasTold, Idle, Belongs
<1>10. OneAtATime' /\ InStep' /\ EventWasHeard'
  BY <1>1, <1>2 DEF AlertInv, OneAtATime, InStep, EventWasHeard, Idle, Agrees
<1> QED BY <1>6, <1>7, <1>8, <1>9, <1>10 DEF AlertInv

\* What every step that leaves the histories alone has to show.
LEMMA PushStep ==
    ASSUME AlertInv, site' = site, muted' = muted, repeated' = repeated,
           AlertTypeOK', (marker = Absent \/ Belongs(marker))',
           \A r \in AlertRuns : (NoteFits(r) /\ SendIsNews(r) /\ MarkWasTold(r))',
           OneAtATime', InStep', EventWasHeard'
    PROVE  AlertInv'
  BY DEF AlertInv, AlertsHadCause

\* Going on, to send what is news or to mark what was passed over.
LEMMA GoOnKeeps ==
    ASSUME AlertInv, NEW r \in AlertRuns, NEW pc \in PushStates, NEW n, NEW readable \in BOOLEAN,
           GoOn(r, pc, n, readable), Belongs(n),
           pc = "send" => n # Unpriced,
           pc = "send" /\ readable =>
               marker \notin {n, Unpriced} /\ (marker = Absent => n # Cleared),
           pc = "mark" => n = Unpriced
    PROVE  AlertInv'
<1> DEFINE x == [pc |-> pc, note |-> n]
<1>1. /\ Idle(r) /\ slipped' = Looked(r, readable) /\ push' = [push EXCEPT ![r] = x]
      /\ UNCHANGED <<site, marker, day, fetchedAt, last, muted, repeated>>
  BY DEF GoOn, Goto, Idle
<1>2. slipped' \in BOOLEAN /\ (slipped => slipped') /\ slipped \in BOOLEAN
  BY <1>1, LookedIsBoolean DEF AlertInv, AlertTypeOK
<1>3. /\ AlertTypeOK /\ n \in Notes /\ Event # Unpriced
      /\ push \in [AlertRuns -> [pc : PushStates, note : Notes] \cup {NotPushing}]
  BY AlertTypes, NotesDiffer DEF AlertInv
<1>4. x \in [pc : PushStates, note : Notes] /\ x.pc = pc /\ x.note = n
  BY <1>3
<1> HIDE DEF x
<1>5. push'[r] = x /\ \A o \in AlertRuns : o # r => push'[o] = push[o]
  BY <1>1, <1>3
<1>6. AlertTypeOK'
  BY <1>1, <1>2, <1>3, <1>4 DEF AlertInv, AlertTypeOK
<1>7. ~slipped' => Agrees /\ readable /\ ~slipped /\ \A o \in AlertRuns : Idle(o)
  BY <1>1, LookedIsAlone
<1>8. ASSUME NEW o \in AlertRuns PROVE (NoteFits(o) /\ SendIsNews(o) /\ MarkWasTold(o))'
  <2>1. CASE o = r
    <3>1. NoteFits(o)'
      BY <1>1, <1>4, <1>5, <2>1 DEF NoteFits, Belongs
    <3>2. SendIsNews(o)'
      BY <1>1, <1>4, <1>5, <1>7, <2>1 DEF SendIsNews, Agrees
    <3>3. MarkWasTold(o)'
      BY <1>4, <1>5, <2>1 DEF MarkWasTold
    <3> QED BY <3>1, <3>2, <3>3
  <2>2. CASE o # r
    BY <1>1, <1>2, <1>5, <2>2 DEF AlertInv, NoteFits, SendIsNews, MarkWasTold, Idle, Belongs
  <2> QED BY <2>1, <2>2
<1>9. OneAtATime'
  BY <1>5, <1>7 DEF OneAtATime, Idle
<1>10. InStep'
  BY <1>1, <1>7 DEF InStep, Agrees
<1>11. EventWasHeard'
  <2>1. ASSUME NEW o \in AlertRuns, push'[o].pc = "mark", push'[o].note = Event,
               site \in {"start", "trade"}
        PROVE  last = Event
    <3>1. CASE o = r
      BY <1>3, <1>4, <1>5, <2>1, <3>1
    <3>2. CASE o # r
      BY <1>5, <2>1, <3>2 DEF AlertInv, EventWasHeard
    <3> QED BY <3>1, <3>2
  <2> QED BY <1>1, <2>1 DEF AlertInv, EventWasHeard
<1>12. (marker = Absent \/ Belongs(marker))'
  BY <1>1 DEF AlertInv, Belongs
<1> QED BY <1>1, <1>6, <1>8, <1>9, <1>10, <1>11, <1>12, PushStep

LEMMA AlertStutters == AlertInv /\ UNCHANGED alertVars => AlertInv'
  BY DEF AlertInv, AlertTypeOK, NoteFits, SendIsNews, MarkWasTold, OneAtATime, InStep,
         EventWasHeard, Belongs, Idle, Agrees, AlertsHadCause, alertVars

\* A run leaves the key; unless it slips by that, it leaves nothing to mark.
LEMMA LeaveKeeps ==
    ASSUME AlertInv, NEW r \in AlertRuns, Leave(r), UNCHANGED <<site, marker, last, muted, repeated>>,
           day' \in AlertDays, fetchedAt' \in 1..day', slipped' \in BOOLEAN, slipped => slipped',
           push[r].pc = "mark" => slipped'
    PROVE  AlertInv'
<1>1. /\ push \in [AlertRuns -> [pc : PushStates, note : Notes] \cup {NotPushing}]
      /\ push' = [push EXCEPT ![r] = NotPushing] /\ slipped \in BOOLEAN
  BY AlertTypes DEF AlertInv, Leave
<1>2. push'[r] = NotPushing /\ \A o \in AlertRuns : o # r => push'[o] = push[o]
  BY <1>1
<1>3. NotPushing.pc = "idle"
  BY DEF NotPushing
<1>4. AlertTypeOK'
  BY <1>1 DEF AlertInv, AlertTypeOK
<1>5. ASSUME NEW o \in AlertRuns PROVE (NoteFits(o) /\ SendIsNews(o) /\ MarkWasTold(o))'
  <2>1. CASE o = r
    BY <1>2, <1>3, <2>1 DEF NoteFits, SendIsNews, MarkWasTold, Idle
  <2>2. CASE o # r
    BY <1>2, <2>2 DEF AlertInv, NoteFits, SendIsNews, MarkWasTold, Idle, Belongs
  <2> QED BY <2>1, <2>2
<1>6. OneAtATime'
  BY <1>2 DEF AlertInv, OneAtATime, Idle
<1>7. InStep'
  BY <1>2 DEF AlertInv, InStep, Agrees
<1>8. EventWasHeard'
  BY <1>2, <1>3 DEF AlertInv, EventWasHeard
<1>9. (marker = Absent \/ Belongs(marker))'
  BY DEF AlertInv, Belongs
<1> QED BY <1>4, <1>5, <1>6, <1>7, <1>8, <1>9, PushStep

LEMMA RunDiesKeeps ==
    ASSUME AlertInv, NEW r \in AlertRuns, RunDies(r)
    PROVE  AlertInv'
<1>1. /\ slipped' = (slipped \/ push[r].pc = "mark") /\ Leave(r)
      /\ UNCHANGED <<site, marker, day, fetchedAt, last, muted, repeated>>
  BY DEF RunDies
<1>2. day \in AlertDays /\ fetchedAt \in 1..day /\ slipped \in BOOLEAN
  BY DEF AlertInv, AlertTypeOK
<1> QED BY <1>1, <1>2, LeaveKeeps

LEMMA SaveFreshKeeps ==
    ASSUME AlertInv, NEW r \in AlertRuns, NEW ok \in BOOLEAN, SaveFresh(r, ok)
    PROVE  AlertInv'
<1>1. /\ push[r].pc = "save" /\ Leave(r)
      /\ fetchedAt' = (IF ok THEN day ELSE fetchedAt)
      /\ UNCHANGED <<site, marker, day, last, slipped, muted, repeated>>
  BY DEF SaveFresh
<1>2. day \in AlertDays /\ fetchedAt \in 1..day /\ slipped \in BOOLEAN /\ day \in 1..day
  BY DEF AlertInv, AlertTypeOK, AlertDays
<1>3. fetchedAt' \in 1..day' /\ day' \in AlertDays /\ slipped' \in BOOLEAN /\ (slipped => slipped')
  BY <1>1, <1>2
<1> QED BY <1>1, <1>3, LeaveKeeps

\* A run at the key moves on from where it is.
LEMMA SendKeeps ==
    ASSUME AlertInv, NEW r \in AlertRuns, NEW ok \in BOOLEAN, Send(r, ok)
    PROVE  AlertInv'
<1>1. /\ push[r].pc = "send" /\ slipped' = (slipped \/ (~ok /\ site = "cache"))
      /\ UNCHANGED <<site, marker, day, fetchedAt, muted>>
  BY DEF Send
<1>2. /\ push \in [AlertRuns -> [pc : PushStates, note : Notes] \cup {NotPushing}]
      /\ slipped \in BOOLEAN /\ last \in Notes /\ ~Idle(r) /\ AlertTypeOK
  BY <1>1, AlertTypes, IdleIsNowhere DEF AlertInv
<1>3. PICK n \in Notes : n = push[r].note
  BY <1>2, IdleIsNowhere
<1>4. Belongs(n) /\ n # Unpriced
  BY <1>1, <1>2, <1>3 DEF AlertInv, NoteFits
<1>5. CASE ~ok /\ site # "cache"
  <2>1. Leave(r) /\ slipped' = slipped /\ UNCHANGED <<site, marker, day, fetchedAt, last, muted, repeated>>
    BY <1>1, <1>2, <1>5 DEF Send
  <2>2. day' \in AlertDays /\ fetchedAt' \in 1..day' /\ slipped' \in BOOLEAN /\ (slipped => slipped')
    BY <1>2, <2>1 DEF AlertInv, AlertTypeOK
  <2> QED BY <1>1, <2>1, <2>2, LeaveKeeps
<1>6. CASE ok \/ site = "cache"
  <2> DEFINE x == [pc |-> "mark", note |-> n]
  <2>1. push' = [push EXCEPT ![r] = x]
    BY <1>3, <1>6 DEF Send, Goto
  <2>2. x \in [pc : PushStates, note : Notes] /\ x.pc = "mark" /\ x.note = n
    BY <1>3 DEF PushStates
  <2> HIDE DEF x
  <2>3. push'[r] = x /\ \A o \in AlertRuns : o # r => push'[o] = push[o]
    BY <1>2, <2>1
  <2>4. /\ ok => last' = n /\ repeated' = IF last = n THEN repeated \cup {Tainted(slipped)} ELSE repeated
        /\ ~ok => last' = last /\ repeated' = repeated /\ slipped' /\ site = "cache"
    BY <1>1, <1>2, <1>3, <1>6 DEF Send, Heard
  <2>5. slipped' \in BOOLEAN /\ (slipped => slipped') /\ (ok => slipped' = slipped)
    BY <1>1, <1>2
  <2>6. last' \in Notes
    BY <1>2, <1>3, <2>4
  <2>7. ok /\ last = n => slipped
    BY <1>1, <1>3 DEF AlertInv, SendIsNews
  <2>8. repeated' \subseteq {"clean", "slipped"} /\ AlertsHadCause'
    <3>1. repeated \subseteq {"clean", "slipped"} /\ AlertsHadCause
      BY DEF AlertInv, AlertTypeOK
    <3>2. CASE ok /\ last = n
      <4>1. repeated' = repeated \cup {"slipped"}
        BY <1>2, <2>4, <2>7, <3>2, TaintedIs
      <4> QED BY <1>1, <3>1, <4>1 DEF AlertsHadCause
    <3>3. CASE ~(ok /\ last = n)
      <4>1. repeated' = repeated
        BY <2>4, <3>3
      <4> QED BY <1>1, <3>1, <4>1 DEF AlertsHadCause
    <3> QED BY <3>2, <3>3
  <2>9. AlertTypeOK'
    BY <1>1, <1>2, <2>1, <2>2, <2>5, <2>6, <2>8 DEF AlertInv, AlertTypeOK
  <2>10. ~slipped' => ok /\ ~slipped /\ \A o \in AlertRuns : o # r => Idle(o)
    BY <1>2, <2>4, <2>5 DEF AlertInv, OneAtATime
  <2>11. ASSUME NEW o \in AlertRuns PROVE (NoteFits(o) /\ SendIsNews(o) /\ MarkWasTold(o))'
    <3>1. CASE o = r
      <4>1. NoteFits(o)'
        BY <1>1, <1>4, <2>2, <2>3, <3>1 DEF NoteFits, Belongs
      <4>2. SendIsNews(o)' /\ MarkWasTold(o)'
        BY <2>2, <2>3, <2>4, <2>10, <3>1 DEF SendIsNews, MarkWasTold
      <4> QED BY <4>1, <4>2
    <3>2. CASE o # r
      <4>1. NoteFits(o)'
        BY <1>1, <2>3, <3>2 DEF AlertInv, NoteFits, Idle, Belongs
      <4>2. ~slipped' => push'[o].pc = "idle"
        BY <2>3, <2>10, <3>2, IdleIsNowhere
      <4> QED BY <4>1, <4>2 DEF SendIsNews, MarkWasTold
    <3> QED BY <3>1, <3>2
  <2>12. OneAtATime'
    BY <2>3, <2>10 DEF OneAtATime, Idle
  <2>13. InStep'
    BY <2>2, <2>3 DEF InStep
  <2>14. EventWasHeard'
    <3> SUFFICES ASSUME site \in {"start", "trade"}
                 PROVE  last' = Event
      BY <1>1 DEF EventWasHeard
    <3>1. ok /\ n = Event
      BY <1>2, <1>4, <1>6, NotesDiffer
    <3> QED BY <2>4, <3>1
  <2>15. (marker = Absent \/ Belongs(marker))'
    BY <1>1 DEF AlertInv, Belongs
  <2> QED BY <2>8, <2>9, <2>11, <2>12, <2>13, <2>14, <2>15 DEF AlertInv
<1> QED BY <1>5, <1>6

LEMMA RecordKeeps ==
    ASSUME AlertInv, NEW r \in AlertRuns, NEW ok \in BOOLEAN, Record(r, ok)
    PROVE  AlertInv'
<1>1. /\ push[r].pc = "mark"
      /\ UNCHANGED <<site, day, fetchedAt, last, muted, repeated>>
  BY DEF Record
<1>2. /\ push \in [AlertRuns -> [pc : PushStates, note : Notes] \cup {NotPushing}]
      /\ slipped \in BOOLEAN /\ last \in Notes /\ ~Idle(r) /\ AlertTypeOK
  BY <1>1, AlertTypes, IdleIsNowhere DEF AlertInv
<1>3. PICK n \in Notes : n = push[r].note
  BY <1>2, IdleIsNowhere
<1>4. Belongs(n) /\ n # Absent
  BY <1>2, <1>3, NotesDiffer DEF AlertInv, NoteFits
<1> DEFINE keepsStep == ok /\ Alone(r) /\ n \in {last, Unpriced}
<1>5. /\ marker' = IF ok THEN n ELSE marker
      /\ slipped' = IF keepsStep THEN FALSE ELSE slipped \/ ~ok
  BY <1>3 DEF Record
<1>6. PICK x : /\ push' = [push EXCEPT ![r] = x]
               /\ \/ x = NotPushing
                  \/ x = [pc |-> "save", note |-> n]
  <2>1. CASE site = "cache" /\ n = Cleared
    BY <1>3, <2>1 DEF Record, Goto
  <2>2. CASE ~(site = "cache" /\ n = Cleared)
    BY <1>3, <2>2 DEF Record, Leave
  <2> QED BY <2>1, <2>2
<1>7. x \in [pc : PushStates, note : Notes] \cup {NotPushing} /\ x.pc \notin {"mark", "send"}
      /\ (x # NotPushing => x.note = n)
  BY <1>3, <1>6 DEF PushStates, NotPushing
<1>8. push'[r] = x /\ \A o \in AlertRuns : o # r => push'[o] = push[o]
  BY <1>2, <1>6
<1>9. slipped' \in BOOLEAN /\ marker' \in Notes \cup {Absent}
  BY <1>2, <1>3, <1>5 DEF AlertTypeOK
<1>10. AlertTypeOK'
  BY <1>1, <1>2, <1>6, <1>7, <1>9 DEF AlertInv, AlertTypeOK
\* Unless it slipped, this run was alone and what it marked was told.
<1>11. ~slipped' => /\ ok /\ n \in {last, Unpriced}
                    /\ \A o \in AlertRuns : o # r => Idle(o)
  <2>1. CASE keepsStep
    BY <2>1 DEF Alone, Idle
  <2>2. CASE ~keepsStep
    <3> SUFFICES ASSUME ~slipped'
                 PROVE  /\ ok /\ n \in {last, Unpriced}
                        /\ \A o \in AlertRuns : o # r => Idle(o)
      OBVIOUS
    <3>1. ok /\ ~slipped
      BY <1>2, <1>5, <2>2
    <3> QED BY <1>1, <1>2, <1>3, <3>1 DEF AlertInv, OneAtATime, MarkWasTold
  <2> QED BY <2>1, <2>2
<1> HIDE DEF keepsStep
<1>12. ASSUME NEW o \in AlertRuns PROVE (NoteFits(o) /\ SendIsNews(o) /\ MarkWasTold(o))'
  <2>1. CASE o = r
    BY <1>1, <1>4, <1>7, <1>8, <2>1 DEF NoteFits, SendIsNews, MarkWasTold, Idle, Belongs
  <2>2. CASE o # r
    <3>1. NoteFits(o)'
      BY <1>1, <1>8, <2>2 DEF AlertInv, NoteFits, Idle, Belongs
    <3>2. ~slipped' => push'[o].pc = "idle"
      BY <1>8, <1>11, <2>2, IdleIsNowhere
    <3> QED BY <3>1, <3>2 DEF SendIsNews, MarkWasTold
  <2> QED BY <2>1, <2>2
<1>13. OneAtATime'
  BY <1>8, <1>11 DEF OneAtATime, Idle
<1>14. InStep'
  BY <1>1, <1>5, <1>11 DEF InStep, Agrees
<1>15. EventWasHeard'
  <2> SUFFICES ASSUME site \in {"start", "trade"}
               PROVE  /\ marker' = Event => last = Event
                      /\ \A o \in AlertRuns :
                            push'[o].pc = "mark" /\ push'[o].note = Event => last = Event
    BY <1>1 DEF EventWasHeard
  <2>1. marker' = Event => last = Event
    BY <1>1, <1>3, <1>5 DEF AlertInv, EventWasHeard
  <2>2. ASSUME NEW o \in AlertRuns, push'[o].pc = "mark", push'[o].note = Event
        PROVE  last = Event
    BY <1>7, <1>8, <2>2 DEF AlertInv, EventWasHeard
  <2> QED BY <2>1, <2>2
<1>16. (marker = Absent \/ Belongs(marker))'
  BY <1>1, <1>4, <1>5 DEF AlertInv, Belongs
<1> QED BY <1>1, <1>10, <1>12, <1>13, <1>14, <1>15, <1>16, PushStep

\* The lineup lands: the episode is at an end, told or not.
LEMMA ApplyLandsKeeps ==
    ASSUME AlertInv, NEW r \in AlertRuns, NEW readable \in BOOLEAN, ApplyLands(r, readable)
    PROVE  AlertInv'
<1>1. /\ site = "apply" /\ Idle(r) /\ last' = Cleared /\ slipped' = Looked(r, readable)
      /\ UNCHANGED <<site, marker, day, fetchedAt, muted, repeated>>
  BY DEF ApplyLands, Idle
<1>2. slipped' \in BOOLEAN /\ (slipped => slipped') /\ AlertTypeOK /\ Cleared \in Notes
      /\ push \in [AlertRuns -> [pc : PushStates, note : Notes] \cup {NotPushing}]
  BY <1>1, LookedIsBoolean, AlertTypes DEF AlertInv
<1>3. ~slipped' => readable /\ \A o \in AlertRuns : Idle(o)
  BY <1>1, LookedIsAlone
<1>4. /\ Belongs(Cleared) /\ Cleared # Unpriced
  BY <1>1, AlertAssumption DEF Belongs
<1>5. (marker = Absent \/ Belongs(marker))' /\ EventWasHeard'
  BY <1>1 DEF AlertInv, Belongs, EventWasHeard
<1>6. CASE Token(readable) \in {Absent, Cleared}
  <2>1. push' = push
    BY <1>6 DEF ApplyLands
  <2>2. AlertTypeOK'
    BY <1>1, <1>2, <2>1 DEF AlertTypeOK
  <2>3. ASSUME NEW o \in AlertRuns PROVE (NoteFits(o) /\ SendIsNews(o) /\ MarkWasTold(o))'
    <3>1. ~slipped' => push'[o].pc = "idle"
      BY <1>3, <2>1, IdleIsNowhere
    <3>2. NoteFits(o)'
      BY <1>1, <2>1 DEF AlertInv, NoteFits, Idle, Belongs
    <3> QED BY <3>1, <3>2 DEF SendIsNews, MarkWasTold
  <2>4. OneAtATime' /\ InStep'
    BY <1>1, <1>3, <1>6, <2>1 DEF OneAtATime, InStep, Idle, Agrees, Token
  <2> QED BY <1>1, <1>5, <2>2, <2>3, <2>4, PushStep
<1>7. CASE Token(readable) \notin {Absent, Cleared}
  <2> DEFINE x == [pc |-> "mark", note |-> Cleared]
  <2>1. push' = [push EXCEPT ![r] = x]
    BY <1>7 DEF ApplyLands, Goto
  <2>2. x \in [pc : PushStates, note : Notes] /\ x.pc = "mark" /\ x.note = Cleared
    BY <1>2 DEF PushStates
  <2> HIDE DEF x
  <2>3. push'[r] = x /\ \A o \in AlertRuns : o # r => push'[o] = push[o]
    BY <1>2, <2>1
  <2>4. AlertTypeOK'
    BY <1>1, <1>2, <2>1, <2>2 DEF AlertTypeOK
  <2>5. ASSUME NEW o \in AlertRuns PROVE (NoteFits(o) /\ SendIsNews(o) /\ MarkWasTold(o))'
    <3>1. CASE o = r
      BY <1>1, <1>4, <2>2, <2>3, <3>1 DEF NoteFits, SendIsNews, MarkWasTold, Belongs
    <3>2. CASE o # r
      <4>1. ~slipped' => push'[o].pc = "idle"
        BY <1>3, <2>3, <3>2, IdleIsNowhere
      <4>2. NoteFits(o)'
        BY <1>1, <2>3, <3>2 DEF AlertInv, NoteFits, Idle, Belongs
      <4> QED BY <4>1, <4>2 DEF SendIsNews, MarkWasTold
    <3> QED BY <3>1, <3>2
  <2>6. OneAtATime'
    BY <1>3, <2>3 DEF OneAtATime, Idle
  <2>7. InStep'
    BY <2>2, <2>3 DEF InStep
  <2> QED BY <1>1, <1>5, <2>4, <2>5, <2>6, <2>7, PushStep
<1> QED BY <1>6, <1>7

LEMMA SendOnceKeeps ==
    ASSUME AlertInv, NEW r \in AlertRuns, NEW readable \in BOOLEAN, SendOnce(r, Event, readable),
           site \in {"start", "trade"}, readable => marker # Unpriced
    PROVE  AlertInv'
<1>1. Belongs(Event) /\ AlertTypeOK
  BY DEF Belongs, AlertInv
<1>2. /\ Event # Unpriced /\ Event # Cleared /\ Event # Absent /\ Unpriced # Absent
  BY <1>1, NotesDiffer
<1>3. CASE Token(readable) # Absent
  <2>1. readable /\ marker # Absent
    BY <1>3 DEF Token
  <2>2. marker = Event
    BY <1>1, <2>1, NotesDiffer DEF AlertInv
  <2> QED BY <1>2, <1>3, <2>1, <2>2, SkipKeeps DEF SendOnce
<1>4. CASE Token(readable) = Absent
  <2>1. GoOn(r, "send", Event, readable) /\ "send" \in PushStates
    BY <1>4 DEF SendOnce, PushStates
  <2>2. readable => marker = Absent
    BY <1>4 DEF Token
  <2> QED BY <1>1, <1>2, <2>1, <2>2, GoOnKeeps
<1> QED BY <1>3, <1>4

LEMMA SendOnChangeKeeps ==
    ASSUME AlertInv, NEW r \in AlertRuns, NEW n, NEW readable \in BOOLEAN,
           SendOnChange(r, n, readable), site \in {"apply", "cache"}, Belongs(n), n # Cleared
    PROVE  AlertInv'
<1>1. n # Absent /\ n # Unpriced /\ AlertTypeOK
  BY NotesDiffer DEF AlertInv
<1>2. CASE Token(readable) = n
  <2>1. readable /\ marker = n
    BY <1>1, <1>2 DEF Token
  <2> QED BY <1>1, <1>2, <2>1, SkipKeeps DEF SendOnChange
<1>3. CASE Token(readable) # n
  <2>1. GoOn(r, "send", n, readable) /\ "send" \in PushStates
    BY <1>3 DEF SendOnChange, PushStates
  <2>2. readable => marker # n
    BY <1>3 DEF Token
  <2>3. marker # Unpriced
    BY <1>1, NotesDiffer, AlertAssumption DEF AlertInv
  <2> QED BY <1>1, <2>1, <2>2, <2>3, GoOnKeeps
<1> QED BY <1>2, <1>3

LEMMA PollTradeKeeps ==
    ASSUME AlertInv, NEW r \in AlertRuns, NEW readable \in BOOLEAN, PollTrade(r, readable)
    PROVE  AlertInv'
<1>1. site = "trade"
  BY DEF PollTrade
<1>2. CASE day > TradeWindow /\ Token(readable) = Absent
  <2>1. GoOn(r, "mark", Unpriced, readable) /\ "mark" \in PushStates /\ Belongs(Unpriced)
    BY <1>1, <1>2 DEF PollTrade, PushStates, Belongs
  <2> QED BY <2>1, GoOnKeeps
<1>3. CASE ~(day > TradeWindow /\ Token(readable) = Absent) /\ marker = Unpriced /\ readable
  <2>1. UNCHANGED alertVars
    BY <1>3 DEF PollTrade
  <2> QED BY <2>1, AlertStutters
<1>4. CASE ~(day > TradeWindow /\ Token(readable) = Absent) /\ ~(marker = Unpriced /\ readable)
  <2>1. SendOnce(r, Event, readable)
    BY <1>4 DEF PollTrade
  <2> QED BY <1>1, <1>4, <2>1, SendOnceKeeps
<1> QED BY <1>2, <1>3, <1>4

LEMMA FetchFreshKeeps ==
    ASSUME AlertInv, NEW r \in AlertRuns, NEW readable \in BOOLEAN, FetchFresh(r, readable)
    PROVE  AlertInv'
<1>1. site = "cache" /\ Belongs(Cleared) /\ AlertTypeOK
  BY DEF FetchFresh, Belongs, AlertInv
<1>2. Cleared # Unpriced
  BY AlertAssumption
<1>3. CASE Token(readable) \in {Absent, Cleared}
  <2>1. GoOn(r, "save", Cleared, readable) /\ "save" \in PushStates
    BY <1>3 DEF FetchFresh, PushStates
  <2> QED BY <1>1, <2>1, GoOnKeeps
<1>4. CASE Token(readable) \notin {Absent, Cleared}
  <2>1. GoOn(r, "send", Cleared, readable) /\ "send" \in PushStates
    BY <1>4 DEF FetchFresh, PushStates
  <2>2. marker \notin {Absent, Cleared}
    BY <1>4 DEF Token
  <2>3. marker # Unpriced
    BY <1>1, <2>2, NotesDiffer DEF AlertInv
  <2> QED BY <1>1, <1>2, <2>1, <2>2, <2>3, GoOnKeeps
<1> QED BY <1>3, <1>4

LEMMA SiteKeeps ==
    ASSUME AlertInv, NEW r \in AlertRuns, NEW ok \in BOOLEAN,
           ReportStart(r, ok) \/ ServeStale(r, ok) \/ \E n \in Texts : ApplyFails(r, n, ok)
    PROVE  AlertInv'
<1>1. CASE ReportStart(r, ok)
  <2>1. marker # Unpriced
    BY <1>1, AlertAssumption DEF ReportStart, AlertInv, Belongs
  <2> QED BY <1>1, <2>1, SendOnceKeeps DEF ReportStart
<1>2. CASE ServeStale(r, ok)
  <2>1. PICK n : n = Episode(fetchedAt, day)
    OBVIOUS
  <2>2. n \in Episodes
    <3>1. fetchedAt \in AlertDays /\ day \in AlertDays
      BY AlertAssumption DEF AlertInv, AlertTypeOK, AlertDays
    <3> QED BY <2>1, <3>1 DEF Episode, Episodes
  <2>3. n # Cleared
    BY <2>2, AlertAssumption DEF Episodes, AlertDays
  <2>4. SendOnChange(r, n, ok) /\ site = "cache" /\ Belongs(n)
    BY <1>2, <2>1, <2>2 DEF ServeStale, Belongs
  <2> QED BY <2>3, <2>4, SendOnChangeKeeps
<1>3. CASE \E n \in Texts : ApplyFails(r, n, ok)
  <2>1. PICK n \in Texts : ApplyFails(r, n, ok)
    BY <1>3
  <2>2. n # Cleared
    BY AlertAssumption
  <2>3. SendOnChange(r, n, ok) /\ site = "apply" /\ Belongs(n)
    BY <2>1 DEF ApplyFails, Belongs
  <2> QED BY <2>2, <2>3, SendOnChangeKeeps
<1> QED BY <1>1, <1>2, <1>3

LEMMA MidnightKeeps == AlertInv /\ Midnight => AlertInv'
<1> SUFFICES ASSUME AlertInv, Midnight PROVE AlertInv'
  OBVIOUS
<1>1. /\ day < MaxDay /\ day' = day + 1
      /\ UNCHANGED <<site, marker, push, fetchedAt, last, slipped, muted, repeated>>
  BY DEF Midnight
<1>2. day' \in AlertDays /\ fetchedAt \in 1..day'
  BY <1>1, AlertAssumption DEF AlertInv, AlertTypeOK, AlertDays
<1>3. AlertTypeOK'
  BY <1>1, <1>2 DEF AlertInv, AlertTypeOK
<1> QED BY <1>1, <1>3, PushStep
        DEF AlertInv, NoteFits, SendIsNews, MarkWasTold, OneAtATime, InStep, EventWasHeard,
            Belongs, Idle, Agrees

LEMMA InitAlerts == AlertInit => AlertInv
<1> SUFFICES ASSUME AlertInit PROVE AlertInv
  OBVIOUS
<1>1. \A r \in AlertRuns : push[r] = NotPushing
  BY DEF AlertInit
<1>2. AlertTypeOK
  <2>1. day \in AlertDays /\ fetchedAt \in 1..day
    BY AlertAssumption DEF AlertInit, AlertDays
  <2>2. /\ site \in Sites /\ marker \in Notes \cup {Absent} /\ last \in Notes
        /\ slipped \in BOOLEAN /\ muted = {} /\ repeated = {}
        /\ push \in [AlertRuns -> [pc : PushStates, note : Notes] \cup {NotPushing}]
    BY DEF AlertInit, Notes
  <2> QED BY <2>1, <2>2 DEF AlertTypeOK
<1>3. NotPushing.pc = "idle" /\ Absent # Event
  BY AlertAssumption DEF NotPushing
<1> QED BY <1>1, <1>2, <1>3
        DEF AlertInit, AlertInv, NoteFits, SendIsNews, MarkWasTold, OneAtATime, InStep,
            EventWasHeard, Idle, Agrees, AlertsHadCause

LEMMA StepAlerts == AlertInv /\ [AlertNext]_alertVars => AlertInv'
<1> SUFFICES ASSUME AlertInv, [AlertNext]_alertVars PROVE AlertInv'
  OBVIOUS
<1>1. CASE UNCHANGED alertVars
  BY <1>1, AlertStutters
<1>2. CASE Midnight
  BY <1>2, MidnightKeeps
<1>3. CASE \E r \in AlertRuns, ok \in BOOLEAN :
             \/ ReportStart(r, ok) \/ PollTrade(r, ok) \/ ApplyLands(r, ok)
             \/ ServeStale(r, ok) \/ FetchFresh(r, ok)
             \/ Send(r, ok) \/ Record(r, ok) \/ SaveFresh(r, ok)
  BY <1>3, SiteKeeps, PollTradeKeeps, ApplyLandsKeeps, FetchFreshKeeps, SendKeeps, RecordKeeps,
     SaveFreshKeeps
<1>4. CASE \E r \in AlertRuns, n \in Texts, ok \in BOOLEAN : ApplyFails(r, n, ok)
  BY <1>4, SiteKeeps
<1>5. CASE \E r \in AlertRuns : RunDies(r)
  BY <1>5, RunDiesKeeps
<1> QED BY <1>1, <1>2, <1>3, <1>4, <1>5 DEF AlertNext

(* Every reachable state of the alerting jobs is well typed (alertmarker.go). *)
THEOREM AlertsTypeCorrect == AlertSpec => []AlertTypeOK
<1>1. AlertInv => AlertTypeOK
  BY DEF AlertInv
<1> QED BY <1>1, InitAlerts, StepAlerts, PTL DEF AlertSpec

(* Unless a marker or a push was lost, a run died between the two or two runs   *)
(* were at a key at once, nobody is kept in the dark, told the same twice or   *)
(* told a recovery of nothing; and of a start or a trade nobody is kept in the *)
(* dark at all: for any runs, errors and days (alertmarker.go).                *)
THEOREM AlertsAreCaused == AlertSpec => []AlertsHadCause
<1>1. AlertInv => AlertsHadCause
  BY DEF AlertInv
<1> QED BY <1>1, InitAlerts, StepAlerts, PTL DEF AlertSpec

-----------------------------------------------------------------------------
(* Apply.  The counting first: a retry that drops a promotion for every bench *)
(* move it leaves out fills no slot beyond what the first payload put there.   *)

Payloads == [Squad -> Positions \cup {Keep}]
Sent(k, e, r) == [p \in Squad |-> IF p \in Moves(k, e) THEN k[p] ELSE r[p]]
Without(plan, ds) == [p \in Squad |-> IF p \in ds THEN Keep ELSE plan[p]]
DropsFor(plan, raw, e) == Withdrawals([kept |-> plan, raw |-> raw], e)
PromotesOnly(plan, raw) == \A p \in Squad : plan[p] \in Active => raw[p] \in {Bench, plan[p]}

LEMMA PositionsDiffer ==
    /\ Bench \notin Active /\ Keep \notin Active /\ Keep # Bench /\ IsFiniteSet(Squad)
    /\ \A f \in Payloads, p \in Squad : f[p] \in Active \cup {Bench, Keep}
    /\ \A f \in Rosters, p \in Squad : f[p] \in Active \cup {Bench}
  BY ApplyAssumption DEF Payloads, Rosters, Positions

LEMMA SentIsPlaced ==
    ASSUME NEW k \in Payloads, NEW e \in SUBSET Squad, NEW r \in Rosters
    PROVE  Sent(k, e, r) \in [Squad -> Positions]
  BY DEF Sent, Moves, Payloads, Rosters

LEMMA WithoutIsPlan ==
    ASSUME NEW k \in Payloads, NEW ds
    PROVE  Without(k, ds) \in Payloads
  BY DEF Payloads, Without

LEMMA DropsArePromotions ==
    ASSUME NEW plan \in Payloads, NEW raw \in Rosters, NEW e, NEW ds \in DropsFor(plan, raw, e),
           NEW p \in ds
    PROVE  p \in Squad /\ plan[p] \in Active /\ raw[p] = Bench
  BY DEF DropsFor, Withdrawals, Promotions

LEMMA SlotOfRetryFits ==
    ASSUME NEW plan \in Payloads, NEW raw \in Rosters, NEW e \in SUBSET Squad,
           NEW ds \in DropsFor(plan, raw, e), PromotesOnly(plan, raw),
           NEW s \in Active, NEW cap \in Nat,
           Cardinality({p \in Squad : raw[p] = s}) <= cap,
           Cardinality({p \in Squad : Sent(plan, {}, raw)[p] = s}) <= cap
    PROVE  Cardinality({p \in Squad : Sent(Without(plan, ds), e, raw)[p] = s}) <= cap
<1> DEFINE R == {p \in Squad : raw[p] = s}
           A == {p \in Squad : Sent(plan, {}, raw)[p] = s}
           B == {p \in Squad : Sent(Without(plan, ds), e, raw)[p] = s}
           Left == {p \in e : plan[p] = Bench /\ raw[p] = s}
           Up == {p \in Squad : plan[p] = s /\ raw[p] = Bench}
<1>1. /\ IsFiniteSet(Squad) /\ R \in SUBSET Squad /\ A \in SUBSET Squad /\ B \in SUBSET Squad
      /\ Left \in SUBSET Squad /\ Up \in SUBSET Squad
  BY PositionsDiffer
<1>2. /\ IsFiniteSet(R) /\ IsFiniteSet(A) /\ IsFiniteSet(B) /\ IsFiniteSet(Left) /\ IsFiniteSet(Up)
      /\ IsFiniteSet(A \cup Left) /\ IsFiniteSet(ds \cap Up)
  BY <1>1, FS_Subset, FS_Union, FS_Intersection
<1>3. Cardinality(ds \cap Up) = Smaller(Cardinality(Left), Cardinality(Up))
  BY DEF DropsFor, Withdrawals, Stranded, Promotions
<1>4. ASSUME NEW p \in Squad
      PROVE  /\ Sent(plan, {}, raw)[p] = IF plan[p] # Keep THEN plan[p] ELSE raw[p]
             /\ Sent(Without(plan, ds), e, raw)[p] =
                  IF plan[p] # Keep /\ p \notin ds /\ p \notin e THEN plan[p] ELSE raw[p]
  BY DEF Sent, Moves, Without
<1>5. ASSUME NEW p \in B PROVE p \in A \cup Left
  <2>1. p \in Squad /\ raw[p] \in Active \cup {Bench} /\ plan[p] \in Active \cup {Bench, Keep}
    BY PositionsDiffer
  <2>2. p \in ds => plan[p] \in Active /\ raw[p] = Bench
    BY DropsArePromotions
  <2>3. plan[p] \in Active => raw[p] \in {Bench, plan[p]}
    BY <2>1 DEF PromotesOnly
  <2> QED BY <1>4, <2>1, <2>2, <2>3, PositionsDiffer
<1>6. ASSUME NEW p \in ds \cap Up PROVE p \in A /\ p \notin B
  BY <1>4, PositionsDiffer
<1>7. B \in SUBSET ((A \cup Left) \ (ds \cap Up)) /\ ds \cap Up \in SUBSET A
  BY <1>5, <1>6
<1>8. /\ Cardinality(R) \in Nat /\ Cardinality(A) \in Nat /\ Cardinality(B) \in Nat
      /\ Cardinality(Left) \in Nat /\ Cardinality(Up) \in Nat /\ Cardinality(ds \cap Up) \in Nat
      /\ Cardinality(A \cup Left) \in Nat /\ Cardinality(A \cap Left) \in Nat
  BY <1>2, FS_CardinalityType, FS_Intersection
<1>9. CASE Cardinality(Left) <= Cardinality(Up)
  <2>1. Cardinality(ds \cap Up) = Cardinality(Left)
    BY <1>3, <1>9 DEF Smaller
  <2>2. Cardinality(A \cup Left) <= Cardinality(A) + Cardinality(Left)
    <3>1. Cardinality(A \cup Left) = Cardinality(A) + Cardinality(Left) - Cardinality(A \cap Left)
      BY <1>2, FS_Union
    <3> QED BY <1>8, <3>1
  <2>3. /\ IsFiniteSet((A \cup Left) \ (ds \cap Up))
        /\ Cardinality((A \cup Left) \ (ds \cap Up)) = Cardinality(A \cup Left) - Cardinality(ds \cap Up)
    <3>1. (A \cup Left) \cap (ds \cap Up) = ds \cap Up
      BY <1>7
    <3> HIDE DEF A, Left, Up
    <3>2. /\ IsFiniteSet((A \cup Left) \ (ds \cap Up))
          /\ Cardinality((A \cup Left) \ (ds \cap Up)) =
               Cardinality(A \cup Left) - Cardinality((A \cup Left) \cap (ds \cap Up))
      BY <1>2, FS_Difference
    <3> QED BY <3>1, <3>2
  <2>4. Cardinality(B) <= Cardinality((A \cup Left) \ (ds \cap Up))
    BY <1>7, <2>3, FS_Subset
  <2>5. Cardinality(B) <= Cardinality(A)
    <3> HIDE DEF A, B, Left, Up
    <3> QED BY <1>8, <2>1, <2>2, <2>3, <2>4
  <2> QED
    <3>1. Cardinality(A) <= cap
      OBVIOUS
    <3> HIDE DEF A, B
    <3>2. Cardinality(B) <= cap
      BY <1>8, <2>5, <3>1
    <3> QED BY <3>2 DEF B
<1>10. CASE ~(Cardinality(Left) <= Cardinality(Up))
  <2>1. ds \cap Up = Up
    <3>1. Cardinality(ds \cap Up) = Cardinality(Up)
      BY <1>3, <1>10 DEF Smaller
    <3>2. ds \cap Up \in SUBSET Up
      OBVIOUS
    <3> QED BY <1>2, <3>1, <3>2, FS_Subset
  <2>2. ASSUME NEW p \in B PROVE p \in R
    <3>1. p \in Squad /\ (plan[p] \in Active => raw[p] \in {Bench, plan[p]})
      BY DEF PromotesOnly
    <3>2. p \in Up => p \in ds
      BY <2>1
    <3> QED BY <1>4, <3>1, <3>2
  <2>3. Cardinality(B) <= Cardinality(R)
    BY <1>2, <2>2, FS_Subset
  <2> QED
    <3>1. Cardinality(R) <= cap
      OBVIOUS
    <3> HIDE DEF R, B
    <3>2. Cardinality(B) <= cap
      BY <1>8, <2>3, <3>1
    <3> QED BY <3>2 DEF B
<1> QED BY <1>9, <1>10

LEMMA RetryStaysLegal ==
    ASSUME NEW plan \in Payloads, NEW raw \in Rosters, NEW e \in SUBSET Squad,
           NEW ds \in DropsFor(plan, raw, e), PromotesOnly(plan, raw), Fits(Sent(plan, {}, raw))
    PROVE  Fits(Sent(Without(plan, ds), e, raw))
<1>1. ASSUME NEW s \in Active
      PROVE  Cardinality({p \in Squad : Sent(Without(plan, ds), e, raw)[p] = s}) <= Cap[s]
  <2>1. Cap[s] \in Nat
    BY ApplyAssumption
  <2>2. /\ Cardinality({p \in Squad : raw[p] = s}) <= Cap[s]
        /\ Cardinality({p \in Squad : Sent(plan, {}, raw)[p] = s}) <= Cap[s]
    BY DEF Rosters, Fits
  <2>3. PICK cap \in Nat : cap = Cap[s]
    BY <2>1
  <2> QED BY <2>2, <2>3, SlotOfRetryFits
<1> QED BY <1>1 DEF Fits

\* The run's own steps: the cached copy is the roster until a write was taken,
\* and so is a copy on its way there; the raw roster is the roster but for the manager, the payload of a retry is
\* the plan without the locked players and the withdrawn promotions, and only a
\* retry that was verified is confirmed.
CopyIsTrue ==
    turn.pc \notin {"verify", "done"} /\ "cache" \notin drifted /\ cached # NoCopy => cached = roster
FillIsTrue == fill.pc = "save" /\ "fill" \notin drifted => fill.got = roster
RawIsTrue == Posting => \A p \in Squad \ edited : roster[p] = turn.raw[p]
PayloadIsThePlan ==
    turn.pc # "idle" =>
        /\ turn.pc = "fetch" => turn.attempt = 1
        /\ turn.attempt = 1 => turn.kept = turn.plan /\ turn.excl = {}
        /\ turn.attempt = 2 =>
             \E ds \in DropsFor(turn.plan, turn.raw, turn.excl) : turn.kept = Without(turn.plan, ds)
        /\ turn.confirmed => turn.pc = "done"

ApplyInv ==
    /\ ApplyTypeOK /\ CopyIsTrue /\ FillIsTrue /\ RawIsTrue /\ PayloadIsThePlan
    /\ ConfirmedHasLanded

LEMMA TurnIsRecord ==
    ASSUME ApplyTypeOK
    PROVE  /\ turn.pc \in {"idle", "fetch", "post", "confirm", "verify", "done"}
           /\ turn = NoTurn <=> turn.pc = "idle"
           /\ turn.pc # "idle" => turn \in Turns
           /\ NoTurn.pc = "idle"
  BY DEF ApplyTypeOK, NoTurn, Turns

LEMMA FillIsRecord ==
    ASSUME ApplyTypeOK
    PROVE  /\ fill.pc \in {"idle", "fetch", "save"}
           /\ fill = NoFill <=> fill.pc = "idle"
           /\ fill.pc = "save" => fill.got \in Rosters
           /\ NoFill.pc = "idle" /\ Missed.pc = "fetch"
           /\ NoFill \in Fills /\ Missed \in Fills
  BY DEF ApplyTypeOK, NoFill, Missed, Fills

LEMMA TurnFields ==
    ASSUME NEW t \in Turns
    PROVE  /\ t.pc \in {"fetch", "post", "confirm", "verify", "done"} /\ t.attempt \in 1..2
           /\ t.plan \in Payloads /\ t.kept \in Payloads /\ t.raw \in Rosters /\ t.excl \in SUBSET Squad
           /\ t.confirmed \in BOOLEAN
           /\ FieldMap(t) = Sent(t.kept, t.excl, t.raw)
           /\ FirstPayload(t) = Sent(t.plan, {}, t.raw)
  BY DEF Turns, Payloads, FieldMap, FirstPayload, Sent

LEMMA PayloadIsPlaced ==
    ASSUME NEW t \in Turns, Fits(FieldMap(t))
    PROVE  FieldMap(t) \in Rosters
  BY TurnFields, SentIsPlaced DEF Rosters

\* Only the bystanders' own moves are in a payload but not in its plan.
LEMMA PayloadMoves ==
    ASSUME ApplyInv, Posting, NEW p \in Squad, p \notin Moves(turn.kept, turn.excl), p \notin edited
    PROVE  FieldMap(turn)[p] = roster[p]
<1>1. turn \in Turns
  BY TurnIsRecord DEF ApplyInv, Posting
<1> QED BY <1>1, TurnFields DEF ApplyInv, RawIsTrue, Sent

LEMMA InitApply == ApplyInit => ApplyInv
<1> SUFFICES ASSUME ApplyInit PROVE ApplyInv
  OBVIOUS
<1>1. ApplyTypeOK
  BY DEF ApplyInit, ApplyTypeOK, Fills
<1>2. turn.pc = "idle" /\ turn = NoTurn /\ fill.pc = "idle"
  BY DEF ApplyInit, NoTurn, NoFill
<1> QED BY <1>1, <1>2
        DEF ApplyInit, ApplyInv, CopyIsTrue, FillIsTrue, RawIsTrue, PayloadIsThePlan, ConfirmedHasLanded,
            Posting

\* Where no plan is under way the run's own parts of the invariant say nothing.
LEMMA OverKeeps ==
    ASSUME ApplyInv, Over, roster' \in Rosters, locked' = locked,
           cached' = cached \/ cached' = NoCopy, fill' = fill, drifted' \subseteq Copies,
           "cache" \notin drifted' /\ cached' # NoCopy => cached' = roster',
           FillIsTrue'
    PROVE  ApplyInv'
<1>1. turn' = NoTurn /\ turn'.pc = "idle" /\ edited' = {}
  BY DEF Over, NoTurn
<1>2. ApplyTypeOK'
  BY <1>1 DEF ApplyInv, ApplyTypeOK
<1> QED BY <1>1, <1>2
        DEF ApplyInv, CopyIsTrue, RawIsTrue, PayloadIsThePlan, ConfirmedHasLanded, Posting

LEMMA GameStartsKeeps ==
    ASSUME ApplyInv, NEW p \in Squad, GameStarts(p)
    PROVE  ApplyInv'
  BY DEF ApplyInv, GameStarts, ApplyTypeOK, CopyIsTrue, FillIsTrue, RawIsTrue, PayloadIsThePlan,
         ConfirmedHasLanded, Posting

LEMMA UnsavedAreCopies ==
    /\ Unsaved \subseteq Copies /\ "cache" \in Copies
    /\ fill.pc = "save" => "fill" \in Unsaved
  BY DEF Unsaved, Copies

LEMMA HandEditKeeps ==
    ASSUME ApplyInv, NEW p \in Squad, NEW pos \in Positions, HandEdit(p, pos)
    PROVE  ApplyInv'
<1>1. /\ roster' = [roster EXCEPT ![p] = pos] /\ Fits([roster EXCEPT ![p] = pos])
      /\ edited' = (IF turn = NoTurn THEN edited ELSE edited \cup {p})
      /\ drifted' = {"cache"} \cup Unsaved
      /\ UNCHANGED <<locked, cached, fill, turn>>
  BY DEF HandEdit
<1>2. roster' \in Rosters /\ \A q \in Squad \ {p} : roster'[q] = roster[q]
  BY <1>1 DEF ApplyInv, ApplyTypeOK, Rosters
<1>3. ApplyTypeOK'
  BY <1>1, <1>2, UnsavedAreCopies DEF ApplyInv, ApplyTypeOK
<1>4. turn # NoTurn => p \in edited' /\ edited \subseteq edited'
  BY <1>1
<1>5. RawIsTrue'
  BY <1>1, <1>2, <1>4, TurnIsRecord DEF ApplyInv, RawIsTrue, Posting
<1>6. ConfirmedHasLanded'
  BY <1>1, <1>2, <1>4 DEF ApplyInv, ConfirmedHasLanded, Moves
<1>7. CopyIsTrue' /\ FillIsTrue'
  BY <1>1, UnsavedAreCopies DEF CopyIsTrue, FillIsTrue
<1> QED BY <1>1, <1>3, <1>5, <1>6, <1>7 DEF ApplyInv, PayloadIsThePlan

\* What only concerns the copies leaves the run alone.
LEMMA CopiesChange ==
    ASSUME ApplyInv, UNCHANGED <<roster, locked, turn, edited>>,
           cached' \in Rosters \cup {NoCopy}, fill' \in Fills, drifted' \subseteq Copies,
           CopyIsTrue', FillIsTrue'
    PROVE  ApplyInv'
  BY DEF ApplyInv, ApplyTypeOK, RawIsTrue, PayloadIsThePlan, ConfirmedHasLanded, Posting

LEMMA CacheExpiresKeeps ==
    ASSUME ApplyInv, CacheExpires
    PROVE  ApplyInv'
<1>1. /\ cached' = NoCopy /\ drifted' = drifted \ {"cache"}
      /\ UNCHANGED <<roster, locked, fill, turn, edited>>
  BY DEF CacheExpires
<1>2. CopyIsTrue' /\ FillIsTrue'
  BY <1>1 DEF ApplyInv, CopyIsTrue, FillIsTrue
<1>3. cached' \in Rosters \cup {NoCopy} /\ fill' \in Fills /\ drifted' \subseteq Copies
  BY <1>1 DEF ApplyInv, ApplyTypeOK
<1> QED BY <1>1, <1>2, <1>3, CopiesChange

LEMMA MissKeeps ==
    ASSUME ApplyInv, Miss
    PROVE  ApplyInv'
<1>1. fill' = Missed /\ UNCHANGED <<roster, locked, cached, turn, edited, drifted>>
  BY DEF Miss
<1>2. fill' \in Fills /\ fill'.pc = "fetch"
  BY <1>1, FillIsRecord DEF ApplyInv
<1>3. CopyIsTrue' /\ FillIsTrue'
  BY <1>1, <1>2 DEF ApplyInv, CopyIsTrue, FillIsTrue
<1>4. cached' \in Rosters \cup {NoCopy} /\ drifted' \subseteq Copies
  BY <1>1 DEF ApplyInv, ApplyTypeOK
<1> QED BY <1>1, <1>2, <1>3, <1>4, CopiesChange

LEMMA FetchRosterKeeps ==
    ASSUME ApplyInv, FetchRoster
    PROVE  ApplyInv'
<1>1. /\ fill' = [pc |-> "save", got |-> roster]
      /\ UNCHANGED <<roster, locked, cached, turn, edited, drifted>>
  BY DEF FetchRoster
<1>2. cached' \in Rosters \cup {NoCopy} /\ drifted' \subseteq Copies /\ fill' \in Fills
  BY <1>1 DEF ApplyInv, ApplyTypeOK, Fills
<1>3. CopyIsTrue' /\ FillIsTrue'
  BY <1>1 DEF ApplyInv, CopyIsTrue, FillIsTrue
<1> QED BY <1>1, <1>2, <1>3, CopiesChange

\* A save, whether its run goes on to a plan or not: the copies stay true.
LEMMA SaveKeepsCopies ==
    ASSUME ApplyInv, NEW ok \in BOOLEAN, Save(ok),
           turn' = turn \/ turn = NoTurn
    PROVE  /\ cached' \in Rosters \cup {NoCopy} /\ fill' \in Fills /\ drifted' \subseteq Copies
           /\ CopyIsTrue' /\ FillIsTrue'
<1>1. /\ fill.pc = "save" /\ fill' = NoFill
      /\ cached' = (IF ok THEN fill.got ELSE cached)
      /\ drifted' = (IF ~ok THEN drifted \ {"fill"}
                     ELSE IF "fill" \in drifted THEN {"cache"} ELSE {})
      /\ UNCHANGED <<roster, locked>>
  BY DEF Save
<1>2. fill.got \in Rosters /\ fill' \in Fills /\ fill'.pc = "idle"
  BY <1>1, FillIsRecord DEF ApplyInv
<1>3. cached' \in Rosters \cup {NoCopy} /\ drifted' \subseteq Copies
  BY <1>1, <1>2 DEF ApplyInv, ApplyTypeOK, Copies
<1>4. FillIsTrue'
  BY <1>2 DEF FillIsTrue
<1>5. CopyIsTrue'
  <2>1. CASE ok
    <3>1. "cache" \notin drifted' => cached' = roster'
      BY <1>1, <2>1 DEF ApplyInv, FillIsTrue
    <3> QED BY <3>1 DEF CopyIsTrue
  <2>2. CASE ~ok
    <3>1. turn.pc \in {"verify", "done"} => turn' = turn
      BY TurnIsRecord DEF ApplyInv
    <3> QED BY <1>1, <2>2, <3>1 DEF ApplyInv, CopyIsTrue
  <2> QED BY <2>1, <2>2
<1> QED BY <1>2, <1>3, <1>4, <1>5

LEMMA SaveOnlyKeeps ==
    ASSUME ApplyInv, NEW ok \in BOOLEAN, SaveOnly(ok)
    PROVE  ApplyInv'
<1>1. Save(ok) /\ UNCHANGED <<roster, locked, turn, edited>>
  BY DEF SaveOnly, Save
<1> QED BY <1>1, SaveKeepsCopies, CopiesChange

\* A plan for a roster of whatever age.
LEMMA PlansKeep ==
    ASSUME ApplyInv, NEW view \in Rosters, NEW want \in Rosters, PlansFrom(view, want),
           UNCHANGED <<roster, locked>>,
           cached' \in Rosters \cup {NoCopy}, fill' \in Fills, drifted' \subseteq Copies,
           CopyIsTrue', FillIsTrue'
    PROVE  ApplyInv'
<1> DEFINE moves == [p \in Squad |-> IF want[p] = view[p] THEN Keep ELSE want[p]]
           t == [pc |-> "fetch", attempt |-> 1, plan |-> moves, kept |-> moves,
                 raw |-> view, excl |-> {}, confirmed |-> FALSE]
<1>1. turn = NoTurn /\ edited' = {} /\ turn' = t
  BY DEF PlansFrom
<1>2. moves \in Payloads
  BY DEF Payloads, Rosters
<1>3. t \in Turns
  BY <1>2 DEF Turns, Payloads
<1>4. /\ t.pc = "fetch" /\ t.attempt = 1 /\ t.kept = t.plan /\ t.excl = {} /\ ~t.confirmed
  OBVIOUS
<1> HIDE DEF t
<1>5. ApplyTypeOK'
  BY <1>1, <1>3 DEF ApplyInv, ApplyTypeOK
<1> QED BY <1>1, <1>4, <1>5
        DEF ApplyInv, RawIsTrue, PayloadIsThePlan, ConfirmedHasLanded, Posting

LEMMA OptimizeKeeps ==
    ASSUME ApplyInv, NEW want \in Rosters, Optimize(want)
    PROVE  ApplyInv'
<1>1. /\ cached # NoCopy /\ PlansFrom(cached, want) /\ turn = NoTurn
      /\ UNCHANGED <<roster, locked, cached, fill, drifted>>
  BY DEF Optimize, PlansFrom
<1>2. PICK view \in Rosters : view = cached
  BY <1>1 DEF ApplyInv, ApplyTypeOK
<1>3. cached' \in Rosters \cup {NoCopy} /\ fill' \in Fills /\ drifted' \subseteq Copies
  BY <1>1 DEF ApplyInv, ApplyTypeOK
<1>4. CopyIsTrue' /\ FillIsTrue'
  <2>1. turn.pc = "idle"
    BY <1>1, TurnIsRecord DEF ApplyInv
  <2> QED BY <1>1, <2>1 DEF ApplyInv, CopyIsTrue, FillIsTrue
<1> QED BY <1>1, <1>2, <1>3, <1>4, PlansKeep

LEMMA SaveAndOptimizeKeeps ==
    ASSUME ApplyInv, NEW want \in Rosters, NEW ok \in BOOLEAN, SaveAndOptimize(ok, want)
    PROVE  ApplyInv'
<1>1. Save(ok) /\ fill.pc = "save" /\ PlansFrom(fill.got, want) /\ turn = NoTurn
      /\ UNCHANGED <<roster, locked>>
  BY DEF SaveAndOptimize, Save, PlansFrom
<1>2. PICK view \in Rosters : view = fill.got
  BY <1>1, FillIsRecord DEF ApplyInv
<1> QED BY <1>1, <1>2, SaveKeepsCopies, PlansKeep

\* A plan that goes on to its next station with the same payload.
LEMMA FetchRawKeeps ==
    ASSUME ApplyInv, FetchRaw
    PROVE  ApplyInv'
<1>1. /\ turn.pc = "fetch" /\ turn' = [turn EXCEPT !.pc = "post", !.raw = roster] /\ edited' = {}
      /\ UNCHANGED <<roster, locked, cached, fill, drifted>>
  BY DEF FetchRaw
<1>2. turn \in Turns /\ ApplyTypeOK /\ turn.attempt = 1 /\ ~turn.confirmed /\ roster \in Rosters
  BY <1>1, TurnIsRecord DEF ApplyInv, PayloadIsThePlan, ApplyTypeOK
<1>3. /\ turn' \in Turns /\ turn'.pc = "post" /\ turn'.raw = roster /\ turn'.attempt = 1
      /\ turn'.plan = turn.plan /\ turn'.kept = turn.kept /\ turn'.excl = turn.excl
      /\ turn'.confirmed = turn.confirmed
  BY <1>1, <1>2 DEF Turns
<1>4. ApplyTypeOK'
  BY <1>1, <1>2, <1>3 DEF ApplyTypeOK
<1> QED BY <1>1, <1>2, <1>3, <1>4
        DEF ApplyInv, CopyIsTrue, FillIsTrue, RawIsTrue, PayloadIsThePlan, ConfirmedHasLanded

LEMMA MovesOn ==
    ASSUME ApplyInv, turn \in Turns, NEW pc \in {"confirm", "done", "verify"},
           turn' = [turn EXCEPT !.pc = pc], edited' = edited, locked' = locked, cached' = cached,
           Posting, roster' \in Rosters, fill' = fill,
           drifted \subseteq drifted', drifted' \subseteq Copies, FillIsTrue',
           pc = "confirm" => roster' = roster
    PROVE  ApplyInv'
<1>1. /\ turn' \in Turns /\ turn'.pc = pc /\ turn'.raw = turn.raw /\ turn'.attempt = turn.attempt
      /\ turn'.plan = turn.plan /\ turn'.kept = turn.kept /\ turn'.excl = turn.excl
      /\ turn'.confirmed = turn.confirmed
  BY DEF Turns
<1>2. ApplyTypeOK' /\ ~turn.confirmed
  BY <1>1, TurnIsRecord, TurnFields DEF ApplyInv, ApplyTypeOK, PayloadIsThePlan, Posting
<1> QED BY <1>1, <1>2, TurnIsRecord
        DEF ApplyInv, CopyIsTrue, RawIsTrue, PayloadIsThePlan, ConfirmedHasLanded, Posting

LEMMA AcceptedKeeps ==
    ASSUME ApplyInv, NEW lands \in BOOLEAN, Accepted(lands)
    PROVE  ApplyInv'
<1>1. turn \in Turns /\ roster \in Rosters
  BY TurnIsRecord DEF ApplyInv, Accepted, Posting, ApplyTypeOK
<1>2. roster' \in Rosters
  BY <1>1, PayloadIsPlaced DEF Accepted
<1>3. PICK pc \in {"confirm", "done", "verify"} :
        pc = (IF turn.excl = {} THEN "done" ELSE "verify")
  OBVIOUS
<1>4. /\ fill' = fill /\ drifted' = drifted \cup (IF lands THEN Unsaved ELSE {})
      /\ ~lands => roster' = roster
  BY DEF Accepted
<1>5. drifted \subseteq drifted' /\ drifted' \subseteq Copies
  BY <1>4, UnsavedAreCopies DEF ApplyInv, ApplyTypeOK
<1>6. FillIsTrue'
  BY <1>4, UnsavedAreCopies DEF ApplyInv, FillIsTrue
<1> QED BY <1>1, <1>2, <1>3, <1>4, <1>5, <1>6, MovesOn DEF Accepted

LEMMA PleaseConfirmKeeps ==
    ASSUME ApplyInv, PleaseConfirm
    PROVE  ApplyInv'
<1>1. turn \in Turns /\ roster \in Rosters /\ Posting
  BY TurnIsRecord DEF ApplyInv, PleaseConfirm, Posting, ApplyTypeOK
<1>2. fill' = fill /\ drifted \subseteq drifted' /\ drifted' \subseteq Copies /\ FillIsTrue'
  BY DEF PleaseConfirm, ApplyInv, ApplyTypeOK, FillIsTrue
<1> QED BY <1>1, <1>2, MovesOn DEF PleaseConfirm

LEMMA RejectedKeeps ==
    ASSUME ApplyInv, Rejected
    PROVE  ApplyInv'
<1>1. ("cache" \notin drifted' /\ cached' # NoCopy => cached' = roster') /\ FillIsTrue'
  BY DEF ApplyInv, CopyIsTrue, FillIsTrue, Rejected, Posting
<1> QED BY <1>1, OverKeeps DEF ApplyInv, ApplyTypeOK, Rejected

Retried(t, k, e) == [t EXCEPT !.pc = "post", !.attempt = 2, !.excl = e, !.kept = k]

LEMMA RetryIsTurn ==
    ASSUME NEW t \in Turns, NEW k \in Payloads, NEW e \in SUBSET Squad
    PROVE  /\ Retried(t, k, e) \in Turns /\ Retried(t, k, e).pc = "post"
           /\ Retried(t, k, e).attempt = 2 /\ Retried(t, k, e).plan = t.plan
           /\ Retried(t, k, e).kept = k /\ Retried(t, k, e).excl = e
           /\ Retried(t, k, e).raw = t.raw /\ Retried(t, k, e).confirmed = t.confirmed
<1>1. PICK u : u = Retried(t, k, e)
  OBVIOUS
<1>2. /\ u.pc = "post" /\ u.attempt = 2 /\ u.plan = t.plan
      /\ u.kept = k /\ u.excl = e /\ u.raw = t.raw /\ u.confirmed = t.confirmed
  BY <1>1 DEF Retried, Turns
<1>3. u = [pc |-> "post", attempt |-> 2, plan |-> t.plan, kept |-> k, raw |-> t.raw,
           excl |-> e, confirmed |-> t.confirmed]
  BY <1>1 DEF Retried, Turns
<1>4. u \in Turns
  BY <1>3, TurnFields DEF Turns, Payloads
<1> QED BY <1>1, <1>2, <1>4

LEMMA RejectedLockedKeeps ==
    ASSUME ApplyInv, NEW names \in SUBSET locked, RejectedLocked(names)
    PROVE  ApplyInv'
<1>1. Posting /\ UNCHANGED <<roster, locked, cached, fill, drifted>>
  BY DEF RejectedLocked
<1>2. turn \in Turns /\ ApplyTypeOK /\ names \in SUBSET Squad
  BY <1>1, TurnIsRecord DEF ApplyInv, Posting, ApplyTypeOK
<1>3. CASE Over
  <2>1. ("cache" \notin drifted' /\ cached' # NoCopy => cached' = roster') /\ FillIsTrue'
    BY <1>1 DEF ApplyInv, CopyIsTrue, FillIsTrue, Posting
  <2> QED BY <1>1, <1>3, <2>1, OverKeeps DEF ApplyInv, ApplyTypeOK
<1>4. CASE ~Over
  <2>1. PICK ds \in Withdrawals(turn, names) :
          /\ turn.attempt = 1
          /\ GoesOn([turn EXCEPT !.pc = "post", !.attempt = 2, !.excl = names,
                       !.kept = [p \in Squad |-> IF p \in ds THEN Keep ELSE turn.kept[p]]])
    BY <1>4 DEF RejectedLocked
  <2>2. turn.kept = turn.plan /\ turn.plan \in Payloads /\ ~turn.confirmed
    BY <1>1, <1>2, <2>1, TurnFields DEF ApplyInv, PayloadIsThePlan, Posting
  <2>3. ds \in DropsFor(turn.plan, turn.raw, names)
    BY <2>1, <2>2 DEF DropsFor, Withdrawals, Stranded, Promotions
  <2>4. PICK k \in Payloads : k = Without(turn.plan, ds)
    BY <2>2, WithoutIsPlan
  <2>5. /\ turn' = [turn EXCEPT !.pc = "post", !.attempt = 2, !.excl = names,
                                !.kept = k]
        /\ edited' = edited
    BY <2>1, <2>2, <2>4 DEF GoesOn, Without
  <2>6. /\ turn' \in Turns /\ turn'.pc = "post" /\ turn'.attempt = 2 /\ turn'.plan = turn.plan
        /\ turn'.kept = k /\ turn'.excl = names
        /\ turn'.raw = turn.raw /\ turn'.confirmed = turn.confirmed
    <3>1. PICK t \in Turns : t = turn
      BY <1>2
    <3>2. turn' = Retried(t, k, names)
      BY <2>5, <3>1 DEF Retried
    <3> QED BY <1>2, <2>4, <3>1, <3>2, RetryIsTurn
  <2>7. ApplyTypeOK'
    BY <1>1, <1>2, <2>5, <2>6 DEF ApplyTypeOK
  <2>8. PayloadIsThePlan'
    BY <2>2, <2>3, <2>4, <2>6 DEF PayloadIsThePlan
  <2>9. CopyIsTrue' /\ FillIsTrue' /\ RawIsTrue' /\ ConfirmedHasLanded'
    BY <1>1, <2>2, <2>5, <2>6
       DEF ApplyInv, CopyIsTrue, FillIsTrue, RawIsTrue, ConfirmedHasLanded, Posting
  <2> QED BY <2>7, <2>8, <2>9 DEF ApplyInv
<1> QED BY <1>3, <1>4

LEMMA BrokenKeeps ==
    ASSUME ApplyInv, NEW lands \in BOOLEAN, Broken(lands)
    PROVE  ApplyInv'
<1>1. /\ turn # NoTurn /\ Over /\ UNCHANGED <<locked, cached, fill>>
      /\ drifted' = drifted \cup (IF lands THEN {"cache"} \cup Unsaved ELSE {})
                            \cup (IF turn.pc \in {"verify", "done"} THEN {"cache"} ELSE {})
      /\ ~lands => roster' = roster
  BY DEF Broken
<1>2. ApplyTypeOK /\ turn \in Turns /\ roster \in Rosters
  BY <1>1, TurnIsRecord DEF ApplyInv, ApplyTypeOK
<1>3. roster' \in Rosters
  BY <1>2, PayloadIsPlaced DEF Broken
<1>4. "cache" \notin drifted' /\ cached' # NoCopy => cached' = roster'
  BY <1>1 DEF ApplyInv, CopyIsTrue
<1>5. FillIsTrue' /\ drifted' \subseteq Copies
  BY <1>1, <1>2, UnsavedAreCopies DEF ApplyInv, ApplyTypeOK, FillIsTrue
<1> QED BY <1>1, <1>2, <1>3, <1>4, <1>5, OverKeeps

LEMMA VerifyKeeps ==
    ASSUME ApplyInv, NEW readable \in BOOLEAN, Verify(readable)
    PROVE  ApplyInv'
<1>1. /\ turn.pc = "verify" /\ UNCHANGED <<roster, locked, cached, fill>>
      /\ drifted' = drifted \cup (IF readable /\ Unmet(turn) # {} THEN {"cache"} ELSE {})
  BY DEF Verify
<1>2. ApplyTypeOK /\ turn \in Turns /\ roster \in Rosters /\ drifted' \subseteq Copies /\ FillIsTrue'
  BY <1>1, TurnIsRecord DEF ApplyInv, ApplyTypeOK, FillIsTrue, Copies
<1>3. CASE readable /\ Unmet(turn) # {}
  <2>1. Over /\ "cache" \in drifted'
    BY <1>1, <1>3 DEF Verify
  <2> QED BY <1>1, <1>2, <2>1, OverKeeps
<1>4. CASE ~(readable /\ Unmet(turn) # {})
  <2>1. /\ turn' = [turn EXCEPT !.pc = "done", !.confirmed = readable] /\ edited' = edited
        /\ drifted' = drifted
    BY <1>1, <1>2, <1>4 DEF Verify, GoesOn
  <2>2. /\ turn' \in Turns /\ turn'.pc = "done" /\ turn'.raw = turn.raw
        /\ turn'.attempt = turn.attempt /\ turn'.plan = turn.plan /\ turn'.kept = turn.kept
        /\ turn'.excl = turn.excl /\ turn'.confirmed = readable
    BY <1>2, <2>1 DEF Turns
  <2>3. ApplyTypeOK'
    BY <1>1, <1>2, <2>1, <2>2 DEF ApplyTypeOK
  <2>4. ConfirmedHasLanded'
    BY <1>1, <1>4, <2>2 DEF ConfirmedHasLanded, Unmet
  <2>5. PayloadIsThePlan'
    BY <1>1, <2>2 DEF ApplyInv, PayloadIsThePlan
  <2> QED BY <1>1, <1>2, <2>1, <2>2, <2>3, <2>4, <2>5 DEF ApplyInv, CopyIsTrue, RawIsTrue, Posting
<1> QED BY <1>3, <1>4

LEMMA InvalidateKeeps ==
    ASSUME ApplyInv, NEW ok \in BOOLEAN, Invalidate(ok)
    PROVE  ApplyInv'
<1>1. /\ Over /\ UNCHANGED <<roster, locked, fill>>
      /\ drifted' = IF ok THEN drifted \ {"cache"} ELSE drifted \cup {"cache"}
  BY DEF Invalidate
<1>2. cached' = IF ok THEN NoCopy ELSE cached
  BY DEF Invalidate
<1>3. FillIsTrue' /\ drifted' \subseteq Copies
  BY <1>1 DEF ApplyInv, ApplyTypeOK, FillIsTrue, Copies
<1> QED BY <1>1, <1>2, <1>3, OverKeeps DEF ApplyInv, ApplyTypeOK

LEMMA ApplyStutters == ApplyInv /\ UNCHANGED applyVars => ApplyInv'
  BY DEF ApplyInv, ApplyTypeOK, CopyIsTrue, FillIsTrue, RawIsTrue, PayloadIsThePlan,
         ConfirmedHasLanded, Posting, applyVars

LEMMA StepApply == ApplyInv /\ [ApplyNext]_applyVars => ApplyInv'
<1> SUFFICES ASSUME ApplyInv, [ApplyNext]_applyVars PROVE ApplyInv'
  OBVIOUS
<1>1. CASE UNCHANGED applyVars
  BY <1>1, ApplyStutters
<1>2. CASE \E p \in Squad : GameStarts(p) \/ \E pos \in Positions : HandEdit(p, pos)
  BY <1>2, GameStartsKeeps, HandEditKeeps
<1>3. CASE CacheExpires \/ Miss \/ FetchRoster \/ FetchRaw \/ PleaseConfirm \/ Rejected
  BY <1>3, CacheExpiresKeeps, MissKeeps, FetchRosterKeeps, FetchRawKeeps, PleaseConfirmKeeps,
     RejectedKeeps
<1>4. CASE \E want \in Rosters : Optimize(want) \/ \E ok \in BOOLEAN : SaveAndOptimize(ok, want)
  BY <1>4, OptimizeKeeps, SaveAndOptimizeKeeps
<1>5. CASE \E names \in SUBSET locked : RejectedLocked(names)
  BY <1>5, RejectedLockedKeeps
<1>6. CASE \E ok \in BOOLEAN :
             SaveOnly(ok) \/ Accepted(ok) \/ Broken(ok) \/ Verify(ok) \/ Invalidate(ok)
  BY <1>6, SaveOnlyKeeps, AcceptedKeeps, BrokenKeeps, VerifyKeeps, InvalidateKeeps
<1> QED BY <1>1, <1>2, <1>3, <1>4, <1>5, <1>6 DEF ApplyNext

(* Every reachable state of the lineup write is well typed: no write, no edit  *)
(* and no retry fills a slot beyond its capacity (apply_lineup.go).            *)
THEOREM ApplyTypeCorrect == ApplySpec => []ApplyTypeOK
<1>1. ApplyInv => ApplyTypeOK
  BY DEF ApplyInv
<1> QED BY <1>1, InitApply, StepApply, PTL DEF ApplySpec

(* Between runs the cached roster is the real one, unless the manager edited,  *)
(* the invalidation failed, the outcome of a write was never learnt or a fetch *)
(* from before a write was saved after it: for any squad, slots and capacities *)
(* (GetOrFetch, InvalidatePeriodRosterCache).                                  *)
THEOREM CacheIsTrustworthy == ApplySpec => []CacheAgrees
<1>1. ApplyInv => CacheAgrees
  <2> SUFFICES ASSUME ApplyInv, turn = NoTurn, cached # NoCopy, "cache" \notin drifted
                PROVE  cached = roster
    BY DEF CacheAgrees
  <2> QED BY TurnIsRecord DEF ApplyInv, CopyIsTrue
<1> QED BY <1>1, InitApply, StepApply, PTL DEF ApplySpec

(* The retry without the locked players asks for a lineup that exists, and     *)
(* what it reports as applied after its verification has landed               *)
(* (dropStrandedActivations, verifyExcludedRetry).                             *)
THEOREM RetriesKeepTheirWord == ApplySpec => []RetryKeepsItsWord
<1>1. ApplyInv => RetryKeepsItsWord
  <2> SUFFICES ASSUME ApplyInv PROVE RetryKeepsItsWord
    OBVIOUS
  <2>1. ASSUME turn # NoTurn, turn.attempt = 2, MembershipOnly(turn), Fits(FirstPayload(turn))
        PROVE  Fits(FieldMap(turn))
    <3>1. turn \in Turns /\ turn.pc # "idle"
      BY <2>1, TurnIsRecord DEF ApplyInv
    <3>2. PICK plan \in Payloads, raw \in Rosters, e \in SUBSET Squad :
            plan = turn.plan /\ raw = turn.raw /\ e = turn.excl
      BY <3>1, TurnFields
    <3>3. PICK ds \in DropsFor(plan, raw, e) : turn.kept = Without(plan, ds)
      BY <2>1, <3>1, <3>2 DEF ApplyInv, PayloadIsThePlan
    <3>4. PromotesOnly(plan, raw)
      BY <2>1, <3>2 DEF MembershipOnly, PromotesOnly
    <3>5. Fits(Sent(plan, {}, raw))
      BY <2>1, <3>1, <3>2, TurnFields
    <3>6. Fits(Sent(Without(plan, ds), e, raw))
      BY <3>2, <3>3, <3>4, <3>5, RetryStaysLegal
    <3> QED BY <3>1, <3>2, <3>3, <3>6, TurnFields
  <2> QED BY <2>1 DEF ApplyInv, RetryKeepsItsWord, RetryFits
<1> QED BY <1>1, InitApply, StepApply, PTL DEF ApplySpec

LEMMA WriteMovesThePlan ==
    ASSUME ApplyInv, [ApplyNext]_applyVars, Posting, NEW p \in Squad, roster'[p] # roster[p]
    PROVE  p \in Moves(turn.kept, turn.excl) \cup edited \cup edited'
<1>1. ApplyTypeOK /\ turn # NoTurn /\ roster \in [Squad -> Positions]
  BY TurnIsRecord DEF ApplyInv, Posting, ApplyTypeOK, Rosters
<1>2. ASSUME NEW q \in Squad, NEW pos \in Positions, HandEdit(q, pos)
      PROVE  p \in edited'
  BY <1>1, <1>2 DEF HandEdit
<1>3. ASSUME roster' = FieldMap(turn)
      PROVE  p \in Moves(turn.kept, turn.excl) \cup edited
  BY <1>3, PayloadMoves
<1>4. roster' = roster \/ roster' = FieldMap(turn)
        \/ \E q \in Squad, pos \in Positions : HandEdit(q, pos)
  BY DEF ApplyNext, applyVars, GameStarts, CacheExpires, Miss, FetchRoster, FetchRaw, PleaseConfirm,
         Rejected, Optimize, Save, SaveOnly, SaveAndOptimize, RejectedLocked, Accepted, Broken, Verify, Invalidate
<1> QED BY <1>2, <1>3, <1>4

(* A payload names the whole squad, yet moves none but the players of its plan *)
(* and those the manager moved while it was on its way (buildFieldMapWithMods). *)
THEOREM PayloadsLeaveBystandersAlone == ApplySpec => BystandersStay
<1>1. ApplyInv /\ [ApplyNext]_applyVars
        => [Posting /\ turn'.pc # "fetch" =>
              \A p \in Squad : roster'[p] # roster[p] =>
                 p \in Moves(turn.kept, turn.excl) \cup edited \cup edited']_applyVars
  BY WriteMovesThePlan
<1> QED BY <1>1, InitApply, StepApply, PTL DEF ApplySpec, BystandersStay
-----------------------------------------------------------------------------
(* The jobs together: a behaviour runs the part it took, on the invariant that *)
(* part was proved by, and the other parts rest.                               *)

JobsInv ==
    /\ part \in Parts
    /\ part = "launch"    => LaunchInv
    /\ part = "grade"     => GradeInv
    /\ part = "alerts"    => AlertInv
    /\ part = "pickups"   => PickupInv
    /\ part = "apply"     => ApplyInv
    /\ part = "capture"   => CaptureInv
    /\ part = "gate"      => GateInv
    /\ part = "optimizer" => LineupInv
    /\ part = "tally"     => TallyInv
    /\ part = "snapshots" => WalksInv

LEMMA InitJobs == JobsInit => JobsInv
<1>1. ASSUME JobsInit
      PROVE  /\ part \in Parts
             /\ LaunchInit /\ GradeInit /\ CaptureInit /\ SnapshotsInit
             /\ AlertInit /\ PickupInit /\ TallyInit /\ ApplyInit
             /\ part = "gate" => GateInit
             /\ part = "optimizer" => OptimizerInit
  BY <1>1 DEF JobsInit, PickupInstance
<1> QED BY <1>1, InitLaunch, InitGrade, InitCapture, InitWalks, InitAlerts, InitPickups,
           InitBalanced, InitApply, InitWellSpent, InitIsBest DEF JobsInv

LEMMA StepJobs == JobsInv /\ [JobsNext]_jobVars => JobsInv'
<1> SUFFICES ASSUME JobsInv, [JobsNext]_jobVars PROVE JobsInv'
  OBVIOUS
<1>1. part' = part
  BY DEF JobsNext, jobVars
\* A step of the run is one of its part, or none.
<1>2. /\ part = "launch" => [LaunchNext]_launchVars
      /\ part = "grade" => [GradeNext]_gradeVars
      /\ part = "alerts" => [AlertNext]_alertVars
      /\ part = "pickups" => [PickupNext]_pickupVars
      /\ part = "apply" => [ApplyNext]_applyVars
      /\ part = "capture" => [CaptureNext]_captureVars
      /\ part = "gate" => [GateNext]_gateVars
      /\ part = "optimizer" => [OptimizerNext]_optimizerVars
      /\ part = "tally" => [TallyNext]_tallyVars
      /\ part = "snapshots" => [SnapshotsNext]_snapshotVars
  BY DEF JobsNext, jobVars
<1>3. part = "launch" => LaunchInv'
  BY <1>2, StepLaunch DEF JobsInv
<1>4. part = "grade" => GradeInv'
  BY <1>2, StepGrade DEF JobsInv
<1>5. part = "alerts" => AlertInv'
  BY <1>2, StepAlerts DEF JobsInv
<1>6. part = "pickups" => PickupInv'
  BY <1>2, StepPickups DEF JobsInv
<1>7. part = "apply" => ApplyInv'
  BY <1>2, StepApply DEF JobsInv
<1>8. part = "capture" => CaptureInv'
  BY <1>2, StepCapture DEF JobsInv
<1>9. part = "gate" => GateInv'
  BY <1>2, StepWellSpent DEF JobsInv
<1>10. part = "optimizer" => LineupInv'
  BY <1>2, StepIsBest DEF JobsInv
<1>11. part = "tally" => TallyInv'
  BY <1>2, StepBalanced DEF JobsInv
<1>12. part = "snapshots" => WalksInv'
  BY <1>2, StepWalks DEF JobsInv
<1> QED BY <1>1, <1>3, <1>4, <1>5, <1>6, <1>7, <1>8, <1>9, <1>10, <1>11, <1>12 DEF JobsInv

(* Whichever part is run, its state is of its type, for any constants it is    *)
(* instantiated with (the jobs of cmd, and the launch that starts them).       *)
THEOREM JobsTypeCorrect == JobsSpec => []JobsTypeOK
<1>1. ASSUME JobsInv PROVE JobsTypeOK
  <2>1. CASE part = "launch"
    BY <1>1, <2>1 DEF JobsInv, LaunchInv, JobsTypeOK
  <2>2. CASE part = "grade"
    BY <1>1, <2>2 DEF JobsInv, GradeInv, JobsTypeOK
  <2>3. CASE part = "alerts"
    BY <1>1, <2>3 DEF JobsInv, AlertInv, JobsTypeOK
  <2>4. CASE part = "pickups"
    BY <1>1, <2>4 DEF JobsInv, PickupInv, JobsTypeOK
  <2>5. CASE part = "apply"
    BY <1>1, <2>5 DEF JobsInv, ApplyInv, JobsTypeOK
  <2>6. CASE part = "capture"
    BY <1>1, <2>6 DEF JobsInv, CaptureInv, JobsTypeOK
  <2>7. CASE part = "gate"
    BY <1>1, <2>7 DEF JobsInv, GateInv, JobsTypeOK
  <2>8. CASE part = "optimizer"
    BY <1>1, <2>8 DEF JobsInv, LineupInv, JobsTypeOK
  <2>9. CASE part = "tally"
    BY <1>1, <2>9 DEF JobsInv, TallyInv, JobsTypeOK
  <2>10. CASE part = "snapshots"
    BY <1>1, <2>10 DEF JobsInv, WalksInv, JobsTypeOK
  <2> QED BY <1>1, <2>1, <2>2, <2>3, <2>4, <2>5, <2>6, <2>7, <2>8, <2>9, <2>10, PartsAssumption DEF JobsInv, PartNames
<1> QED BY <1>1, InitJobs, StepJobs, PTL DEF JobsSpec
=============================================================================
