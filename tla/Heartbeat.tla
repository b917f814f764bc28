----------------------------- MODULE Heartbeat ------------------------------
(***************************************************************************)
(* The heartbeat: every few hours it asks of a scheduled command whether it  *)
(* ran recently enough, for each tenant it is asserted on, and tells the     *)
(* operator once per outage.  What was told is a token under one marker per  *)
(* (command, tenant): the newest run at the time.  Overdue judges every      *)
(* command alike and on its own, so the module follows one; whether it fans  *)
(* out to the tenants is chosen at the start.                                *)
(***************************************************************************)
EXTENDS Naturals, FiniteSets

CONSTANTS
    Users,       \* tenants
    Untagged,    \* the empty user id: a rule's own task, or the token's
    MaxGap,      \* ticks the command may go without a launch
    Horizon,     \* ticks the ledger is read back: twice the longest MaxGap
    MaxLate      \* ticks in a row without a heartbeat that told everything

ASSUME HeartbeatAssumption ==
    /\ Untagged \notin Users
    /\ MaxGap \in Nat \ {0} /\ Horizon \in Nat /\ Horizon >= 2 * MaxGap
    /\ MaxLate \in Nat /\ MaxLate <= Horizon - MaxGap

Ids == Users \cup {Untagged}
Gone == Horizon + 1      \* the age of a run out of the ledger's reach, or of none

VARIABLES
    perTenant,    \* whether the command fans out
    age,          \* id -> ticks since its newest run
    marker,       \* id -> the token of its last alert
    roster,       \* the tenants the dispatcher published last
    beat,         \* the heartbeat in progress: id -> the token it judged
    overtaken,    \* ids it has yet to tell that ran since it judged them
    sound,        \* whether that heartbeat had no failure so far
    late,         \* ticks since a heartbeat had none
    told,         \* history: id -> alerts since its newest run
    shaky         \* history: ids since then told without their newest record, or
                  \* with a failed marker or a lost answer

beatVars == <<perTenant, age, marker, roster, beat, overtaken, sound, late, told, shaky>>

(* A run id, as seen from the newest run of the job: that run, the one before *)
(* it, or any other ("none" included: AlertToken of a job without a run).     *)
Tokens == {"this", "prior", "older"}
Outdated(tok) == CASE tok = "this" -> "prior" [] tok = "prior" -> "older" [] OTHER -> tok

HeartbeatTypeOK ==
    /\ perTenant \in BOOLEAN /\ sound \in BOOLEAN
    /\ age \in [Ids -> 0..Gone]
    /\ marker \in [Ids -> Tokens \cup {"never"}]
    /\ roster \subseteq Users
    /\ beat \in [Ids -> Tokens \cup {"no", "none"}] /\ overtaken \subseteq Ids
    /\ late \in 0..MaxLate
    /\ told \in [Ids -> 0..2] /\ shaky \subseteq Ids

HeartbeatInit ==
    /\ perTenant \in BOOLEAN
    /\ age = [u \in Ids |-> Gone]
    /\ marker = [u \in Ids |-> "never"]
    /\ roster = {}
    /\ beat = [u \in Ids |-> "no"] /\ overtaken = {} /\ sound = TRUE
    /\ late = 0
    /\ told = [u \in Ids |-> 0] /\ shaky = {}

Beating == \E u \in Ids : beat[u] # "no"

-----------------------------------------------------------------------------
(* Overdue *)

InLedger(u) == age[u] <= Horizon

\* The newest run of each id that a read of the ledger found.  A record that
\* cannot be read is left out (fetch), and an earlier run, of whatever age, or
\* none stands for the newest.
Reads == {read \in [Ids -> Tokens \cup {"fresh", "none"}] :
            \A u \in Ids : /\ read[u] # "none" => InLedger(u)
                           /\ read[u] = "fresh" => age[u] <= MaxGap}
Whole == [u \in Ids |-> IF InLedger(u) THEN "this" ELSE "none"]

\* Whom the command is asserted on: the ids seen in the ledger, joined for a
\* command that fans out by the roster; when there is nobody, the empty id.
Asserted(list, seen) ==
    LET all == IF perTenant THEN seen \cup list ELSE seen
    IN  IF all = {} THEN {Untagged} ELSE all

\* "fresh" is an earlier run within the gap.
OverdueBy(list, read) ==
    {u \in Asserted(list, {w \in Ids : read[w] # "none"}) :
        /\ read[u] # "fresh"
        /\ read[u] = "this" => age[u] > MaxGap}
Overdue(list) == OverdueBy(list, Whole)

\* Mutant: what was told is any other run, in reach or not.
MutAnyOtherRun(tok, prev) == prev = "never" \/ prev # tok

\* Mutant: a job without a run is never news.
MutNoRunIsNoNews(tok, prev) == tok # "none" /\ (prev = "never" \/ prev # tok)

\* Missed.NeedsAlert: "none" is a job whose newest run is out of reach.
NeedsAlert(tok, prev) == prev = "never" \/ (tok # "none" /\ prev # tok)

-----------------------------------------------------------------------------
(* One heartbeat *)

\* The ledger and the roster are read once; a roster that cannot be read is
\* empty.  (A ledger that cannot be listed is an error: no heartbeat at all.)
Beat(list, read, readable) ==
    LET dark == OverdueBy(list, read)
    IN  /\ ~Beating
        /\ beat' = [u \in Ids |-> IF u \in dark THEN read[u] ELSE "no"]
        /\ overtaken' = {}
        /\ sound' = (readable /\ read = Whole)
        /\ late' = IF dark = {} /\ sound' THEN 0 ELSE late
        /\ UNCHANGED <<perTenant, age, marker, roster, told, shaky>>

\* The token recorded is the judged one, which a run may have outdated.
Recorded(tok) == IF tok = "none" THEN "older" ELSE tok

\* Is what was judged of u about an earlier run than its newest?
Misjudged(u) == u \notin overtaken /\ InLedger(u) /\ beat[u] # "this"

\* One id: its token is read, the push sent, the marker written.  A marker
\* that cannot be read counts as none, and a failed send is only logged.  Of two
\* runs further back it is open whether they are one.
Tell(u, readOk, send, writeOk) ==
    LET prev == IF readOk THEN marker[u] ELSE "never"
        pushed == send \in {"ok", "lost"}
    IN  /\ beat[u] # "no"
        /\ (beat[u] = "older" /\ prev = "older") \/ (send = "none" <=> ~NeedsAlert(beat[u], prev))
        /\ marker' = IF send = "ok" /\ writeOk
                     THEN [marker EXCEPT ![u] = Recorded(beat[u])] ELSE marker
        /\ told' = IF pushed /\ u \notin overtaken /\ told[u] < 2
                   THEN [told EXCEPT ![u] = @ + 1] ELSE told
        /\ shaky' = IF readOk /\ writeOk /\ send # "lost" /\ ~(pushed /\ Misjudged(u))
                    THEN shaky ELSE shaky \cup {u}
        /\ beat' = [beat EXCEPT ![u] = "no"]
        /\ overtaken' = overtaken \ {u}
        /\ sound' = (sound /\ send \in {"ok", "none"})
        /\ late' = IF sound' /\ \A w \in Ids : beat'[w] = "no" THEN 0 ELSE late
        /\ UNCHANGED <<perTenant, age, roster>>

-----------------------------------------------------------------------------
(* What it watches *)

\* A task of the command writes its RUNNING record: scheduled, or launched by
\* hand with the same arguments, which tags it with the one who launched it.
Run(u) ==
    /\ u \notin overtaken
    /\ age' = [age EXCEPT ![u] = 0]
    /\ marker' = [marker EXCEPT ![u] = Outdated(@)]
    /\ beat' = [beat EXCEPT ![u] = Outdated(@)]
    /\ overtaken' = IF beat[u] = "no" THEN overtaken ELSE overtaken \cup {u}
    /\ told' = [told EXCEPT ![u] = 0] /\ shaky' = shaky \ {u}
    /\ UNCHANGED <<perTenant, roster, sound, late>>

\* A dispatcher publishes the tenants it is about to launch (Dispatch!Publish);
\* of a command that does not fan out nobody looks at them.
PublishRoster(list) ==
    /\ perTenant
    /\ roster' = list
    /\ UNCHANGED <<perTenant, age, marker, beat, overtaken, sound, late, told, shaky>>

\* Time passes between heartbeats, never more than MaxLate ticks without one
\* that got everything through.
BeatClock ==
    /\ ~Beating /\ late < MaxLate
    /\ late' = late + 1
    /\ age' = [u \in Ids |-> IF age[u] = Gone THEN Gone ELSE age[u] + 1]
    /\ UNCHANGED <<perTenant, marker, roster, beat, overtaken, sound, told, shaky>>

Telling == \E u \in Ids, r, w \in BOOLEAN, s \in {"ok", "lost", "failed", "none"} : Tell(u, r, s, w)

HeartbeatNext ==
    \/ \E read \in Reads : Beat(roster, read, TRUE) \/ Beat({}, read, FALSE)
    \/ Telling
    \/ \E u \in Ids : Run(u)
    \/ \E list \in SUBSET Users : PublishRoster(list)
    \/ BeatClock

\* A heartbeat gets through what it judged; and a whole read, and the push it
\* asks for, that are tried forever succeed in the end.
HeartbeatFairness ==
    /\ WF_beatVars(Telling)
    /\ SF_beatVars(Beat(roster, Whole, TRUE))
    /\ \A u \in Ids : SF_beatVars(/\ ~Misjudged(u)
                                  /\ \E r, w \in BOOLEAN, s \in {"ok", "none"} : Tell(u, r, s, w))

HeartbeatSpec == HeartbeatInit /\ [][HeartbeatNext]_beatVars /\ HeartbeatFairness

-----------------------------------------------------------------------------
(* Properties *)

(* An outage is told once, however long it lasts and even after its last run  *)
(* has left the ledger's reach, unless its marker failed, the answer to a     *)
(* push that got through was lost, or it was told of an earlier run because   *)
(* the record of the newest could not be read ("no outage twice").            *)
OneAlertPerOutage == \A u \in Ids : told[u] > 1 => u \in shaky

(* A job that has gone dark for somebody it is asserted on is told, every     *)
(* outage anew, or it runs again, or it is no longer asserted on him.         *)
DarkJobIsTold ==
    \A u \in Ids :
        u \in Overdue(roster) ~> (told[u] > 0 \/ u \notin Overdue(roster))

(* The heartbeat does not call a command overdue that ran within its gap: a   *)
(* command that does not fan out has nobody else's runs to wait for.          *)
RunningJobIsNotOverdue ==
    ~perTenant /\ age[Untagged] <= MaxGap => Overdue(roster) = {}
=============================================================================
