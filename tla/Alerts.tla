------------------------------- MODULE Alerts -------------------------------
(***************************************************************************)
(* alertmarker's check -> send -> mark, over a marker store and a push that  *)
(* both may fail, and the jobs that use it: the lineup's starts, the trades,  *)
(* the apply failures and the stale cache.  Keys share nothing, so a          *)
(* behaviour is about one key of one of these sites.                           *)
(***************************************************************************)
EXTENDS Naturals

CONSTANTS
    Sites,       \* a subset of {"start", "trade", "apply", "cache"}
    AlertRuns,   \* runs of the job at a time
    Texts,       \* the errors an apply can fail with
    Event,       \* the note of a start or a trade
    Unpriced,    \* the note of a trade that was marked without alert
    Absent,      \* no marker under the key
    Cleared,     \* a marker with an empty body
    TradeWindow, \* staleTradeWindow: days a completed trade is news
    MaxDay       \* bound on the days of a behaviour

ASSUME AlertAssumption ==
    /\ Sites \subseteq {"start", "trade", "apply", "cache"}
    /\ Event \notin Texts /\ Unpriced \notin Texts \cup {Event}
    /\ {Absent, Cleared} \cap (Texts \cup {Event, Unpriced}) = {} /\ Absent # Cleared
    /\ {Unpriced, Absent, Cleared} \cap ((1..MaxDay) \X (1..MaxDay)) = {}
    /\ MaxDay \in Nat \ {0} /\ TradeWindow \in Nat

VARIABLES
    site,       \* whose key it is
    marker,     \* the marker under the key
    push,       \* run -> how far it is with the key
    day,        \* the ET day
    fetchedAt,  \* the day of the cached copy
    last,       \* history: what the operator heard last; Cleared, at an end
    slipped,    \* history: the marker may not say what the operator heard
    muted,      \* history: a run kept quiet about something nobody had heard
    repeated    \* history: a run told what had just been told

alertVars == <<site, marker, push, day, fetchedAt, last, slipped, muted, repeated>>

\* A cache alert is about the copy and the day; the others name themselves.
Episode(f, d) == <<f, d>>
AlertDays == 1..MaxDay
Notes == Texts \cup {Event, Unpriced, Cleared} \cup (AlertDays \X AlertDays)
NotPushing == [pc |-> "idle", note |-> Absent]
PushStates == {"send", "mark", "save"}

AlertTypeOK ==
    /\ site \in Sites /\ marker \in Notes \cup {Absent}
    /\ push \in [AlertRuns -> [pc : PushStates, note : Notes] \cup {NotPushing}]
    /\ day \in AlertDays /\ fetchedAt \in 1..day
    /\ last \in Notes /\ slipped \in BOOLEAN
    /\ muted \subseteq {"clean", "slipped"} /\ repeated \subseteq {"clean", "slipped"}

AlertInit ==
    /\ site \in Sites /\ marker = Absent
    /\ push = [r \in AlertRuns |-> NotPushing]
    /\ day = 1 /\ fetchedAt = 1 /\ last = Cleared
    /\ slipped = FALSE /\ muted = {} /\ repeated = {}

-----------------------------------------------------------------------------
(* The marker *)

\* A marker that cannot be read is no marker.
Token(readable) == IF readable THEN marker ELSE Absent
Alone(r) == \A o \in AlertRuns \ {r} : push[o] = NotPushing

Goto(r, pc, n) == push' = [push EXCEPT ![r] = [pc |-> pc, note |-> n]]
Leave(r) == push' = [push EXCEPT ![r] = NotPushing]

\* A run takes the key up: from here on the marker may be out of step if it
\* cannot be read or another run is at it.
Looked(r, readable) == slipped \/ ~readable \/ ~Alone(r)
Tainted(is) == IF is THEN "slipped" ELSE "clean"

\* Keeping quiet, and going on to send.
Skip(r, n, readable) ==
    /\ push[r] = NotPushing /\ slipped' = Looked(r, readable)
    /\ muted' = IF last = n THEN muted ELSE muted \cup {Tainted(slipped')}
    /\ UNCHANGED <<site, marker, push, day, fetchedAt, last, repeated>>

GoOn(r, pc, n, readable) ==
    /\ push[r] = NotPushing /\ Goto(r, pc, n) /\ slipped' = Looked(r, readable)
    /\ UNCHANGED <<site, marker, day, fetchedAt, last, muted, repeated>>

SendOnce(r, n, readable) ==
    IF Token(readable) # Absent THEN Skip(r, n, readable) ELSE GoOn(r, "send", n, readable)

SendOnChange(r, n, readable) ==
    IF Token(readable) = n THEN Skip(r, n, readable) ELSE GoOn(r, "send", n, readable)

Heard(n) ==
    /\ last' = n
    /\ repeated' = IF last = n THEN repeated \cup {Tainted(slipped)} ELSE repeated

\* A failed send marks nothing; but the cache's Notify has no way to say that
\* it failed.  Mutant: whatever the send said, the marker is written.
MutSend(r, ok) ==
    /\ push[r].pc = "send"
    /\ IF ok THEN Heard(push[r].note) ELSE UNCHANGED <<last, repeated>>
    /\ Goto(r, "mark", push[r].note)
    /\ slipped' = (slipped \/ (~ok /\ site = "cache"))
    /\ UNCHANGED <<site, marker, day, fetchedAt, muted>>

Send(r, ok) ==
    /\ push[r].pc = "send"
    /\ IF ok THEN Heard(push[r].note) ELSE UNCHANGED <<last, repeated>>
    /\ IF ok \/ site = "cache" THEN Goto(r, "mark", push[r].note) ELSE Leave(r)
    /\ slipped' = (slipped \/ (~ok /\ site = "cache"))
    /\ UNCHANGED <<site, marker, day, fetchedAt, muted>>

\* A failed write is only logged.
Record(r, ok) ==
    LET n == push[r].note
    IN  /\ push[r].pc = "mark"
        /\ marker' = IF ok THEN n ELSE marker
        /\ slipped' = IF ok /\ Alone(r) /\ n \in {last, Unpriced} THEN FALSE ELSE slipped \/ ~ok
        /\ IF site = "cache" /\ n = Cleared THEN Goto(r, "save", n) ELSE Leave(r)
        /\ UNCHANGED <<site, day, fetchedAt, last, muted, repeated>>

\* The task is stopped; after a push the marker is missing.
RunDies(r) ==
    /\ push[r] # NotPushing /\ Leave(r)
    /\ slipped' = (slipped \/ push[r].pc = "mark")
    /\ UNCHANGED <<site, marker, day, fetchedAt, last, muted, repeated>>

-----------------------------------------------------------------------------
(* The sites *)

\* An announced start of a player on IL, and a week short of starts: the key
\* names the event.
ReportStart(r, readable) == site = "start" /\ SendOnce(r, Event, readable)

\* A completed trade; one that is too old and unmarked is marked and not told.
PollTrade(r, readable) ==
    /\ site = "trade"
    /\ IF day > TradeWindow /\ Token(readable) = Absent THEN GoOn(r, "mark", Unpriced, readable)
       ELSE IF marker = Unpriced /\ readable THEN UNCHANGED alertVars
       ELSE SendOnce(r, Event, readable)

\* An apply of the date's lineup fails, or it lands and ends the episode.
ApplyFails(r, n, readable) == site = "apply" /\ SendOnChange(r, n, readable)

ApplyLands(r, readable) ==
    /\ site = "apply" /\ push[r] = NotPushing
    /\ last' = Cleared
    /\ IF Token(readable) \in {Absent, Cleared} THEN UNCHANGED push ELSE Goto(r, "mark", Cleared)
    /\ slipped' = Looked(r, readable)
    /\ UNCHANGED <<site, marker, day, fetchedAt, muted, repeated>>

\* A fetch fails and the copy of fetchedAt is served: worth a push once it is
\* more than 24 hours old, which is from the next day on.
ServeStale(r, readable) ==
    /\ site = "cache" /\ day > fetchedAt
    /\ SendOnChange(r, Episode(fetchedAt, day), readable)

\* A fetch succeeds: the recovery is told and the marker cleared before the
\* fresh copy is saved.  Mutant: the marker is deleted instead.
MutDeletes(r, readable) ==
    /\ site = "cache"
    /\ GoOn(r, IF Token(readable) \in {Absent, Cleared} THEN "save" ELSE "send", Absent, readable)

FetchFresh(r, readable) ==
    /\ site = "cache"
    /\ GoOn(r, IF Token(readable) \in {Absent, Cleared} THEN "save" ELSE "send", Cleared, readable)

SaveFresh(r, ok) ==
    /\ push[r].pc = "save" /\ Leave(r)
    /\ fetchedAt' = IF ok THEN day ELSE fetchedAt
    /\ UNCHANGED <<site, marker, day, last, slipped, muted, repeated>>

Midnight ==
    /\ site \in {"cache", "trade"} /\ day < MaxDay
    /\ day' = day + 1
    /\ UNCHANGED <<site, marker, push, fetchedAt, last, slipped, muted, repeated>>

AlertNext ==
    \/ Midnight
    \/ \E r \in AlertRuns, ok \in BOOLEAN :
          \/ ReportStart(r, ok) \/ PollTrade(r, ok) \/ ApplyLands(r, ok)
          \/ ServeStale(r, ok) \/ FetchFresh(r, ok)
          \/ Send(r, ok) \/ Record(r, ok) \/ SaveFresh(r, ok)
    \/ \E r \in AlertRuns, n \in Texts, ok \in BOOLEAN : ApplyFails(r, n, ok)
    \/ \E r \in AlertRuns : RunDies(r)

AlertSpec == AlertInit /\ [][AlertNext]_alertVars

-----------------------------------------------------------------------------
(* Properties *)

(* A run keeps quiet only about what the operator heard last, and nobody is   *)
(* told the same thing twice in a row, nor a recovery of nothing: unless a     *)
(* marker could not be read or written, a run died after its push, two runs    *)
(* were at the key at once, or a cache push was lost.  And "a failed send must *)
(* retry, never go silent": starts and trades have no clear to fail, so there  *)
(* nothing at all mutes an alert (alertmarker.go).                             *)
AlertsHadCause ==
    /\ "clean" \notin muted \cup repeated
    /\ site \in {"start", "trade"} => muted = {}

(* "Every marker-store failure degrades to a duplicate alert, never to        *)
(* silence", with one run at a time: an apply failure that starts a new       *)
(* episode is told.                                                           *)
NewEpisodeIsTold == site = "apply" => muted = {}
=============================================================================
