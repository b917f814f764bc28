----------------------------- MODULE Snapshots ------------------------------
(***************************************************************************)
(* The snapshots of the season's days that recap, grading and the lineup read *)
(* through the cache (fantrax/daily_fpts.go, pitcher_starts.go, cached.go).   *)
(* A day's totals settle upstream up to SettlingDays after it closed.  The    *)
(* entry of a day that can still change is served for a short time, that of   *)
(* any other day for ever; and which of the two it is, the reader decides,    *)
(* not the one who wrote it.  A range is walked day by day, each day a read,  *)
(* a fetch if that misses, and a write.                                       *)
(***************************************************************************)
EXTENDS Naturals

CONSTANTS
    SnapDays,              \* the days a walk may cover, 1 to SnapDays
    Walks,                 \* runs at a time
    recentPeriodLookback,  \* closed days that may still change
    SettlingDays,          \* days the totals of a closed day need to settle
    MaxPeriod              \* bound: the last current day

ASSUME SnapshotsAssumption ==
    /\ {SnapDays, recentPeriodLookback, SettlingDays, MaxPeriod} \subseteq Nat \ {0}
    /\ SettlingDays < recentPeriodLookback

VARIABLES
    curPeriod,   \* the current day of the season
    settled,     \* the days whose totals are final upstream
    entries,     \* day -> its cache entry, if any
    walks        \* run -> the range it still has to walk

snapshotVars == <<curPeriod, settled, entries, walks>>

Days == 1..SnapDays
\* An entry is fresh while it is not older than todayTTL.
Entries == [final : BOOLEAN, fresh : BOOLEAN]
NoEntry == [final |-> FALSE, fresh |-> FALSE, none |-> TRUE]

NotWalking == [pc |-> "idle"]
\* cur is the day the walk began, which it computes once; known is FALSE if it
\* could not read the season's range; got says if what it fetched is final.
WalkStates ==
    [pc : {"read", "save"}, day : Days, last : Days, cur : 1..MaxPeriod, known : BOOLEAN,
     got : BOOLEAN]

SnapshotsTypeOK ==
    /\ curPeriod \in 1..MaxPeriod
    /\ settled \subseteq Days
    /\ entries \in [Days -> Entries \cup {NoEntry}]
    /\ walks \in [Walks -> WalkStates \cup {NotWalking}]

SnapshotsInit ==
    /\ curPeriod = 1 /\ settled = {}
    /\ entries = [d \in Days |-> NoEntry]
    /\ walks = [w \in Walks |-> NotWalking]

\* Mutant: every closed day keeps for ever, as before the look-back.
MutPeriodIsVolatile(d, cur) == d >= cur

PeriodIsVolatile(d, cur) == d + recentPeriodLookback >= cur

\* FileCache.Get: an entry is judged by the age its reader allows.  A reader who
\* does not know the current day takes every day for one that changes.
Hit(w) ==
    /\ entries[walks[w].day] # NoEntry
    /\ ~walks[w].known \/ PeriodIsVolatile(walks[w].day, walks[w].cur)
         => entries[walks[w].day].fresh

BeginWalk(w, from, to, known) ==
    /\ walks[w] = NotWalking /\ from <= to /\ to <= curPeriod
    /\ walks' = [walks EXCEPT ![w] = [pc |-> "read", day |-> from, last |-> to, cur |-> curPeriod,
                                      known |-> known, got |-> FALSE]]
    /\ UNCHANGED <<curPeriod, settled, entries>>

Onward(w) ==
    IF walks[w].day = walks[w].last THEN NotWalking
    ELSE [walks[w] EXCEPT !.pc = "read", !.day = @ + 1]

ServeEntry(w) ==
    /\ walks[w] # NotWalking /\ walks[w].pc = "read"
    /\ Hit(w)
    /\ walks' = [walks EXCEPT ![w] = Onward(w)]
    /\ UNCHANGED <<curPeriod, settled, entries>>

\* A miss: what upstream has at this moment, or an error that ends the walk.
FetchDay(w, ok) ==
    /\ walks[w] # NotWalking /\ walks[w].pc = "read"
    /\ ~Hit(w)
    /\ walks' = [walks EXCEPT ![w] =
                   IF ok THEN [walks[w] EXCEPT !.pc = "save", !.got = walks[w].day \in settled]
                   ELSE NotWalking]
    /\ UNCHANGED <<curPeriod, settled, entries>>

\* The write, whose failure is only a warning.  It lands over whatever another
\* walk wrote since: one that fetched before the day settled undoes a re-read.
SaveEntry(w, ok) ==
    /\ walks[w] # NotWalking /\ walks[w].pc = "save"
    /\ entries' = IF ok THEN [entries EXCEPT ![walks[w].day] =
                                   [final |-> walks[w].got, fresh |-> TRUE]]
                  ELSE entries
    /\ walks' = [walks EXCEPT ![w] = Onward(w)]
    /\ UNCHANGED <<curPeriod, settled>>

WalkDies(w) ==
    /\ walks[w] # NotWalking
    /\ walks' = [walks EXCEPT ![w] = NotWalking]
    /\ UNCHANGED <<curPeriod, settled, entries>>

\* Upstream, and time.
SettleDay(d) ==
    /\ d < curPeriod /\ d \notin settled /\ settled' = settled \cup {d}
    /\ UNCHANGED <<curPeriod, entries, walks>>

\* todayTTL goes by.
EntriesAge ==
    /\ \E d \in Days : entries[d].fresh
    /\ entries' = [d \in Days |-> [entries[d] EXCEPT !.fresh = FALSE]]
    /\ UNCHANGED <<curPeriod, settled, walks>>

\* A walk outlasts no day but the one it began in, and an entry that is fresh
\* at midnight is old long before the next.
NextPeriod ==
    /\ curPeriod < MaxPeriod /\ curPeriod' = curPeriod + 1
    /\ \A d \in Days : d + SettlingDays <= curPeriod => d \in settled
    /\ \A w \in Walks : walks[w] # NotWalking => walks[w].cur = curPeriod
    /\ UNCHANGED <<settled, entries, walks>>

SnapshotsNext ==
    \/ \E w \in Walks, from, to \in Days, known \in BOOLEAN : BeginWalk(w, from, to, known)
    \/ \E w \in Walks : ServeEntry(w) \/ WalkDies(w)
    \/ \E w \in Walks, ok \in BOOLEAN : FetchDay(w, ok) \/ SaveEntry(w, ok)
    \/ \E d \in Days : SettleDay(d)
    \/ EntriesAge \/ NextPeriod

SnapshotsSpec == SnapshotsInit /\ [][SnapshotsNext]_snapshotVars

(* What is served for ever does not go back (recentPeriodLookback): once a day  *)
(* counts as past, nothing takes its final totals out of the cache, although a  *)
(* walk that fetched the day while it settled may write a midnight later, after *)
(* another walk has replaced them, and a reader who does not know the current   *)
(* day fetches whatever is old.  It is the margin of the look-back over the     *)
(* time a day settles that keeps such a write out.                              *)
PastDayStaysFinal(d) ==
    ~PeriodIsVolatile(d, curPeriod) /\ entries[d].final => entries'[d].final
PastDaysStayFinal == [][\A d \in Days : PastDayStaysFinal(d)]_snapshotVars
=============================================================================
