----------------------------- MODULE JobsProofs ------------------------------
(***************************************************************************)
(* Proofs about the scheduled runs and what they keep: the snapshots of the    *)
(* season's days (Snapshots), the projection archive of a date (Capture), the  *)
(* in-flight guard over the run ledger (Launch), the Analysis Store (Grade) and *)
(* the baseline of the football pickups (Pickups).                             *)
(***************************************************************************)
EXTENDS Snapshots, Capture, Launch, Grade, Pickups, WellFoundedInduction, TLAPS

-----------------------------------------------------------------------------
(* Snapshots.  The tier under which an entry is served is its reader's, so the *)
(* invariant relates what a walk has fetched to what has settled since, and    *)
(* what is not final to how long ago it was fetched.                           *)

\* A walk stays within its range and ends at most a midnight after it began,
\* and what it fetched as unsettled it began to fetch while the day settled.
WalkIsSound(w) ==
    walks[w] # NotWalking =>
        /\ walks[w].day <= walks[w].last
        /\ walks[w].cur <= curPeriod /\ curPeriod <= walks[w].cur + 1
        /\ walks[w].pc = "save" /\ ~walks[w].got => walks[w].cur <= walks[w].day + SettlingDays

\* A day is done settling after SettlingDays.
DaysSettle == \A d \in Days : d + SettlingDays < curPeriod => d \in settled

WalksInv ==
    /\ SnapshotsTypeOK
    /\ \A w \in Walks : WalkIsSound(w)
    /\ DaysSettle

LEMMA SnapshotsNumbers ==
    /\ SnapDays \in Nat /\ MaxPeriod \in Nat /\ recentPeriodLookback \in Nat
    /\ 1 <= MaxPeriod /\ SettlingDays \in Nat /\ SettlingDays + 1 <= recentPeriodLookback
  BY SnapshotsAssumption

LEMMA WalkIsTyped ==
    ASSUME SnapshotsTypeOK, NEW w \in Walks, walks[w] # NotWalking
    PROVE  walks[w] \in WalkStates
  BY DEF SnapshotsTypeOK

\* A walk that goes on is at a day of its range, or it is done.
LEMMA OnwardIsTyped ==
    ASSUME SnapshotsTypeOK, NEW w \in Walks, walks[w] # NotWalking, WalkIsSound(w)
    PROVE  \/ Onward(w) = NotWalking
           \/ /\ Onward(w) \in WalkStates /\ Onward(w).pc = "read" /\ Onward(w).day <= Onward(w).last
              /\ Onward(w).cur = walks[w].cur
<1>1. walks[w] \in WalkStates /\ walks[w].day <= walks[w].last
  BY WalkIsTyped DEF WalkIsSound
<1>2. CASE walks[w].day = walks[w].last
  BY <1>2 DEF Onward
<1>3. CASE walks[w].day # walks[w].last
  <2> DEFINE x == [walks[w] EXCEPT !.pc = "read", !.day = @ + 1]
  <2>1. Onward(w) = x
    BY <1>3 DEF Onward
  <2>2. walks[w].day \in 1..SnapDays /\ walks[w].last \in 1..SnapDays
    BY <1>1 DEF WalkStates, Days
  <2>3. walks[w].day + 1 \in Days /\ walks[w].day + 1 <= walks[w].last
    BY <1>1, <1>3, <2>2, SnapshotsNumbers DEF Days
  <2>4. x \in WalkStates /\ x.pc = "read" /\ x.day = walks[w].day + 1 /\ x.last = walks[w].last
        /\ x.cur = walks[w].cur
    BY <1>1, <2>3 DEF WalkStates
  <2> QED BY <2>1, <2>3, <2>4
<1> QED BY <1>2, <1>3

LEMMA NotWalkingIsNoWalk == NotWalking \notin WalkStates
<1> SUFFICES ASSUME NotWalking \in WalkStates PROVE FALSE
  OBVIOUS
<1>1. NotWalking.pc \in {"read", "save"}
  BY DEF WalkStates
<1> QED BY <1>1 DEF NotWalking

\* A step that moves one walk, to a sound place, keeps them all typed and sound.
LEMMA OneWalkMoves ==
    ASSUME SnapshotsTypeOK, \A w \in Walks : WalkIsSound(w), NEW v \in Walks, NEW x,
           walks' = [walks EXCEPT ![v] = x], curPeriod' = curPeriod,
           \/ x = NotWalking
           \/ /\ x \in WalkStates /\ x.day <= x.last
              /\ x.cur <= curPeriod /\ curPeriod <= x.cur + 1
              /\ x.pc = "save" /\ ~x.got => x.cur <= x.day + SettlingDays
    PROVE  /\ walks' \in [Walks -> WalkStates \cup {NotWalking}]
           /\ \A w \in Walks : WalkIsSound(w)'
<1>1. walks \in [Walks -> WalkStates \cup {NotWalking}]
  BY DEF SnapshotsTypeOK
<1>2. walks' \in [Walks -> WalkStates \cup {NotWalking}]
  BY <1>1
<1>3. ASSUME NEW w \in Walks PROVE WalkIsSound(w)'
  <2>1. CASE w = v
    BY <1>1, <2>1 DEF WalkIsSound
  <2>2. CASE w # v
    <3>1. walks'[w] = walks[w] /\ WalkIsSound(w)
      BY <1>1, <2>2
    <3> QED BY <3>1 DEF WalkIsSound
  <2> QED BY <2>1, <2>2
<1> QED BY <1>2, <1>3

LEMMA InitWalks == SnapshotsInit => WalksInv
<1> SUFFICES ASSUME SnapshotsInit PROVE WalksInv
  OBVIOUS
<1>1. SnapshotsTypeOK
  BY SnapshotsNumbers DEF SnapshotsInit, SnapshotsTypeOK
<1>2. DaysSettle
  BY SnapshotsNumbers DEF SnapshotsInit, DaysSettle, Days
<1> QED BY <1>1, <1>2 DEF SnapshotsInit, WalksInv, WalkIsSound

\* A walk that goes on keeps what is claimed of it.
LEMMA OnwardKeeps ==
    ASSUME WalksInv, NEW w \in Walks, walks[w] # NotWalking, curPeriod' = curPeriod,
           walks' = [walks EXCEPT ![w] = Onward(w)]
    PROVE  /\ walks' \in [Walks -> WalkStates \cup {NotWalking}]
           /\ \A v \in Walks : WalkIsSound(v)'
<1>1. walks[w].cur <= curPeriod /\ curPeriod <= walks[w].cur + 1
  BY DEF WalksInv, WalkIsSound
<1>2. \/ Onward(w) = NotWalking
      \/ /\ Onward(w) \in WalkStates /\ Onward(w).pc = "read" /\ Onward(w).day <= Onward(w).last
         /\ Onward(w).cur = walks[w].cur
  BY OnwardIsTyped DEF WalksInv
<1>3. PICK x : x = Onward(w)
  OBVIOUS
<1>4. \/ x = NotWalking
      \/ /\ x \in WalkStates /\ x.day <= x.last /\ x.cur <= curPeriod /\ curPeriod <= x.cur + 1
         /\ x.pc = "save" /\ ~x.got => x.cur <= x.day + SettlingDays
  BY <1>1, <1>2, <1>3
<1> QED BY <1>3, <1>4, OneWalkMoves DEF WalksInv

LEMMA BeginWalkKeeps ==
    ASSUME WalksInv, NEW w \in Walks, NEW from \in Days, NEW to \in Days, NEW known \in BOOLEAN,
           BeginWalk(w, from, to, known)
    PROVE  WalksInv'
<1> DEFINE x == [pc |-> "read", day |-> from, last |-> to, cur |-> curPeriod,
                 known |-> known, got |-> FALSE]
<1>1. x \in WalkStates /\ x.day <= x.last /\ x.pc # "save" /\ x.cur = curPeriod
  BY DEF WalksInv, SnapshotsTypeOK, WalkStates, BeginWalk
<1>2. walks' = [walks EXCEPT ![w] = x] /\ UNCHANGED <<curPeriod, settled, entries>>
  BY DEF BeginWalk
<1> HIDE DEF x
<1>3. x.cur <= curPeriod /\ curPeriod <= x.cur + 1
  BY <1>1, SnapshotsNumbers DEF WalksInv, SnapshotsTypeOK
<1>4. /\ walks' \in [Walks -> WalkStates \cup {NotWalking}]
      /\ \A v \in Walks : WalkIsSound(v)'
  BY <1>1, <1>2, <1>3, OneWalkMoves DEF WalksInv
<1> QED BY <1>2, <1>4 DEF WalksInv, SnapshotsTypeOK, DaysSettle

LEMMA ServeEntryKeeps ==
    ASSUME WalksInv, NEW w \in Walks, ServeEntry(w)
    PROVE  WalksInv'
<1>1. /\ walks[w] # NotWalking /\ walks' = [walks EXCEPT ![w] = Onward(w)]
      /\ UNCHANGED <<curPeriod, settled, entries>>
  BY DEF ServeEntry
<1>2. /\ walks' \in [Walks -> WalkStates \cup {NotWalking}]
      /\ \A v \in Walks : WalkIsSound(v)'
  BY <1>1, OnwardKeeps
<1> QED BY <1>1, <1>2 DEF WalksInv, SnapshotsTypeOK, DaysSettle

LEMMA FetchDayKeeps ==
    ASSUME WalksInv, NEW w \in Walks, NEW ok \in BOOLEAN, FetchDay(w, ok)
    PROVE  WalksInv'
<1> DEFINE y == [walks[w] EXCEPT !.pc = "save", !.got = walks[w].day \in settled]
           x == IF ok THEN y ELSE NotWalking
<1>1. /\ walks[w] \in WalkStates /\ walks[w].day <= walks[w].last
      /\ walks[w].cur <= curPeriod /\ curPeriod <= walks[w].cur + 1
  BY WalkIsTyped DEF WalksInv, FetchDay, WalkIsSound
<1>2. (walks[w].day \in settled) \in BOOLEAN
  OBVIOUS
<1>3. y \in WalkStates
  BY <1>1, <1>2 DEF WalkStates
<1>4. /\ y.day = walks[w].day /\ y.last = walks[w].last /\ y.cur = walks[w].cur
      /\ y.got = (walks[w].day \in settled)
  BY <1>1 DEF WalkStates
\* What is not settled yet, is not over its days of settling.
<1>5. ~y.got => y.cur <= y.day + SettlingDays
  <2>1. walks[w].day \in Days /\ walks[w].day \in Nat /\ walks[w].cur \in Nat /\ curPeriod \in Nat
    BY <1>1 DEF WalkStates, Days, WalksInv, SnapshotsTypeOK
  <2>2. walks[w].day \notin settled => ~(walks[w].day + SettlingDays < curPeriod)
    BY <2>1 DEF WalksInv, DaysSettle
  <2>3. ~y.got => walks[w].day \notin settled
    BY <1>4
  <2>4. y.cur = walks[w].cur /\ y.day = walks[w].day /\ walks[w].cur <= curPeriod
    BY <1>1, <1>4
  <2> HIDE DEF y
  <2> QED BY <2>1, <2>2, <2>3, <2>4, SnapshotsNumbers
<1>6. walks' = [walks EXCEPT ![w] = x] /\ UNCHANGED <<curPeriod, settled, entries>>
  BY DEF FetchDay
<1>7. x = NotWalking \/ x = y
  OBVIOUS
<1> HIDE DEF x, y
<1>8. /\ walks' \in [Walks -> WalkStates \cup {NotWalking}]
      /\ \A v \in Walks : WalkIsSound(v)'
  <2>1. \/ x = NotWalking
        \/ /\ x \in WalkStates /\ x.day <= x.last /\ x.cur <= curPeriod /\ curPeriod <= x.cur + 1
           /\ x.pc = "save" /\ ~x.got => x.cur <= x.day + SettlingDays
    BY <1>1, <1>3, <1>4, <1>5, <1>7
  <2> QED BY <1>6, <2>1, OneWalkMoves DEF WalksInv
<1> QED BY <1>6, <1>8 DEF WalksInv, SnapshotsTypeOK, DaysSettle

LEMMA SaveEntryKeeps ==
    ASSUME WalksInv, NEW w \in Walks, NEW ok \in BOOLEAN, SaveEntry(w, ok)
    PROVE  WalksInv'
<1> DEFINE e == [final |-> walks[w].got, fresh |-> TRUE]
<1>1. walks[w] # NotWalking /\ walks[w].got \in BOOLEAN
  BY WalkIsTyped DEF WalksInv, SaveEntry, WalkStates
<1>2. /\ walks' = [walks EXCEPT ![w] = Onward(w)] /\ UNCHANGED <<curPeriod, settled>>
      /\ entries' = IF ok THEN [entries EXCEPT ![walks[w].day] = e] ELSE entries
  BY DEF SaveEntry
<1>3. /\ walks' \in [Walks -> WalkStates \cup {NotWalking}]
      /\ \A v \in Walks : WalkIsSound(v)'
  BY <1>1, <1>2, OnwardKeeps
<1>4. e \in Entries
  BY <1>1 DEF Entries
<1> HIDE DEF e
<1>5. entries' \in [Days -> Entries \cup {NoEntry}]
  BY <1>2, <1>4 DEF WalksInv, SnapshotsTypeOK
<1> QED BY <1>2, <1>3, <1>5 DEF WalksInv, SnapshotsTypeOK, DaysSettle

LEMMA WalkDiesKeeps ==
    ASSUME WalksInv, NEW w \in Walks, WalkDies(w)
    PROVE  WalksInv'
<1>1. walks' = [walks EXCEPT ![w] = NotWalking] /\ UNCHANGED <<curPeriod, settled, entries>>
  BY DEF WalkDies
<1>2. /\ walks' \in [Walks -> WalkStates \cup {NotWalking}]
      /\ \A v \in Walks : WalkIsSound(v)'
  BY <1>1, OneWalkMoves DEF WalksInv
<1> QED BY <1>1, <1>2 DEF WalksInv, SnapshotsTypeOK, DaysSettle

LEMMA SettleDayKeeps ==
    ASSUME WalksInv, NEW d \in Days, SettleDay(d)
    PROVE  WalksInv'
<1>1. /\ UNCHANGED <<curPeriod, walks, entries>>
      /\ settled \subseteq settled' /\ settled' \subseteq Days
  BY DEF WalksInv, SnapshotsTypeOK, SettleDay
<1>2. \A w \in Walks : WalkIsSound(w)'
  BY <1>1 DEF WalksInv, WalkIsSound
<1> QED BY <1>1, <1>2 DEF WalksInv, SnapshotsTypeOK, DaysSettle

LEMMA NextPeriodKeeps == WalksInv /\ NextPeriod => WalksInv'
<1> SUFFICES ASSUME WalksInv, NextPeriod PROVE WalksInv'
  OBVIOUS
<1>1. /\ UNCHANGED <<settled, walks, entries>>
      /\ curPeriod \in Nat /\ curPeriod' = curPeriod + 1 /\ curPeriod' \in 1..MaxPeriod
  BY SnapshotsNumbers DEF WalksInv, SnapshotsTypeOK, NextPeriod
<1>2. ASSUME NEW w \in Walks PROVE WalkIsSound(w)'
  <2> SUFFICES ASSUME walks[w] # NotWalking PROVE WalkIsSound(w)'
    BY <1>1 DEF WalkIsSound
  <2>1. walks[w].cur = curPeriod /\ WalkIsSound(w)
    BY DEF NextPeriod, WalksInv
  <2> QED BY <1>1, <2>1 DEF WalkIsSound
<1>3. DaysSettle'
  <2> SUFFICES ASSUME NEW d \in Days, d + SettlingDays < curPeriod' PROVE d \in settled
    BY <1>1 DEF DaysSettle
  <2>1. d + SettlingDays <= curPeriod
    BY <1>1, SnapshotsNumbers DEF Days
  <2> QED BY <2>1 DEF NextPeriod
<1> QED BY <1>1, <1>2, <1>3 DEF WalksInv, SnapshotsTypeOK

\* Ageing keeps what an entry holds.
LEMMA EntriesAgeAre ==
    ASSUME WalksInv, EntriesAge, NEW d \in Days
    PROVE  entries'[d] \in Entries \cup {NoEntry} /\ entries'[d].final = entries[d].final
<1>1. /\ entries \in [Days -> Entries \cup {NoEntry}]
      /\ entries' = [c \in Days |-> [entries[c] EXCEPT !.fresh = FALSE]]
  BY DEF WalksInv, SnapshotsTypeOK, EntriesAge
<1>2. CASE entries[d] = NoEntry
  <2> DEFINE R == [final : BOOLEAN, fresh : BOOLEAN, none : BOOLEAN]
             y == [NoEntry EXCEPT !.fresh = FALSE]
  <2>1. NoEntry \in R /\ NoEntry.fresh = FALSE
    BY DEF NoEntry
  <2>2. y \in R /\ y.final = NoEntry.final /\ y.fresh = FALSE /\ y.none = NoEntry.none
    BY <2>1
  <2> HIDE DEF y
  <2>3. y = NoEntry
    BY <2>1, <2>2
  <2> USE DEF y
  <2>4. entries'[d] = NoEntry
    BY <1>1, <1>2, <2>3
  <2> QED BY <1>2, <2>4
<1>3. CASE entries[d] \in Entries
  BY <1>1, <1>3 DEF Entries
<1> QED BY <1>1, <1>2, <1>3

LEMMA EntriesAgeKeeps == WalksInv /\ EntriesAge => WalksInv'
<1> SUFFICES ASSUME WalksInv, EntriesAge PROVE WalksInv'
  OBVIOUS
<1>1. /\ UNCHANGED <<curPeriod, settled, walks>>
      /\ entries' = [c \in Days |-> [entries[c] EXCEPT !.fresh = FALSE]]
  BY DEF EntriesAge
<1>2. entries' \in [Days -> Entries \cup {NoEntry}]
  BY <1>1, EntriesAgeAre
<1>3. \A w \in Walks : WalkIsSound(w)'
  BY <1>1 DEF WalksInv, WalkIsSound
<1> QED BY <1>1, <1>2, <1>3 DEF WalksInv, SnapshotsTypeOK, DaysSettle

LEMMA StepWalks == WalksInv /\ [SnapshotsNext]_snapshotVars => WalksInv'
<1> SUFFICES ASSUME WalksInv, [SnapshotsNext]_snapshotVars PROVE WalksInv'
  OBVIOUS
<1>1. CASE UNCHANGED snapshotVars
  BY <1>1 DEF WalksInv, SnapshotsTypeOK, WalkIsSound, DaysSettle, snapshotVars
<1>2. CASE \E w \in Walks, from, to \in Days, known \in BOOLEAN : BeginWalk(w, from, to, known)
  BY <1>2, BeginWalkKeeps
<1>3. CASE \E w \in Walks : ServeEntry(w) \/ WalkDies(w)
  BY <1>3, ServeEntryKeeps, WalkDiesKeeps
<1>4. CASE \E w \in Walks, ok \in BOOLEAN : FetchDay(w, ok) \/ SaveEntry(w, ok)
  BY <1>4, FetchDayKeeps, SaveEntryKeeps
<1>5. CASE \E d \in Days : SettleDay(d)
  BY <1>5, SettleDayKeeps
<1>6. CASE EntriesAge \/ NextPeriod
  BY <1>6, EntriesAgeKeeps, NextPeriodKeeps
<1> QED BY <1>1, <1>2, <1>3, <1>4, <1>5, <1>6 DEF SnapshotsNext

\* What a walk writes of a past day is final: what is not was fetched too lately.
LEMMA LateSavesAreFinal ==
    ASSUME WalksInv, NEW w \in Walks, walks[w] # NotWalking, walks[w].pc = "save",
           ~PeriodIsVolatile(walks[w].day, curPeriod)
    PROVE  walks[w].got
<1>1. walks[w] \in WalkStates /\ WalkIsSound(w)
  BY WalkIsTyped DEF WalksInv
<1>2. PICK d, c, n \in Nat : d = walks[w].day /\ c = walks[w].cur /\ n = curPeriod
  BY <1>1 DEF WalkStates, Days, WalksInv, SnapshotsTypeOK
<1>3. d + recentPeriodLookback < n /\ n <= c + 1
  BY <1>1, <1>2, SnapshotsNumbers DEF PeriodIsVolatile, WalkIsSound
<1>4. ~(c <= d + SettlingDays)
  BY <1>3, SnapshotsNumbers
<1> QED BY <1>1, <1>2, <1>4 DEF WalkIsSound

(* Every reachable state of the walks and of the cache is well typed          *)
(* (daily_fpts.go, cached.go).                                                *)
THEOREM SnapshotsTypeCorrect == SnapshotsSpec => []SnapshotsTypeOK
<1>1. WalksInv => SnapshotsTypeOK
  BY DEF WalksInv
<1> QED BY <1>1, InitWalks, StepWalks, PTL DEF SnapshotsSpec

(* Once a day counts as past, its final totals stay in the cache, whatever     *)
(* walks that fetched it earlier still write, for every season, look-back and  *)
(* number of runs (recentPeriodLookback).                                      *)
THEOREM PastDaysKeepTheirTotals == SnapshotsSpec => PastDaysStayFinal
<1>1. WalksInv /\ [SnapshotsNext]_snapshotVars
        => [\A d \in Days : PastDayStaysFinal(d)]_snapshotVars
  <2> SUFFICES ASSUME WalksInv, SnapshotsNext, NEW d \in Days,
                      ~PeriodIsVolatile(d, curPeriod), entries[d].final
               PROVE  entries'[d].final
    BY DEF PastDayStaysFinal
  <2>1. ASSUME NEW w \in Walks, NEW ok \in BOOLEAN, SaveEntry(w, ok)
        PROVE  entries'[d].final
    <3>1. /\ walks[w] # NotWalking /\ walks[w].pc = "save"
          /\ entries' = IF ok THEN [entries EXCEPT ![walks[w].day] =
                                       [final |-> walks[w].got, fresh |-> TRUE]]
                        ELSE entries
      BY <2>1 DEF SaveEntry
    <3>2. d = walks[w].day => walks[w].got
      BY <3>1, LateSavesAreFinal
    <3> QED BY <3>1, <3>2 DEF WalksInv, SnapshotsTypeOK
  <2>2. CASE EntriesAge
    BY <2>2, EntriesAgeAre
  <2>3. CASE UNCHANGED entries
    BY <2>3
  <2> QED BY <2>1, <2>2, <2>3
          DEF SnapshotsNext, BeginWalk, ServeEntry, FetchDay, WalkDies, SettleDay, NextPeriod
<1> QED BY <1>1, InitWalks, StepWalks, PTL DEF SnapshotsSpec, PastDaysStayFinal


-----------------------------------------------------------------------------
(* Capture.  A run that is not blind has read the archive as it stands: every  *)
(* write of another one blinds it.                                            *)

ReadAsItStands(r) ==
    capturing[r] # NotCapturing /\ ~capturing[r].blind => capturing[r].existing = archive

CaptureInv ==
    /\ CaptureTypeOK
    /\ \A r \in Captures : ReadAsItStands(r)

LEMMA NotCapturingIsNoCapture == NotCapturing \notin Capturings
<1> SUFFICES ASSUME NotCapturing \in Capturings PROVE FALSE
  OBVIOUS
<1>1. NotCapturing.pc \in {"merge"}
  BY DEF Capturings
<1> QED BY <1>1 DEF NotCapturing

LEMMA NoRowsAreAnArchive == [p \in Scored |-> NoRow] \in Archives
  BY DEF Archives

LEMMA SnapshotIsAnArchive ==
    ASSUME NEW ps \in SUBSET Scored, NEW v \in Values
    PROVE  Snapshot(ps, v) \in Archives
<1>1. ASSUME NEW p \in Scored PROVE [locked |-> p \in started, value |-> v] \in Rows
  BY DEF Rows
<1> QED BY <1>1 DEF Snapshot, Archives

LEMMA MergeIsAnArchive ==
    ASSUME NEW f \in Archives, NEW e \in Archives
    PROVE  MergeLockedPlayers(f, e) \in Archives
  BY DEF MergeLockedPlayers, Archives

LEMMA InitCapture == CaptureInit => CaptureInv
  BY NoRowsAreAnArchive DEF CaptureInit, CaptureInv, CaptureTypeOK, ReadAsItStands

LEMMA ReadPriorKeeps ==
    ASSUME CaptureInv, NEW r \in Captures, NEW ps \in SUBSET Scored, NEW v \in Values,
           NEW ok \in BOOLEAN, ReadPrior(r, ps, v, ok)
    PROVE  CaptureInv'
<1> DEFINE e == IF ok THEN archive ELSE [p \in Scored |-> NoRow]
           x == [pc |-> "merge", fresh |-> Snapshot(ps, v), blind |-> ~ok, existing |-> e]
<1>1. /\ capturing \in [Captures -> Capturings \cup {NotCapturing}]
      /\ archive \in Archives /\ started \subseteq Scored
  BY DEF CaptureInv, CaptureTypeOK
<1>2. capturing' = [capturing EXCEPT ![r] = x] /\ started' = started /\ archive' = archive
  BY DEF ReadPrior
<1>3. e \in Archives
  BY <1>1, NoRowsAreAnArchive
<1>4. x \in Capturings /\ x.blind = ~ok /\ x.existing = e
  BY <1>3, SnapshotIsAnArchive DEF Capturings
<1>5. ~x.blind => x.existing = archive
  BY <1>4
<1> HIDE DEF x, e
<1>6. CaptureTypeOK'
  BY <1>1, <1>2, <1>4 DEF CaptureTypeOK
<1>7. ASSUME NEW o \in Captures PROVE ReadAsItStands(o)'
  <2>1. CASE o = r
    BY <1>1, <1>2, <1>5, <2>1 DEF ReadAsItStands
  <2>2. CASE o # r
    BY <1>1, <1>2, <2>2 DEF ReadAsItStands, CaptureInv
  <2> QED BY <2>1, <2>2
<1> QED BY <1>6, <1>7 DEF CaptureInv

\* What a write makes of a run: the writer is done, the others are blind.
LEMMA WriteOf ==
    ASSUME CaptureInv, NEW r \in Captures, NEW ok \in BOOLEAN, WriteSnapshot(r, ok),
           NEW o \in Captures
    PROVE  /\ o = r => capturing'[o] = NotCapturing
           /\ o # r /\ capturing[o] = NotCapturing => capturing'[o] = NotCapturing
           /\ o # r /\ capturing[o] # NotCapturing =>
                /\ capturing'[o] \in Capturings
                /\ ok => capturing'[o].blind
                /\ ~ok => capturing'[o] = capturing[o]
<1>1. /\ capturing \in [Captures -> Capturings \cup {NotCapturing}]
      /\ capturing'[o] = IF o = r THEN NotCapturing
                         ELSE IF ok /\ capturing[o] # NotCapturing
                         THEN [capturing[o] EXCEPT !.blind = TRUE] ELSE capturing[o]
  BY DEF WriteSnapshot, CaptureInv, CaptureTypeOK
<1>2. CASE o # r /\ capturing[o] # NotCapturing /\ ok
  <2>1. capturing[o] \in Capturings /\ capturing'[o] = [capturing[o] EXCEPT !.blind = TRUE]
    BY <1>1, <1>2
  <2>2. [capturing[o] EXCEPT !.blind = TRUE] \in Capturings
    BY <2>1 DEF Capturings
  <2>3. [capturing[o] EXCEPT !.blind = TRUE].blind
    BY <2>1 DEF Capturings
  <2> QED BY <1>2, <2>1, <2>2, <2>3
<1> QED BY <1>1, <1>2

LEMMA WriteSnapshotKeeps ==
    ASSUME CaptureInv, NEW r \in Captures, NEW ok \in BOOLEAN, WriteSnapshot(r, ok)
    PROVE  CaptureInv'
<1>1. ASSUME NEW o \in Captures
      PROVE  capturing'[o] \in Capturings \cup {NotCapturing} /\ ReadAsItStands(o)'
  <2>1. ~ok => archive' = archive
    BY DEF WriteSnapshot
  <2>2. CASE o = r \/ capturing[o] = NotCapturing
    BY <2>2, WriteOf DEF ReadAsItStands
  <2>3. CASE o # r /\ capturing[o] # NotCapturing
    BY <2>1, <2>3, WriteOf DEF ReadAsItStands, CaptureInv
  <2> QED BY <2>2, <2>3
<1>2. capturing[r] \in Capturings /\ archive \in Archives
  BY DEF CaptureInv, CaptureTypeOK, WriteSnapshot
<1>3. archive' \in Archives
  BY <1>2, MergeIsAnArchive DEF WriteSnapshot, Capturings
<1>4. capturing' \in [Captures -> Capturings \cup {NotCapturing}]
  BY <1>1 DEF WriteSnapshot
<1>5. started' \subseteq Scored
  BY DEF CaptureInv, CaptureTypeOK, WriteSnapshot
<1> QED BY <1>1, <1>3, <1>4, <1>5 DEF CaptureInv, CaptureTypeOK

LEMMA StepCapture == CaptureInv /\ [CaptureNext]_captureVars => CaptureInv'
<1> SUFFICES ASSUME CaptureInv, [CaptureNext]_captureVars PROVE CaptureInv'
  OBVIOUS
<1>1. CASE UNCHANGED captureVars
  BY <1>1 DEF CaptureInv, CaptureTypeOK, ReadAsItStands, captureVars
<1>2. CASE \E p \in Scored : FirstPitch(p)
  BY <1>2 DEF CaptureInv, CaptureTypeOK, ReadAsItStands, FirstPitch
<1>3. CASE \E r \in Captures, ps \in SUBSET Scored, v \in Values, ok \in BOOLEAN :
             ReadPrior(r, ps, v, ok)
  BY <1>3, ReadPriorKeeps
<1>4. CASE \E r \in Captures, ok \in BOOLEAN : WriteSnapshot(r, ok)
  BY <1>4, WriteSnapshotKeeps
<1> QED BY <1>1, <1>2, <1>3, <1>4 DEF CaptureNext

\* What a run that read the archive as it stands leaves of a locked row.
RowsSurvive(r) ==
    capturing[r] # NotCapturing /\ ~capturing[r].blind /\ capturing'[r] = NotCapturing
      => \A p \in Scored : archive[p].locked => archive'[p] = archive[p]

LEMMA WriteKeepsLockedRows ==
    ASSUME CaptureInv, NEW r \in Captures, NEW ok \in BOOLEAN, WriteSnapshot(r, ok),
           capturing[r] # NotCapturing, ~capturing[r].blind, NEW p \in Scored, archive[p].locked
    PROVE  archive'[p] = archive[p]
<1>1. capturing[r].existing = archive
  BY DEF CaptureInv, ReadAsItStands
<1> QED BY <1>1 DEF WriteSnapshot, MergeLockedPlayers

LEMMA StepRowsSurvive ==
    CaptureInv /\ [CaptureNext]_captureVars => [\A r \in Captures : RowsSurvive(r)]_captureVars
<1> SUFFICES ASSUME CaptureInv, CaptureNext, NEW r \in Captures PROVE RowsSurvive(r)
  OBVIOUS
<1>1. capturing \in [Captures -> Capturings \cup {NotCapturing}]
  BY DEF CaptureInv, CaptureTypeOK
<1>2. CASE \E p \in Scored : FirstPitch(p)
  BY <1>2 DEF FirstPitch, RowsSurvive
<1>3. CASE \E o \in Captures, ps \in SUBSET Scored, v \in Values, ok \in BOOLEAN :
             ReadPrior(o, ps, v, ok)
  BY <1>3 DEF ReadPrior, RowsSurvive
<1>4. CASE \E o \in Captures, ok \in BOOLEAN : WriteSnapshot(o, ok)
  <2>1. PICK o \in Captures, ok \in BOOLEAN : WriteSnapshot(o, ok)
    BY <1>4
  <2>2. CASE o = r
    BY <2>1, <2>2, WriteKeepsLockedRows DEF RowsSurvive
  <2>3. CASE o # r
    BY <1>1, <2>1, <2>3, WriteOf, NotCapturingIsNoCapture DEF RowsSurvive
  <2> QED BY <2>2, <2>3
<1> QED BY <1>2, <1>3, <1>4 DEF CaptureNext

(* Every reachable state of the archive is well typed (snapshot.go).          *)
THEOREM CaptureTypeCorrect == CaptureSpec => []CaptureTypeOK
<1>1. CaptureInv => CaptureTypeOK
  BY DEF CaptureInv
<1> QED BY <1>1, InitCapture, StepCapture, PTL DEF CaptureSpec

(* A run that could read the archive, and that no other run wrote past, leaves *)
(* every locked player's row as it was, for any players, projections and       *)
(* number of runs (MergeLockedPlayers).                                        *)
THEOREM LockedRowsAreKept == CaptureSpec => LockedRowsSurvive
<1>1. CaptureInv /\ [CaptureNext]_captureVars =>
        [\A r \in Captures :
           capturing[r] # NotCapturing /\ ~capturing[r].blind /\ capturing'[r] = NotCapturing
             => \A p \in Scored : archive[p].locked => archive'[p] = archive[p]]_captureVars
  BY StepRowsSurvive DEF RowsSurvive
<1> QED BY <1>1, InitCapture, StepCapture, PTL DEF CaptureSpec, LockedRowsSurvive
-----------------------------------------------------------------------------
(* Launch.  A request the guard let through with its eyes open has nobody of   *)
(* its own work beside it until it launches: whoever is launched meanwhile     *)
(* blinds it.  So of two tasks of one tenant's job, both by hand, the later    *)
(* one was blind, whatever became of the records since.                       *)

IsAt(i, p, j) == Live(i) /\ task[i].job = j /\ task[i].owner = p

CheckedAlone(q) ==
    req[q].pc = "launch" /\ ~req[q].blind /\ req[q].job \in OwnJobs =>
        \A i \in Slots : ~IsAt(i, req[q].owner, req[q].job)

OneWasBlind(i, k) ==
    i # k /\ Live(i) /\ task[i].job \in OwnJobs /\ IsAt(k, task[i].owner, task[i].job)
      /\ task[i].manual /\ task[k].manual
    => task[i].blind \/ task[k].blind

LaunchInv ==
    /\ LaunchTypeOK
    /\ \A q \in Calls : CheckedAlone(q)
    /\ \A i, k \in Slots : OneWasBlind(i, k)

LEMMA InvImpliesBlind == LaunchInv => OverlapsWereBlind
<1> SUFFICES ASSUME LaunchInv, NEW i \in Slots, NEW k \in Slots,
                    i # k, Live(i), task[i].manual, task[k].manual,
                    SameWork(k, task[i].owner, task[i].job), task[i].job \in OwnJobs
             PROVE  task[i].blind \/ task[k].blind
  BY DEF OverlapsWereBlind
<1>1. IsAt(k, task[i].owner, task[i].job)
  BY LaunchAssumption DEF SameWork, IsAt
<1> QED BY <1>1 DEF LaunchInv, OneWasBlind

LEMMA LiveIsATask ==
    ASSUME LaunchTypeOK, NEW i \in Slots, Live(i) \/ task[i].pc # "none"
    PROVE  task[i] \in Task
<1>1. task[i] \in Task \cup {NoTask}
  BY DEF LaunchTypeOK
<1>2. task[i] # NoTask
  BY DEF Live, NoTask
<1> QED BY <1>1, <1>2

LEMMA RequestIsTyped ==
    ASSUME LaunchTypeOK, NEW q \in Calls, req[q].pc \in {"check", "launch"}
    PROVE  req[q] \in Request
<1>1. req[q] \in Request \cup {NoRequest}
  BY DEF LaunchTypeOK
<1>2. req[q] # NoRequest
  BY DEF NoRequest
<1> QED BY <1>1, <1>2

\* What a step of the task itself may do to a slot: its task is gone, or goes
\* on as who it is and does not come to life.
Evolves(i) ==
    \/ task'[i] = task[i]
    \/ task'[i] = NoTask
    \/ /\ task'[i] \in Task /\ task[i] \in Task
       /\ task'[i].job = task[i].job /\ task'[i].owner = task[i].owner
       /\ task'[i].manual = task[i].manual /\ task'[i].blind = task[i].blind
       /\ Live(i)' => Live(i)

LEMMA EvolvingIsNoLaunch ==
    ASSUME NEW i \in Slots, Evolves(i)
    PROVE  /\ Live(i)' => /\ Live(i) /\ task'[i].job = task[i].job
                          /\ task'[i].owner = task[i].owner
                          /\ task'[i].manual = task[i].manual /\ task'[i].blind = task[i].blind
           /\ \A p, j : IsAt(i, p, j)' => IsAt(i, p, j)
<1>1. CASE task'[i] = task[i]
  BY <1>1 DEF Live, IsAt
<1>2. CASE task'[i] = NoTask
  BY <1>2 DEF Live, IsAt, NoTask
<1>3. CASE /\ task'[i] \in Task /\ task[i] \in Task
           /\ task'[i].job = task[i].job /\ task'[i].owner = task[i].owner
           /\ task'[i].manual = task[i].manual /\ task'[i].blind = task[i].blind
           /\ Live(i)' => Live(i)
  BY <1>3 DEF IsAt
<1> QED BY <1>1, <1>2, <1>3 DEF Evolves

LEMMA EvolvingKeeps ==
    ASSUME LaunchInv, \A i \in Slots : Evolves(i), req' = req,
           task' \in [Slots -> Task \cup {NoTask}]
    PROVE  LaunchInv'
<1>1. LaunchTypeOK'
  BY DEF LaunchInv, LaunchTypeOK
<1>2. ASSUME NEW q \in Calls PROVE CheckedAlone(q)'
  <2>1. CheckedAlone(q)
    BY DEF LaunchInv
  <2>2. ASSUME NEW i \in Slots, NEW p, NEW j, IsAt(i, p, j)' PROVE IsAt(i, p, j)
    BY <2>2, EvolvingIsNoLaunch
  <2> QED BY <2>1, <2>2 DEF CheckedAlone
<1>3. ASSUME NEW i \in Slots, NEW k \in Slots PROVE OneWasBlind(i, k)'
  <2>1. OneWasBlind(i, k)
    BY DEF LaunchInv
  <2> SUFFICES ASSUME i # k, Live(i)', task'[i].manual, task'[k].manual, task'[i].job \in OwnJobs,
                      IsAt(k, task[i].owner, task[i].job)'
               PROVE  task'[i].blind \/ task'[k].blind
    BY DEF OneWasBlind
  <2>2. /\ Live(i) /\ task'[i].job = task[i].job /\ task'[i].owner = task[i].owner
        /\ task'[i].manual = task[i].manual /\ task'[i].blind = task[i].blind
    BY EvolvingIsNoLaunch
  <2>3. /\ Live(k) /\ task'[k].job = task[k].job /\ task'[k].owner = task[k].owner
        /\ task'[k].manual = task[k].manual /\ task'[k].blind = task[k].blind
        /\ task'[k].job = task'[i].job /\ task'[k].owner = task'[i].owner
    BY EvolvingIsNoLaunch DEF IsAt
  <2>4. IsAt(k, task[i].owner, task[i].job)
    BY <2>2, <2>3 DEF IsAt
  <2> QED BY <2>1, <2>2, <2>3, <2>4 DEF OneWasBlind
<1> QED BY <1>1, <1>2, <1>3 DEF LaunchInv

LEMMA SettledIs ==
    ASSUME NEW t \in Task \cup {NoTask}
    PROVE  Settled(t) = t \/ Settled(t) = NoTask
  BY DEF Settled

\* A record with one more newer than itself: the task goes on as it was.
LEMMA OlderIsPushed ==
    ASSUME LaunchInv, NEW k \in Slots, NEW i, Older(k, i),
           task'[k] = [task[k] EXCEPT !.newer = @ + 1]
    PROVE  Evolves(k) /\ task'[k] \in Task
<1>1. task[k] \in Task /\ task[k].newer \in task[i].newer..(RunsLimit - 1)
  BY DEF LaunchInv, LaunchTypeOK, Older
<1>2. task[k].newer + 1 \in 0..RunsLimit
  <2>1. task[k].newer \in 0..RunsLimit
    BY <1>1 DEF Task
  <2>2. task[k].newer <= RunsLimit - 1
    BY <1>1
  <2> QED BY <2>1, <2>2, LaunchAssumption
<1>3. task'[k] \in Task
  BY <1>1, <1>2 DEF Task
<1>4. /\ task'[k].job = task[k].job /\ task'[k].owner = task[k].owner
      /\ task'[k].manual = task[k].manual /\ task'[k].blind = task[k].blind
      /\ task'[k].pc = task[k].pc
  BY <1>1 DEF Task
<1> QED BY <1>1, <1>3, <1>4 DEF Evolves, Live

\* A task that goes on, one step of entrypoint.sh.
LEMMA OneTaskEvolves ==
    ASSUME LaunchInv, NEW i \in Slots, NEW x \in Task, Becomes(i, x), req' = req,
           task[i] \in Task, Live(i),
           x.job = task[i].job, x.owner = task[i].owner, x.manual = task[i].manual,
           x.blind = task[i].blind
    PROVE  LaunchInv'
<1>1. task \in [Slots -> Task \cup {NoTask}]
  BY DEF LaunchInv, LaunchTypeOK
<1>2. task'[i] \in {x, NoTask}
  BY SettledIs DEF Becomes
<1>3. ASSUME NEW k \in Slots, k # i
      PROVE  task'[k] = task[k] \/ (Older(k, i) /\ task'[k] = [task[k] EXCEPT !.newer = @ + 1])
  BY <1>3 DEF Becomes
<1>4. ASSUME NEW k \in Slots PROVE Evolves(k) /\ task'[k] \in Task \cup {NoTask}
  <2>1. CASE k # i
    BY <1>1, <1>3, <2>1, OlderIsPushed DEF Evolves
  <2>2. CASE k = i
    BY <1>2, <2>2 DEF Evolves
  <2> QED BY <2>1, <2>2
<1>5. task' \in [Slots -> Task \cup {NoTask}]
  <2>1. DOMAIN task' = Slots /\ task' = [k \in Slots |-> task'[k]]
    BY DEF Becomes
  <2> QED BY <1>4, <2>1
<1> QED BY <1>4, <1>5, EvolvingKeeps

LEMMA TaskStepKeeps ==
    ASSUME LaunchInv, NEW i \in Slots, NEW ok \in BOOLEAN,
           Start(i, ok) \/ Finish(i, ok) \/ Stop(i, ok) \/ Exit(i) \/ Kill(i)
    PROVE  LaunchInv'
<1>1. task[i] \in Task /\ Live(i) /\ req' = req
  <2>1. Live(i) /\ req' = req
    BY DEF Start, Finish, Stop, Exit, Kill, Live
  <2> QED BY <2>1, LiveIsATask DEF LaunchInv
<1> DEFINE x(pc, rec) == [task[i] EXCEPT !.pc = pc, !.rec = rec]
<1>2. ASSUME NEW pc \in {"running", "uploading", "gone"}, NEW rec \in {"none", "RUNNING", "ended"}
      PROVE  /\ x(pc, rec) \in Task
             /\ x(pc, rec).job = task[i].job /\ x(pc, rec).owner = task[i].owner
             /\ x(pc, rec).manual = task[i].manual /\ x(pc, rec).blind = task[i].blind
  BY <1>1 DEF Task
<1>3. task[i].rec \in {"none", "RUNNING", "ended"}
  BY <1>1 DEF Task
<1>4. [task[i] EXCEPT !.pc = "gone"] = x("gone", task[i].rec)
  BY <1>1 DEF Task
<1>5. [task[i] EXCEPT !.pc = "uploading"] = x("uploading", task[i].rec)
  BY <1>1 DEF Task
<1>6. \E pc \in {"running", "uploading", "gone"}, rec \in {"none", "RUNNING", "ended"} :
          Becomes(i, x(pc, rec))
  <2>1. CASE Start(i, ok)
    <3>1. Becomes(i, x("running", IF ok THEN "RUNNING" ELSE task[i].rec))
      BY <2>1 DEF Start
    <3> QED BY <1>3, <3>1
  <2>2. CASE Finish(i, ok)
    <3>1. Becomes(i, x("uploading", IF ok THEN "ended" ELSE task[i].rec))
      BY <2>2 DEF Finish
    <3> QED BY <1>3, <3>1
  <2>3. CASE Stop(i, ok)
    <3>1. Becomes(i, x("gone", IF ok THEN "ended" ELSE task[i].rec))
      BY <2>3 DEF Stop
    <3> QED BY <1>3, <3>1
  <2>4. CASE Exit(i) \/ Kill(i)
    <3>1. Becomes(i, x("gone", task[i].rec))
      BY <1>4, <2>4 DEF Exit, Kill
    <3> QED BY <1>3, <3>1
  <2> QED BY <2>1, <2>2, <2>3, <2>4
<1>7. PICK pc \in {"running", "uploading", "gone"}, rec \in {"none", "RUNNING", "ended"} :
          Becomes(i, x(pc, rec))
  BY <1>6
<1> HIDE DEF x
<1> QED BY <1>1, <1>2, <1>7, OneTaskEvolves

LEMMA LaunchClockKeeps == LaunchInv /\ LaunchClock => LaunchInv'
<1> SUFFICES ASSUME LaunchInv, LaunchClock PROVE LaunchInv'
  OBVIOUS
<1>1. /\ task \in [Slots -> Task \cup {NoTask}] /\ req' = req
      /\ task' = [i \in Slots |-> Settled(Aged(task[i]))]
  BY DEF LaunchInv, LaunchTypeOK, LaunchClock
<1>2. ASSUME NEW i \in Slots
      PROVE  task'[i] \in Task \cup {NoTask} /\ Evolves(i)
  <2> DEFINE t == task[i]
  <2>1. CASE t = NoTask
    <3>1. task'[i] = NoTask
      BY <1>1, <2>1 DEF Aged, Settled
    <3> QED BY <3>1 DEF Evolves
  <2>2. CASE t \in Task /\ t # NoTask
    <3>1. /\ Aged(t) \in Task
          /\ Aged(t).job = t.job /\ Aged(t).owner = t.owner /\ Aged(t).manual = t.manual
          /\ Aged(t).blind = t.blind /\ Aged(t).pc = t.pc
      <4>1. CASE t.rec # "RUNNING"
        BY <2>2, <4>1 DEF Aged
      <4>2. CASE t.rec = "RUNNING" /\ t.age = MaxJobDuration
        BY <2>2, <4>2 DEF Aged, Task
      <4>3. CASE t.rec = "RUNNING" /\ t.age # MaxJobDuration
        <5>1. t.age + 1 \in 0..MaxJobDuration
          BY <2>2, <4>3, LaunchAssumption DEF Task
        <5> QED BY <2>2, <4>3, <5>1 DEF Aged, Task
      <4> QED BY <4>1, <4>2, <4>3
    <3>2. task'[i] = Aged(t) \/ task'[i] = NoTask
      BY <1>1, <3>1, SettledIs
    <3> QED BY <2>2, <3>1, <3>2 DEF Evolves, Live
  <2> QED BY <1>1, <2>1, <2>2
<1>3. task' \in [Slots -> Task \cup {NoTask}]
  BY <1>1, <1>2
<1> QED BY <1>1, <1>2, <1>3, EvolvingKeeps

\* A request that is served, with no task launched.
LEMMA OneRequestMoves ==
    ASSUME LaunchInv, NEW q \in Calls, NEW x \in Request \cup {NoRequest},
           req' = [req EXCEPT ![q] = x], task' = task,
           x.pc = "launch" /\ ~x.blind /\ x.job \in OwnJobs =>
               \A i \in Slots : ~IsAt(i, x.owner, x.job)
    PROVE  LaunchInv'
<1>1. req \in [Calls -> Request \cup {NoRequest}]
  BY DEF LaunchInv, LaunchTypeOK
<1>2. LaunchTypeOK'
  BY <1>1 DEF LaunchInv, LaunchTypeOK
<1>3. ASSUME NEW o \in Calls PROVE CheckedAlone(o)'
  <2>1. CASE o = q
    BY <1>1, <2>1 DEF CheckedAlone, IsAt, Live
  <2>2. CASE o # q
    BY <1>1, <2>2 DEF LaunchInv, CheckedAlone, IsAt, Live
  <2> QED BY <2>1, <2>2
<1>4. ASSUME NEW i \in Slots, NEW k \in Slots PROVE OneWasBlind(i, k)'
  BY DEF LaunchInv, OneWasBlind, IsAt, Live
<1> QED BY <1>2, <1>3, <1>4 DEF LaunchInv

LEMMA AskKeeps ==
    ASSUME LaunchInv, NEW q \in Calls, NEW c \in Callers, NEW j \in Jobs, Ask(q, c, j)
    PROVE  LaunchInv'
<1> DEFINE x == [pc |-> "check", owner |-> Partition(c), job |-> j, blind |-> FALSE]
<1>1. Partition(c) \in Tenants
  BY LaunchAssumption DEF Partition, Callers
<1>2. x \in Request /\ x.pc # "launch"
  BY <1>1 DEF Request
<1>3. req' = [req EXCEPT ![q] = x] /\ task' = task
  BY DEF Ask
<1> HIDE DEF x
<1> QED BY <1>2, <1>3, OneRequestMoves

LEMMA CheckKeeps ==
    ASSUME LaunchInv, NEW q \in Calls, NEW read \in SUBSET Slots, Check(q, read)
    PROVE  LaunchInv'
<1> DEFINE p == req[q].owner
           j == req[q].job
           b == \E i \in Slots : SameWork(i, p, j) /\ ~Listed(i, read)
           x == [req[q] EXCEPT !.pc = "launch", !.blind = b]
<1>1. req[q] \in Request /\ task' = task
  BY RequestIsTyped DEF Check, LaunchInv
<1>2. CASE InFlight(p, j, read) # {}
  <2>1. req' = [req EXCEPT ![q] = NoRequest]
    BY <1>2 DEF Check
  <2> QED BY <1>1, <2>1, OneRequestMoves DEF NoRequest
<1>3. CASE InFlight(p, j, read) = {}
  <2>1. req' = [req EXCEPT ![q] = x]
    <3>1. (\E i \in {i \in Slots : SameWork(i, p, j)} : ~Listed(i, read))
            <=> \E i \in Slots : SameWork(i, p, j) /\ ~Listed(i, read)
      OBVIOUS
    <3> QED BY <1>3, <3>1 DEF Check
  <2>2. b \in BOOLEAN
    OBVIOUS
  <2>3. x \in Request /\ x.pc = "launch" /\ x.job = j /\ x.owner = p /\ x.blind = b
    BY <1>1, <2>2 DEF Request
  <2>4. ASSUME ~b, NEW i \in Slots, IsAt(i, p, j) PROVE FALSE
    <3>1. SameWork(i, p, j)
      BY <2>4 DEF IsAt, SameWork
    <3>2. Listed(i, read) /\ InFlight(p, j, read) = {}
      BY <1>3, <2>4, <3>1
    <3> QED BY <2>4, <3>2 DEF InFlight, IsAt
  <2> HIDE DEF x, b, p, j
  <2>5. x.pc = "launch" /\ ~x.blind /\ x.job \in OwnJobs =>
            \A i \in Slots : ~IsAt(i, x.owner, x.job)
    BY <2>3, <2>4
  <2> QED BY <1>1, <2>1, <2>3, <2>5, OneRequestMoves
<1> QED BY <1>2, <1>3

\* A task is launched: its slot was free, and the requests of the same work that
\* are past their check are blind from now on.
LEMMA NewTaskKeeps ==
    ASSUME LaunchInv, NEW i \in Slots, NEW p \in Tenants, NEW j \in Jobs, NEW m \in BOOLEAN,
           NEW b \in BOOLEAN, task[i] = NoTask, RunTask(i, p, j, m, b),
           NEW done \in SUBSET Calls,
           req' = [q \in Calls |-> IF q \in done THEN NoRequest ELSE Overtaken(p, j)[q]],
           m /\ ~b /\ j \in OwnJobs => \A k \in Slots : ~IsAt(k, p, j)
    PROVE  LaunchInv'
<1> DEFINE x == [pc |-> "launched", job |-> j, owner |-> p, manual |-> m,
                 rec |-> "none", age |-> 0, newer |-> 0, blind |-> b]
<1>1. /\ task \in [Slots -> Task \cup {NoTask}]
      /\ req \in [Calls -> Request \cup {NoRequest}]
  BY DEF LaunchInv, LaunchTypeOK
<1>2. x \in Task
  BY LaunchAssumption DEF Task
<1>3. task' = [task EXCEPT ![i] = x]
  BY <1>1 DEF RunTask, Becomes, Settled
<1>4. /\ task'[i].job = j /\ task'[i].owner = p /\ task'[i].manual = m /\ task'[i].blind = b
      /\ \A k \in Slots : k # i => task'[k] = task[k]
  BY <1>1, <1>3
<1> HIDE DEF x
<1>5. ASSUME NEW q \in Calls
      PROVE  /\ req'[q] \in Request \cup {NoRequest}
             /\ CheckedAlone(q)'
  <2>1. CASE q \in done
    <3>1. req'[q] = NoRequest
      BY <2>1
    <3> QED BY <3>1 DEF CheckedAlone, NoRequest
  <2>2. CASE q \notin done /\ req[q].pc = "launch" /\ req[q].job = j
             /\ (j \in LeagueJobs \/ req[q].owner = p)
    <3>1. req'[q] = [req[q] EXCEPT !.blind = TRUE] /\ req[q] \in Request
      BY <2>2, RequestIsTyped DEF Overtaken, LaunchInv
    <3>2. req'[q] \in Request /\ req'[q].blind
      BY <3>1 DEF Request
    <3> QED BY <3>2 DEF CheckedAlone
  <2>3. CASE q \notin done /\ ~(req[q].pc = "launch" /\ req[q].job = j
             /\ (j \in LeagueJobs \/ req[q].owner = p))
    <3>1. req'[q] = req[q] /\ CheckedAlone(q)
      BY <2>3 DEF Overtaken, LaunchInv
    <3>2. ASSUME req[q].pc = "launch", ~req[q].blind, req[q].job \in OwnJobs, NEW k \in Slots,
                 IsAt(k, req[q].owner, req[q].job)'
          PROVE  FALSE
      <4>1. CASE k = i
        BY <1>4, <2>3, <3>1, <3>2, <4>1 DEF IsAt
      <4>2. CASE k # i
        BY <1>4, <3>1, <3>2, <4>2 DEF CheckedAlone, IsAt, Live
      <4> QED BY <4>1, <4>2
    <3> QED BY <1>1, <3>1, <3>2 DEF CheckedAlone, IsAt, Live
  <2> QED BY <2>1, <2>2, <2>3
<1>6. LaunchTypeOK'
  BY <1>1, <1>2, <1>3, <1>5 DEF LaunchTypeOK
<1>7. ASSUME NEW a \in Slots, NEW k \in Slots PROVE OneWasBlind(a, k)'
  <2>1. CASE a # i /\ k # i
    BY <1>4, <2>1 DEF LaunchInv, OneWasBlind, IsAt, Live
  <2>2. CASE a = i /\ k # i
    BY <1>4, <2>2 DEF OneWasBlind, IsAt, Live
  <2>3. CASE a # i /\ k = i
    BY <1>4, <2>3 DEF OneWasBlind, IsAt, Live
  <2> QED BY <2>1, <2>2, <2>3 DEF OneWasBlind
<1> QED BY <1>5, <1>6, <1>7 DEF LaunchInv

LEMMA LaunchByHandKeeps ==
    ASSUME LaunchInv, NEW q \in Calls, NEW i \in Slots, NEW ok \in BOOLEAN, LaunchByHand(q, i, ok)
    PROVE  LaunchInv'
<1>1. /\ req[q] \in Request /\ req[q].pc = "launch" /\ task[i] = NoTask
      /\ req \in [Calls -> Request \cup {NoRequest}]
  BY RequestIsTyped DEF LaunchByHand, LaunchInv, LaunchTypeOK
<1>2. CASE ~ok
  <2>1. req' = [req EXCEPT ![q] = NoRequest] /\ task' = task
    BY <1>2 DEF LaunchByHand
  <2> QED BY <2>1, OneRequestMoves DEF NoRequest
<1>3. CASE ok
  <2>1. /\ req[q].owner \in Tenants /\ req[q].job \in Jobs /\ req[q].blind \in BOOLEAN
        /\ RunTask(i, req[q].owner, req[q].job, TRUE, req[q].blind)
        /\ req' = [Overtaken(req[q].owner, req[q].job) EXCEPT ![q] = NoRequest]
    BY <1>1, <1>3 DEF LaunchByHand, Request
  <2>2. PICK p \in Tenants, j \in Jobs, b \in BOOLEAN, m \in BOOLEAN, done \in SUBSET Calls :
            /\ p = req[q].owner /\ j = req[q].job /\ b = req[q].blind
            /\ m = TRUE /\ done = {q}
    BY <2>1
  <2>3. RunTask(i, p, j, m, b)
    BY <2>1, <2>2
  <2>4. req' = [o \in Calls |-> IF o \in done THEN NoRequest ELSE Overtaken(p, j)[o]]
    BY <2>1, <2>2 DEF Overtaken
  <2>5. m /\ ~b /\ j \in OwnJobs => \A k \in Slots : ~IsAt(k, p, j)
    BY <1>1, <2>2 DEF LaunchInv, CheckedAlone
  <2> QED BY <1>1, <2>3, <2>4, <2>5, NewTaskKeeps
<1> QED BY <1>2, <1>3

LEMMA LaunchByScheduleKeeps ==
    ASSUME LaunchInv, NEW i \in Slots, NEW t \in Tenants, NEW j \in Jobs,
           LaunchBySchedule(i, t, j)
    PROVE  LaunchInv'
<1>1. task[i] = NoTask /\ RunTask(i, t, j, FALSE, FALSE) /\ req' = Overtaken(t, j)
  BY DEF LaunchBySchedule
<1>2. req' = [q \in Calls |-> IF q \in {} THEN NoRequest ELSE Overtaken(t, j)[q]]
  BY <1>1 DEF Overtaken
<1>3. FALSE \in BOOLEAN /\ {} \in SUBSET Calls
  OBVIOUS
<1> QED BY <1>1, <1>2, <1>3, NewTaskKeeps

LEMMA InitLaunch == LaunchInit => LaunchInv
  BY DEF LaunchInit, LaunchInv, LaunchTypeOK, CheckedAlone, OneWasBlind, IsAt, Live,
         NoTask, NoRequest

LEMMA StepLaunch == LaunchInv /\ [LaunchNext]_launchVars => LaunchInv'
<1> SUFFICES ASSUME LaunchInv, [LaunchNext]_launchVars PROVE LaunchInv'
  OBVIOUS
<1>1. CASE UNCHANGED launchVars
  BY <1>1 DEF LaunchInv, LaunchTypeOK, CheckedAlone, OneWasBlind, IsAt, Live, launchVars
<1>2. CASE \E q \in Calls, c \in Callers, j \in Jobs : Ask(q, c, j)
  BY <1>2, AskKeeps
<1>3. CASE \E q \in Calls, read \in SUBSET Slots : Check(q, read)
  BY <1>3, CheckKeeps
<1>4. CASE \E q \in Calls, i \in Slots, ok \in BOOLEAN : LaunchByHand(q, i, ok)
  BY <1>4, LaunchByHandKeeps
<1>5. CASE \E i \in Slots, t \in Tenants, j \in Jobs : LaunchBySchedule(i, t, j)
  BY <1>5, LaunchByScheduleKeeps
<1>6. CASE \E i \in Slots, ok \in BOOLEAN : Start(i, ok) \/ Finish(i, ok) \/ Stop(i, ok)
  BY <1>6, TaskStepKeeps
<1>7. CASE \E i \in Slots : Exit(i) \/ Kill(i)
  <2>1. TRUE \in BOOLEAN
    OBVIOUS
  <2> QED BY <1>7, <2>1, TaskStepKeeps
<1>8. CASE LaunchClock
  BY <1>8, LaunchClockKeeps
<1> QED BY <1>1, <1>2, <1>3, <1>4, <1>5, <1>6, <1>7, <1>8 DEF LaunchNext

(* Every reachable state of the tasks and the requests is well typed          *)
(* (handleJob, entrypoint.sh).                                                *)
THEOREM LaunchTypeCorrect == LaunchSpec => []LaunchTypeOK
<1>1. LaunchInv => LaunchTypeOK
  BY DEF LaunchInv
<1> QED BY <1>1, InitLaunch, StepLaunch, PTL DEF LaunchSpec

(* Two runs by hand of one tenant's job overlap only if the guard could not    *)
(* see one of them when it let the other through, for any tenants, jobs, tasks *)
(* and requests at a time (inFlightRun).                                       *)
THEOREM GuardMissesOnlyBlindly == LaunchSpec => []OverlapsWereBlind
  BY InitLaunch, StepLaunch, InvImpliesBlind, PTL DEF LaunchSpec
-----------------------------------------------------------------------------
(* Grade.  The newest graded day is the only memory of what is not graded, so  *)
(* the invariant says of every capture that could be graded and is not: its    *)
(* day is newer, or the run under way has it to write, or its day is one that   *)
(* was named, passed over by hand or torn.                                     *)

\* A set of days that holds one holds its last: the least distance to a bound.
LEMMA LastDayExists ==
    ASSUME NEW D \in SUBSET Nat, NEW n \in Nat, D # {}, \A d \in D : d <= n
    PROVE  \E d \in D : \A e \in D : e <= d
<1> DEFINE T == {n - d : d \in D}
           R == OpToRel(<, Nat)
<1>1. T \subseteq Nat /\ T # {}
  <2>1. ASSUME NEW d \in D PROVE n - d \in Nat
    BY d \in Nat, d <= n
  <2> QED BY <2>1
<1>2. IsWellFoundedOn(R, Nat)
  BY NatLessThanWellFounded
<1>3. PICK x \in T : \A y \in T : <<y, x>> \notin R
  <2> HIDE DEF R, T
  <2> QED BY <1>1, <1>2, WFMin
<1>4. ASSUME NEW y \in T PROVE ~(y < x)
  BY <1>1, <1>3 DEF OpToRel
<1>5. PICK d \in D : x = n - d
  BY <1>3
<1>6. ASSUME NEW e \in D PROVE e <= d
  <2>1. n - e \in T
    OBVIOUS
  <2>2. ~(n - e < n - d)
    BY <1>4, <1>5, <2>1
  <2> QED BY <2>2
<1> QED BY <1>6

Told(d) == d \in named \cup jumped \cup torn

\* The run under way reaches the days before today; what is left of it are rows
\* it may write.
Reaches ==
    grader # NotGrading =>
        \A p \in grader.todo : p \in GradableRows(1..(today - 1))

Remembered(p) ==
    \/ Told(p[1]) \/ p \in unread
    \/ grader = NotGrading /\ p[1] > LatestGradedDay
    \/ grader # NotGrading /\ p \in grader.todo

GradeInv ==
    /\ GradeTypeOK
    /\ \A p \in rows : p[1] < today
    /\ Reaches
    /\ \A p \in GradableRows(1..(today - 1)) : p \notin rows => Remembered(p)

LEMMA LatestIsLast ==
    ASSUME GradeTypeOK
    PROVE  /\ LatestGradedDay \in Nat
           /\ \A p \in rows : p[1] <= LatestGradedDay
           /\ LatestGradedDay = 0 <=> rows = {}
           /\ rows # {} => LatestGradedDay \in {p[1] : p \in rows}
<1> DEFINE held == {p[1] : p \in rows}
<1>1. held \subseteq 1..MaxDays /\ MaxDays \in Nat
  BY GradeAssumption DEF GradeTypeOK, GradeDays
<1>2. CASE held = {}
  <2>1. LatestGradedDay = 0
    BY <1>2 DEF LatestGradedDay
  <2> QED BY <1>2, <2>1
<1>3. CASE held # {}
  <2>1. \E d \in held : \A e \in held : e <= d
    <3>1. held \in SUBSET Nat /\ \A d \in held : d <= MaxDays
      BY <1>1
    <3> HIDE DEF held
    <3> QED BY <1>1, <1>3, <3>1, LastDayExists
  <2>2. LatestGradedDay = CHOOSE d \in held : \A e \in held : e <= d
    BY <1>3 DEF LatestGradedDay
  <2>3. LatestGradedDay \in held /\ \A e \in held : e <= LatestGradedDay
    <3> HIDE DEF held
    <3> QED BY <2>1, <2>2
  <2>4. \A p \in rows : p[1] \in held
    OBVIOUS
  <2>5. rows # {}
    BY <1>3
  <2> QED BY <1>1, <2>3, <2>4, <2>5
<1> QED BY <1>2, <1>3

LEMMA GradeNumbers ==
    /\ Window \in Nat /\ MaxWindow \in Nat /\ MaxDays \in Nat /\ 1 <= MaxDays /\ 1 <= Window
  BY GradeAssumption

LEMMA WindowStartIs ==
    ASSUME GradeTypeOK
    PROVE  /\ today \in Nat /\ WindowWanted \in Int /\ WindowStart \in Nat /\ 1 <= WindowStart
           /\ WindowWanted <= WindowStart
           /\ LatestGradedDay # 0 => WindowWanted <= LatestGradedDay + 1
<1>1. today \in Nat /\ LatestGradedDay \in Nat
  BY LatestIsLast, GradeNumbers DEF GradeTypeOK, GradeDays
<1>2. WindowFloor \in Int /\ WindowCap \in Int
  BY <1>1, GradeNumbers DEF WindowFloor, WindowCap
<1>3. WindowWanted \in Int /\ (LatestGradedDay # 0 => WindowWanted <= LatestGradedDay + 1)
  BY <1>1, <1>2 DEF WindowWanted
<1>4. WindowStart \in Nat /\ 1 <= WindowStart /\ WindowWanted <= WindowStart
  BY <1>2, <1>3 DEF WindowStart, Larger
<1> QED BY <1>1, <1>3, <1>4

\* What a run neither covers nor names is not newer than the newest graded day.
LEMMA OutsideIsOld ==
    ASSUME GradeTypeOK, NEW d \in 1..(today - 1), d \notin WindowDays, d \notin OutOfReach
    PROVE  d <= LatestGradedDay
<1>1. /\ today \in Nat /\ WindowWanted \in Int /\ WindowStart \in Nat /\ 1 <= WindowStart
      /\ LatestGradedDay \in Nat /\ d \in Nat /\ 1 <= d /\ d <= today - 1
      /\ LatestGradedDay # 0 => WindowWanted <= LatestGradedDay + 1
  BY WindowStartIs, LatestIsLast
<1>2. d < WindowStart
  BY <1>1 DEF WindowDays
<1>3. CASE LatestGradedDay = 0
  BY <1>1, <1>2, <1>3 DEF OutOfReach
<1>4. CASE LatestGradedDay # 0
  <2>1. d < WindowWanted
    BY <1>1, <1>2, <1>4 DEF OutOfReach, Larger
  <2> QED BY <1>1, <1>4, <2>1
<1> QED BY <1>3, <1>4

LEMMA InvImpliesNotForgotten == GradeInv => NothingIsForgotten
<1> SUFFICES ASSUME GradeInv, NEW p \in GradableRows(1..(today - 1)), Behind(p)
             PROVE  p[1] \in named \cup jumped \cup torn \/ p \in unread
  BY DEF NothingIsForgotten
<1>1. p[1] \in 1..(today - 1) /\ p \notin rows /\ Remembered(p)
  BY DEF GradeInv, GradableRows, Behind
<1>2. CASE grader = NotGrading /\ p[1] > LatestGradedDay
  <2>1. p[1] \notin OutOfReach /\ p[1] < WindowStart
    BY DEF Behind
  <2>2. p[1] \notin WindowDays
    BY <1>1, <2>1, WindowStartIs DEF WindowDays, GradeInv
  <2>3. p[1] <= LatestGradedDay
    BY <1>1, <2>1, <2>2, OutsideIsOld DEF GradeInv
  <2> QED BY <1>1, <1>2, <2>3, LatestIsLast DEF GradeInv
<1>3. CASE grader # NotGrading /\ p \in grader.todo
  BY <1>3 DEF Behind
<1> QED BY <1>1, <1>2, <1>3 DEF Remembered, Told

LEMMA InitGrade == GradeInit => GradeInv
<1> SUFFICES ASSUME GradeInit PROVE GradeInv
  OBVIOUS
<1>1. GradeTypeOK
  BY GradeNumbers DEF GradeInit, GradeTypeOK, GradeDays
<1>2. GradableRows(1..(today - 1)) = {}
  BY DEF GradeInit, GradableRows
<1> QED BY <1>1, <1>2 DEF GradeInit, GradeInv, Reaches

\* The day that ends is newer than every graded one.
LEMMA NextDayKeeps ==
    ASSUME GradeInv, NEW games \in BOOLEAN, NEW ss \in SUBSET Systems, NextDay(games, ss)
    PROVE  GradeInv'
<1>1. /\ today \in 1..MaxDays /\ today < MaxDays /\ today' = today + 1 /\ grader = NotGrading
      /\ played' = (IF games THEN played \cup {today} ELSE played)
      /\ capture \in [GradeDays -> SUBSET Systems]
      /\ capture' = [capture EXCEPT ![today] = ss]
      /\ UNCHANGED <<rows, skips, grader, named, jumped, torn, unread>>
  BY DEF NextDay, GradeInv, GradeTypeOK, GradeDays
<1>2. today \in Nat /\ today' \in 1..MaxDays /\ today - 1 \in Nat /\ today' - 1 = today
  BY <1>1, GradeNumbers
<1>3. GradeTypeOK'
  BY <1>1, <1>2 DEF GradeInv, GradeTypeOK, GradeDays
<1>4. ASSUME NEW p \in rows PROVE p[1] < today'
  <2>1. p[1] < today /\ p[1] \in Nat
    BY GradeNumbers DEF GradeInv, GradeTypeOK, GradeDays
  <2> QED BY <1>2, <1>1, <2>1
<1>5. LatestGradedDay' = LatestGradedDay
  BY <1>1 DEF LatestGradedDay
<1>6. ASSUME NEW p \in GradableRows(1..(today - 1))', p \notin rows' PROVE Remembered(p)'
  <2>1. /\ p[1] \in 1..today /\ p \in (1..today) \X Systems
        /\ p[1] \in played' /\ p[2] \in capture'[p[1]]
    BY <1>2, <1>6 DEF GradableRows
  <2>2. CASE p[1] = today
    <3>1. LatestGradedDay < today
      <4>1. CASE rows = {}
        BY <1>2, <4>1, LatestIsLast DEF GradeInv
      <4>2. CASE rows # {}
        <5>1. LatestGradedDay \in {q[1] : q \in rows}
          BY <4>2, LatestIsLast DEF GradeInv
        <5> QED BY <5>1 DEF GradeInv
      <4> QED BY <4>1, <4>2
    <3>2. p[1] > LatestGradedDay
      BY <1>2, <2>2, <3>1, LatestIsLast DEF GradeInv
    <3> QED BY <1>1, <1>5, <3>2 DEF Remembered
  <2>3. CASE p[1] # today
    <3>1. p[1] \in 1..(today - 1) /\ p \in (1..(today - 1)) \X Systems
      BY <1>2, <2>1, <2>3
    <3>2. p[1] \in played /\ p[2] \in capture[p[1]]
      BY <1>1, <2>1, <2>3
    <3>3. p \in GradableRows(1..(today - 1)) /\ p \notin rows
      BY <1>1, <1>6, <3>1, <3>2 DEF GradableRows
    <3>4. Remembered(p)
      BY <3>3 DEF GradeInv
    <3> QED BY <1>1, <1>5, <3>4 DEF Remembered, Told
  <2> QED BY <2>2, <2>3
<1> QED BY <1>1, <1>3, <1>4, <1>6 DEF GradeInv, Reaches

\* A run takes up a range: what it leaves out is in what it adds to the history,
\* or is remembered already.
LEMMA BeginKeeps ==
    ASSUME GradeInv, NEW ds \in SUBSET (1..(today - 1)), grader = NotGrading,
           NEW failed \in SUBSET GradableRows(ds), Writing(ds, failed), UNCHANGED <<today, played, capture, rows, skips, torn>>,
           named \subseteq named', jumped \subseteq jumped',
           named' \subseteq GradeDays, jumped' \subseteq GradeDays,
           ((WindowDays \cup OutOfReach) \cap (1..(today - 1))) \ ds \subseteq named' \cup jumped'
    PROVE  GradeInv'
<1>1. today \in 1..MaxDays /\ MaxDays \in Nat
  BY GradeNumbers DEF GradeInv, GradeTypeOK, GradeDays
<1>2. 1..(today - 1) \subseteq GradeDays
  BY <1>1 DEF GradeDays
<1>3. /\ GradableRows(ds) \subseteq GradableRows(1..(today - 1))
      /\ GradableRows(ds) \subseteq GradeDays \X Systems /\ UngradeableDays(ds) \subseteq GradeDays
  BY <1>2 DEF GradableRows, UngradeableDays
<1>4. grader' \in Graders /\ grader'.todo = GradableRows(ds) \ failed
      /\ unread' = (unread \ GradableRows(ds)) \cup failed
  BY <1>3 DEF Writing, LoadSnapshot, Graders
<1>5. grader' # NotGrading
  BY DEF Writing, NotGrading
<1>6. GradeTypeOK'
  BY <1>3, <1>4 DEF GradeInv, GradeTypeOK
<1>7. ASSUME NEW p \in GradableRows(1..(today - 1)), p \notin rows PROVE Remembered(p)'
  <2>1. /\ p[1] \in 1..(today - 1) /\ p[1] \in Nat /\ Remembered(p)
        /\ GradeTypeOK
    BY <1>1, <1>7 DEF GradeInv, GradableRows
  <2>2. CASE p[1] \in ds
    <3>1. p \in GradableRows(ds)
      BY <1>7, <2>2 DEF GradableRows
    <3>2. p \in grader'.todo \/ p \in unread'
      BY <1>4, <3>1
    <3> QED BY <1>5, <3>2 DEF Remembered
  <2>3. CASE p[1] \notin ds /\ p[1] \in WindowDays \cup OutOfReach
    <3>1. p[1] \in named' \cup jumped'
      BY <2>1, <2>3
    <3> QED BY <3>1 DEF Remembered, Told
  <2>4. CASE p[1] \notin ds /\ p[1] \notin WindowDays \cup OutOfReach
    <3>1. p[1] <= LatestGradedDay /\ LatestGradedDay \in Nat
      BY <2>1, <2>4, OutsideIsOld, LatestIsLast
    <3>2. Told(p[1]) \/ p \in unread
      BY <2>1, <3>1 DEF Remembered
    <3>3. CASE Told(p[1])
      BY <3>3 DEF Remembered, Told
    <3>4. CASE p \in unread
      <4>1. p \in unread'
        BY <1>4, <2>4, <3>4 DEF GradableRows
      <4> QED BY <4>1 DEF Remembered
    <3> QED BY <3>2, <3>3, <3>4
  <2> QED BY <2>2, <2>3, <2>4
<1>8. GradableRows(1..(today - 1))' = GradableRows(1..(today - 1))
  BY DEF GradableRows
<1>9. Reaches'
  BY <1>3, <1>4, <1>8 DEF Reaches
<1>10. \A p \in rows' : p[1] < today'
  BY DEF GradeInv
<1> QED BY <1>6, <1>7, <1>8, <1>9, <1>10 DEF GradeInv

\* What a run covers and what it names are days.
LEMMA WindowsAreDays ==
    ASSUME GradeInv
    PROVE  WindowDays \subseteq 1..(today - 1) /\ OutOfReach \subseteq GradeDays
<1>1. /\ today \in Nat /\ today <= MaxDays /\ MaxDays \in Nat
      /\ WindowWanted \in Int /\ WindowStart \in Nat /\ 1 <= WindowStart
  BY WindowStartIs, GradeNumbers DEF GradeInv, GradeTypeOK, GradeDays
<1>2. WindowStart - 1 <= MaxDays
  <2>1. WindowWanted <= today /\ WindowCap <= today
    <3>1. LatestGradedDay \in Nat
      BY LatestIsLast DEF GradeInv
    <3> QED BY <1>1, <3>1, GradeNumbers DEF WindowWanted, WindowFloor, WindowCap
  <2> QED BY <1>1, <2>1, GradeNumbers DEF WindowStart, Larger, WindowCap
<1>3. OutOfReach \subseteq 1..MaxDays
  BY <1>1, <1>2 DEF OutOfReach, Larger
<1> QED BY <1>1, <1>3 DEF WindowDays, GradeDays

LEMMA GradeBeginKeeps ==
    ASSUME GradeInv, NEW failed \in SUBSET GradableRows(WindowDays), GradeBegin(failed)
    PROVE  GradeInv'
<1>1. /\ WindowDays \in SUBSET (1..(today - 1)) /\ OutOfReach \subseteq GradeDays
      /\ named \subseteq GradeDays /\ jumped \subseteq GradeDays
  BY WindowsAreDays DEF GradeInv, GradeTypeOK
<1>2. PICK ds \in SUBSET (1..(today - 1)) : ds = WindowDays
  BY <1>1
<1>3. /\ grader = NotGrading /\ Writing(ds, failed) /\ named' = named \cup OutOfReach
      /\ UNCHANGED <<today, played, capture, rows, skips, jumped, torn>>
  BY <1>2 DEF GradeBegin
<1>4. ((WindowDays \cup OutOfReach) \cap (1..(today - 1))) \ ds \subseteq named' \cup jumped'
  BY <1>2, <1>3
<1>5. failed \in SUBSET GradableRows(ds)
  BY <1>2
<1> QED BY <1>1, <1>3, <1>4, <1>5, BeginKeeps

LEMMA GradeByHandKeeps ==
    ASSUME GradeInv, NEW r \in HandRanges, NEW failed \in SUBSET GradableRows(r[1]..r[2]),
           GradeByHand(r[1], r[2], failed)
    PROVE  GradeInv'
<1>1. /\ r[1] \in 1..MaxDays /\ r[2] \in 1..MaxDays /\ today \in 1..MaxDays /\ r[2] < today
      /\ MaxDays \in Nat
  BY GradeAssumption DEF GradeByHand, GradeInv, GradeTypeOK, GradeDays
<1>2. PICK ds \in SUBSET (1..(today - 1)) : ds = r[1]..r[2]
  BY <1>1
<1>3. /\ grader = NotGrading /\ Writing(ds, failed)
      /\ jumped' = jumped \cup ((WindowDays \cup OutOfReach) \ ds)
      /\ UNCHANGED <<today, played, capture, rows, skips, named, torn>>
  BY <1>2 DEF GradeByHand
<1>4. /\ WindowDays \subseteq GradeDays /\ OutOfReach \subseteq GradeDays
      /\ named \subseteq GradeDays /\ jumped \subseteq GradeDays
  BY <1>1, WindowsAreDays DEF GradeInv, GradeTypeOK, GradeDays
<1>5. ((WindowDays \cup OutOfReach) \cap (1..(today - 1))) \ ds \subseteq named' \cup jumped'
  BY <1>3
<1>6. failed \in SUBSET GradableRows(ds)
  BY <1>2
<1> QED BY <1>3, <1>4, <1>5, <1>6, BeginKeeps

LEMMA GraderIsTyped ==
    ASSUME GradeInv, grader.pc = "writing"
    PROVE  grader \in Graders /\ grader # NotGrading
  BY DEF GradeInv, GradeTypeOK, NotGrading

LEMMA WriteGradesKeeps ==
    ASSUME GradeInv, NEW p \in GradeDays \X Systems, WriteGrades(p)
    PROVE  GradeInv'
<1>1. /\ grader \in Graders /\ grader # NotGrading /\ p \in grader.todo
      /\ rows' = rows \cup {p} /\ grader' = [grader EXCEPT !.todo = @ \ {p}]
      /\ UNCHANGED <<today, played, capture, skips, named, jumped, torn, unread>>
  BY GraderIsTyped DEF WriteGrades
<1>2. grader' \in Graders /\ grader'.todo = grader.todo \ {p} /\ grader'.pc = "writing"
  BY <1>1 DEF Graders
<1>3. grader' # NotGrading
  BY <1>2 DEF NotGrading
<1>4. GradableRows(1..(today - 1))' = GradableRows(1..(today - 1))
  BY <1>1 DEF GradableRows
<1>5. GradeTypeOK'
  BY <1>1, <1>2 DEF GradeInv, GradeTypeOK
<1>6. p \in GradableRows(1..(today - 1)) /\ p[1] < today
  <2>1. p \in GradableRows(1..(today - 1)) /\ today \in Nat
    BY <1>1, GradeNumbers DEF GradeInv, Reaches, GradeTypeOK, GradeDays
  <2>2. p[1] \in 1..(today - 1)
    BY <2>1 DEF GradableRows
  <2> QED BY <2>1, <2>2
<1>7. Reaches'
  BY <1>1, <1>2, <1>4 DEF GradeInv, Reaches
<1>8. ASSUME NEW q \in GradableRows(1..(today - 1)), q \notin rows' PROVE Remembered(q)'
  <2>1. q \notin rows /\ q # p /\ Remembered(q)
    BY <1>1, <1>8 DEF GradeInv
  <2> QED BY <1>1, <1>2, <1>3, <2>1 DEF Remembered, Told
<1> QED BY <1>1, <1>4, <1>5, <1>6, <1>7, <1>8 DEF GradeInv

\* A run ends with nothing left to write, or what is left is torn: either way
\* every capture is graded or its day is told.
LEMMA EndKeeps ==
    ASSUME GradeInv, grader.pc = "writing", grader' = NotGrading,
           UNCHANGED <<today, played, capture, rows, named, jumped, unread>>,
           skips' \subseteq GradeDays, torn' \subseteq GradeDays, torn \subseteq torn',
           \A p \in grader.todo : p[1] \in torn'
    PROVE  GradeInv'
<1>1. grader # NotGrading
  BY GraderIsTyped
<1>2. GradeTypeOK'
  BY DEF GradeInv, GradeTypeOK
<1>3. GradableRows(1..(today - 1))' = GradableRows(1..(today - 1))
  BY DEF GradableRows
<1>4. ASSUME NEW p \in GradableRows(1..(today - 1)), p \notin rows PROVE Remembered(p)'
  <2>1. Told(p[1]) \/ p \in unread \/ p \in grader.todo
    BY <1>1, <1>4 DEF GradeInv, Remembered
  <2> QED BY <2>1 DEF Remembered, Told
<1> QED BY <1>2, <1>3, <1>4 DEF GradeInv, Reaches

LEMMA GradeEndKeeps == GradeInv /\ (WriteSkips \/ GradeDies) => GradeInv'
<1> SUFFICES ASSUME GradeInv, WriteSkips \/ GradeDies PROVE GradeInv'
  OBVIOUS
<1>1. grader.pc = "writing" /\ grader \in Graders /\ skips \subseteq GradeDays
      /\ torn \subseteq GradeDays
  BY GraderIsTyped DEF WriteSkips, GradeDies, GradeInv, GradeTypeOK
<1>2. grader.marks \subseteq GradeDays /\ grader.todo \subseteq GradeDays \X Systems
  BY <1>1 DEF Graders
<1>3. CASE WriteSkips
  BY <1>1, <1>2, <1>3, EndKeeps DEF WriteSkips
<1>4. CASE GradeDies
  <2>1. torn' \subseteq GradeDays /\ torn \subseteq torn' /\ \A p \in grader.todo : p[1] \in torn'
    BY <1>1, <1>2, <1>4 DEF GradeDies
  <2> QED BY <1>1, <1>4, <2>1, EndKeeps DEF GradeDies
<1> QED BY <1>3, <1>4

LEMMA StepGrade == GradeInv /\ [GradeNext]_gradeVars => GradeInv'
<1> SUFFICES ASSUME GradeInv, [GradeNext]_gradeVars PROVE GradeInv'
  OBVIOUS
<1>1. CASE UNCHANGED gradeVars
  <2>1. GradableRows(1..(today - 1))' = GradableRows(1..(today - 1))
        /\ LatestGradedDay' = LatestGradedDay
    BY <1>1 DEF gradeVars, GradableRows, LatestGradedDay
  <2> QED BY <1>1, <2>1 DEF GradeInv, GradeTypeOK, Reaches, Remembered, Told, gradeVars
<1>2. CASE \E games \in BOOLEAN, ss \in SUBSET Systems : NextDay(games, ss)
  BY <1>2, NextDayKeeps
<1>3. CASE \E failed \in SUBSET GradableRows(WindowDays) : GradeBegin(failed)
  BY <1>3, GradeBeginKeeps
<1>4. CASE \E r \in HandRanges : \E failed \in SUBSET GradableRows(r[1]..r[2]) :
             GradeByHand(r[1], r[2], failed)
  BY <1>4, GradeByHandKeeps
<1>5. CASE \E p \in GradeDays \X Systems : WriteGrades(p)
  BY <1>5, WriteGradesKeeps
<1>6. CASE WriteSkips \/ GradeDies
  BY <1>6, GradeEndKeeps
<1> QED BY <1>1, <1>2, <1>3, <1>4, <1>5, <1>6 DEF GradeNext

(* Every reachable state of the store and of the grade job is well typed      *)
(* (cmd/grade.go).                                                            *)
THEOREM GradeTypeCorrect == GradeSpec => []GradeTypeOK
<1>1. GradeInv => GradeTypeOK
  BY DEF GradeInv
<1> QED BY <1>1, InitGrade, StepGrade, PTL DEF GradeSpec

(* A capture that could be graded is left behind by the newest day of the      *)
(* store only if its day was named, passed over by hand or torn, or the last   *)
(* run over it could not read it, for any systems, windows, ranges by hand and *)
(* length of the season (resolveGradeWindow).                                  *)
THEOREM NewestDayForgetsNothing == GradeSpec => []NothingIsForgotten
  BY InitGrade, StepGrade, InvImpliesNotForgotten, PTL DEF GradeSpec

-----------------------------------------------------------------------------
(* Pickups.  Who is owed what: whatever a run leaves behind the baseline was   *)
(* in every league's digest of that run, unless the league did not load, the   *)
(* digest had a tail, or the event is excused.                                 *)

Reported(e) == sent[e] > 0 \/ e \in excused
Pending == IF hunt.pc = "idle" THEN {} ELSE hunt.toMark

\* What of a league falls behind the baseline if the run under way moves it.
Owed(l) == DetectRoleChanges(l) \cup DetectDrops(l, hunt.at - Overlap)

Discharged(l) ==
    hunt.held \/ (hunt.tail /\ hunt.markersOK) \/ \A e \in Owed(l) : Reported(e)

MarksAreTrue == \A e \in marks \cup Pending : Reported(e)
SentLeavesTrace == \A e \in Items : sent[e] > 0 => e \in marks \cup Pending \cup unsure
HuntIsSound ==
    hunt.pc # "idle" =>
        /\ hunt.at <= clock
        /\ baseline = NoBaseline => hunt.todo = {}
        /\ hunt.pc = "league" => hunt.toMark = {}
        /\ baseline # NoBaseline => \A l \in Leagues \ hunt.todo : Discharged(l)

PickupInv ==
    /\ PickupTypeOK
    /\ baseline = NoBaseline \/ baseline.at \in Times
    /\ \A d \in Drops : doneAt[d] > 0 => LeagueOf[d] \in drafted
    /\ MarksAreTrue /\ SentLeavesTrace /\ HuntIsSound /\ RepeatsOnlyUnmarked

LEMMA PickupNumbers ==
    /\ Overlap \in Nat /\ FeedTTL \in Nat /\ MaxClock \in Nat /\ MaxFaults \in Nat
    /\ 1 <= Overlap /\ FeedTTL <= Overlap /\ 1 <= MaxClock
    /\ LeagueOf \in [Drops -> Leagues] /\ WeeksBack \in Nat
  BY PickupAssumption

LEMMA HuntIsRecord ==
    ASSUME PickupTypeOK
    PROVE  /\ hunt.pc \in {"idle", "league", "mark"}
           /\ hunt = NotHunting <=> hunt.pc = "idle"
           /\ hunt.pc # "idle" => hunt \in Hunts
           /\ NotHunting.pc = "idle"
  BY DEF PickupTypeOK, NotHunting, Hunts

LEMMA HuntFields ==
    ASSUME NEW h \in Hunts
    PROVE  /\ h.pc \in {"league", "mark"} /\ h.at \in Times /\ h.cur \in Dumps
           /\ h.todo \in SUBSET Leagues /\ h.toMark \in SUBSET Items
           /\ h.held \in BOOLEAN /\ h.tail \in BOOLEAN /\ h.markersOK \in BOOLEAN
  BY DEF Hunts

LEMMA DumpFields ==
    ASSUME NEW d \in Dumps
    PROVE  d.starters \in SUBSET Players /\ d.depth \in BOOLEAN /\ (d.depth \/ d.starters = {})
  BY DEF Dumps

LEMMA PickupTypes ==
    ASSUME PickupTypeOK
    PROVE  /\ clock \in Nat /\ 1 <= clock /\ clock <= MaxClock
           /\ sent \in [Items -> 0..2] /\ faults \in 0..MaxFaults
           /\ doneAt \in [Drops -> 0..MaxClock] /\ weeksAgo \in [Drops -> 0..(WeeksBack + 1)]
  BY PickupNumbers DEF PickupTypeOK, Times

LEMMA HuntAtIs ==
    ASSUME PickupInv, hunt.pc # "idle"
    PROVE  hunt.at \in Nat /\ 1 <= hunt.at /\ hunt.at <= clock
  BY HuntIsRecord, HuntFields, PickupNumbers DEF PickupInv, HuntIsSound, Times

\* What a run detects are items, and each is about itself.
LEMMA FoundAreItems ==
    ASSUME PickupInv, hunt.pc # "idle", baseline # NoBaseline, NEW l \in Leagues, NEW f,
           NEW e \in DetectRoleChanges(l) \cup DetectDrops(l, f)
    PROVE  e \in Items /\ EventOf(e) = e
<1>1. hunt.cur.starters \in SUBSET Players /\ baseline.at \in Times
  <2>1. PICK cur \in Dumps : cur = hunt.cur
    BY HuntIsRecord, HuntFields DEF PickupInv
  <2> QED BY <2>1, DumpFields DEF PickupInv
<1>2. CASE e \in DetectRoleChanges(l)
  <2>1. PICK p \in Players : e = <<l, <<p, baseline.at>>>>
    BY <1>1, <1>2 DEF DetectRoleChanges, Risen
  <2>2. e \in Items
    BY <1>1, <2>1 DEF Items, Keys
  <2>3. EventOf(e) = e
    BY <2>1 DEF EventOf
  <2> QED BY <2>2, <2>3
<1>3. CASE e \in DetectDrops(l, f)
  <2>1. PICK d \in Drops : e = <<l, d>>
    BY <1>3 DEF DetectDrops
  <2> QED BY <2>1 DEF Items, Keys, EventOf
<1> QED BY <1>2, <1>3

\* A run that looks sees at least what is owed: the feed is no staler than the
\* overlap allows for.
LEMMA FoundCoversOwed ==
    ASSUME PickupInv, hunt.pc # "idle", NEW l \in Leagues, NEW f \in (clock - FeedTTL)..clock
    PROVE  Owed(l) \subseteq DetectRoleChanges(l) \cup DetectDrops(l, f)
<1> SUFFICES ASSUME NEW e \in DetectDrops(l, hunt.at - Overlap) PROVE e \in DetectDrops(l, f)
  BY DEF Owed
<1>1. PICK d \in Drops : /\ e = <<l, d>> /\ LeagueOf[d] = l /\ doneAt[d] > Since
                         /\ weeksAgo[d] <= WeeksBack /\ doneAt[d] \in 1..(hunt.at - Overlap)
  BY DEF DetectDrops
<1>2. f \in Int /\ clock - FeedTTL <= f /\ clock \in Nat /\ doneAt[d] \in Nat
  BY <1>1, PickupNumbers, PickupTypes DEF PickupInv
<1>3. doneAt[d] \in 1..f
  BY <1>1, <1>2, PickupNumbers, HuntAtIs
<1> QED BY <1>1, <1>3 DEF DetectDrops

LEMMA InitPickups == PickupInit => PickupInv
<1> SUFFICES ASSUME PickupInit PROVE PickupInv
  OBVIOUS
<1>1. clock \in Times /\ 0 \in 0..MaxClock /\ 0 \in 0..2 /\ 0 \in 0..MaxFaults
  BY PickupNumbers DEF PickupInit, Times
<1>2. baseline \in Baselines /\ dump \in Dumps
  BY <1>1 DEF PickupInit, NoBaseline, Baselines, NoDepth, Dumps
<1>3. /\ taken \subseteq Leagues \X (Players \cup Drops) /\ doneAt \in [Drops -> 0..MaxClock]
      /\ sent \in [Items -> 0..2] /\ weeksAgo \in [Drops -> 0..(WeeksBack + 1)]
  BY <1>1, PickupNumbers DEF PickupInit
<1>4. PickupTypeOK
  BY <1>1, <1>2, <1>3 DEF PickupInit, PickupTypeOK
<1>5. hunt.pc = "idle"
  BY DEF PickupInit, NotHunting
<1>6. \A e \in Items : sent[e] = 0
  BY DEF PickupInit
<1>7. \A d \in Drops : doneAt[d] = 0
  BY DEF PickupInit
<1> QED BY <1>4, <1>5, <1>6, <1>7
        DEF PickupInit, PickupInv, MarksAreTrue, SentLeavesTrace, HuntIsSound,
            RepeatsOnlyUnmarked, Pending

\* What is discharged stays so while the run goes on.
LEMMA DischargedStays ==
    ASSUME PickupInv, hunt.pc # "idle", baseline # NoBaseline, baseline' = baseline,
           NEW l \in Leagues, Discharged(l),
           hunt'.at = hunt.at, hunt'.cur = hunt.cur, hunt'.markersOK = hunt.markersOK,
           hunt.held => hunt'.held, hunt.tail => hunt'.tail,
           doneAt' = doneAt, weeksAgo' = weeksAgo, \A e \in Items : Reported(e) => Reported(e)'
    PROVE  Discharged(l)'
<1>1. Owed(l)' = Owed(l)
  BY DEF Owed, DetectRoleChanges, Risen, DetectDrops, Since
<1>2. Owed(l) \subseteq Items
  BY FoundAreItems DEF Owed
<1> QED BY <1>1, <1>2 DEF Discharged

\* Outside the run and its histories nothing matters to the invariant.
LEMMA WorldTurns ==
    ASSUME PickupInv, UNCHANGED <<baseline, marks, hunt, sent, excused, unsure, doneAt, drafted>>,
           clock' >= clock, PickupTypeOK', hunt.pc = "idle" \/ weeksAgo' = weeksAgo
    PROVE  PickupInv'
<1>1. /\ MarksAreTrue' /\ SentLeavesTrace' /\ RepeatsOnlyUnmarked'
      /\ (\A d \in Drops : doneAt[d] > 0 => LeagueOf[d] \in drafted)'
      /\ (baseline = NoBaseline \/ baseline.at \in Times)'
  BY DEF PickupInv, MarksAreTrue, SentLeavesTrace, RepeatsOnlyUnmarked, Pending, Reported
<1>2. HuntIsSound'
  <2>1. hunt.pc # "idle" => hunt.at <= clock'
    BY HuntAtIs, PickupTypes DEF PickupInv, PickupTypeOK, Times
  <2>2. ASSUME hunt.pc # "idle", NEW l \in Leagues, Discharged(l) PROVE Discharged(l)'
    <3>1. Owed(l)' = Owed(l)
      BY <2>2 DEF Owed, DetectRoleChanges, Risen, DetectDrops, Since
    <3> QED BY <2>2, <3>1 DEF Discharged, Reported
  <2> QED BY <2>1, <2>2 DEF PickupInv, HuntIsSound
<1> QED BY <1>1, <1>2 DEF PickupInv

LEMMA TickKeeps ==
    ASSUME PickupInv, NEW newWeek \in BOOLEAN, Tick(newWeek)
    PROVE  PickupInv'
<1>1. clock' = clock + 1 /\ clock + 1 \in Times /\ clock' >= clock
  BY PickupNumbers, PickupTypes DEF Tick, PickupInv, Times
<1>2. PickupTypeOK /\ weeksAgo \in [Drops -> 0..(WeeksBack + 1)] /\ WeeksBack \in Nat
  BY PickupTypes, PickupNumbers DEF PickupInv
<1>3. /\ newWeek => hunt = NotHunting
      /\ weeksAgo' = [d \in Drops |->
                        IF newWeek /\ doneAt[d] > 0 /\ weeksAgo[d] <= WeeksBack
                        THEN weeksAgo[d] + 1 ELSE weeksAgo[d]]
      /\ UNCHANGED <<starters, dump, doneAt, taken, drafted, tooLong, baseline, marks, hunt,
                     history>>
  BY DEF Tick
<1>4. weeksAgo' \in [Drops -> 0..(WeeksBack + 1)]
  BY <1>2, <1>3
<1>5. hunt.pc = "idle" \/ weeksAgo' = weeksAgo
  <2>1. CASE newWeek
    BY <1>2, <1>3, <2>1, HuntIsRecord
  <2>2. CASE ~newWeek
    BY <1>2, <1>3, <2>2
  <2> QED BY <2>1, <2>2
<1>6. PickupTypeOK'
  BY <1>1, <1>2, <1>3, <1>4 DEF PickupTypeOK, history
<1> QED BY <1>1, <1>3, <1>5, <1>6, WorldTurns DEF history

LEMMA WorldKeeps ==
    ASSUME PickupInv,
           \/ \E p \in Players : DepthChartMoves(p)
           \/ \E l \in Leagues, x \in Players \cup Drops : Rostered(l, x)
    PROVE  PickupInv'
<1>1. UNCHANGED <<clock, dump, doneAt, weeksAgo, drafted, tooLong, baseline, marks, hunt, history>>
  BY DEF DepthChartMoves, Rostered
<1>2. starters \subseteq Players /\ taken \subseteq Leagues \X (Players \cup Drops)
  BY DEF PickupInv, PickupTypeOK
<1>3. ASSUME NEW p \in Players, DepthChartMoves(p)
      PROVE  starters' \subseteq Players /\ taken' \subseteq Leagues \X (Players \cup Drops)
  BY <1>2, <1>3 DEF DepthChartMoves
<1>4. ASSUME NEW l \in Leagues, NEW x \in Players \cup Drops, Rostered(l, x)
      PROVE  starters' \subseteq Players /\ taken' \subseteq Leagues \X (Players \cup Drops)
  BY <1>2, <1>4 DEF Rostered
<1>5. PickupTypeOK' /\ clock' >= clock
  BY <1>1, <1>3, <1>4, PickupTypes DEF PickupInv, PickupTypeOK, history
<1> QED BY <1>1, <1>5, WorldTurns DEF history

LEMMA DroppedKeeps ==
    ASSUME PickupInv, NEW d \in Drops, Dropped(d)
    PROVE  PickupInv'
<1>1. /\ doneAt[d] = 0 /\ LeagueOf[d] \in drafted /\ doneAt' = [doneAt EXCEPT ![d] = clock]
      /\ UNCHANGED <<clock, starters, dump, weeksAgo, taken, drafted, tooLong, baseline, marks,
                     hunt, sent, excused, unsure, faults>>
  BY DEF Dropped, history
<1>2. /\ doneAt \in [Drops -> 0..MaxClock] /\ clock \in 0..MaxClock
      /\ doneAt'[d] = clock /\ \A x \in Drops \ {d} : doneAt'[x] = doneAt[x]
  BY <1>1, PickupTypes, PickupNumbers DEF PickupInv
<1>3. PickupTypeOK'
  BY <1>1, <1>2 DEF PickupInv, PickupTypeOK
<1>4. \A x \in Drops : doneAt'[x] > 0 => LeagueOf[x] \in drafted'
  BY <1>1, <1>2 DEF PickupInv
<1>5. ASSUME hunt.pc # "idle", NEW l \in Leagues, Discharged(l) PROVE Discharged(l)'
  <2>1. ASSUME NEW x \in Drops
        PROVE  doneAt'[x] > Since /\ doneAt'[x] \in 1..(hunt.at - Overlap)
                 <=> doneAt[x] > Since /\ doneAt[x] \in 1..(hunt.at - Overlap)
    <3>1. CASE x = d
      <4>1. ~(clock \in 1..(hunt.at - Overlap)) /\ ~(0 \in 1..(hunt.at - Overlap))
        BY <1>5, HuntAtIs, PickupNumbers, PickupTypes DEF PickupInv
      <4> QED BY <1>1, <1>2, <3>1, <4>1
    <3>2. CASE x # d
      BY <1>2, <3>2
    <3> QED BY <3>1, <3>2
  <2>2. Since' = Since /\ hunt' = hunt /\ baseline' = baseline
    BY <1>1 DEF Since
  <2>3. DetectDrops(l, hunt.at - Overlap)' = DetectDrops(l, hunt.at - Overlap)
    BY <1>1, <2>1, <2>2 DEF DetectDrops
  <2>4. Owed(l)' = Owed(l)
    BY <2>2, <2>3 DEF Owed, DetectRoleChanges, Risen
  <2> QED BY <1>1, <1>5, <2>4 DEF Discharged, Reported
<1>6. HuntIsSound'
  BY <1>1, <1>5 DEF PickupInv, HuntIsSound
<1> QED BY <1>1, <1>3, <1>4, <1>6
        DEF PickupInv, MarksAreTrue, SentLeavesTrace, RepeatsOnlyUnmarked, Pending, Reported

\* A fault is counted within its bound.
LEMMA FaultCounts ==
    ASSUME PickupTypeOK, NEW is \in BOOLEAN, Fault(is)
    PROVE  faults' \in 0..MaxFaults
  BY PickupTypes, PickupNumbers DEF Fault

LEMMA BeginHuntKeeps ==
    ASSUME PickupInv, NEW cur \in Dumps, NEW markersOK \in BOOLEAN, BeginHunt(cur, markersOK)
    PROVE  PickupInv'
<1> DEFINE due == IF baseline = NoBaseline THEN {} ELSE Leagues
           h == [pc |-> "league", at |-> clock, cur |-> cur, todo |-> due,
                 toMark |-> {}, held |-> FALSE, tail |-> FALSE, markersOK |-> markersOK]
<1>1. /\ hunt = NotHunting /\ dump' = cur /\ hunt' = h
      /\ Fault(~markersOK \/ (cur = NoDepth /\ dump # NoDepth))
      /\ UNCHANGED <<clock, starters, doneAt, weeksAgo, taken, drafted, tooLong, baseline, marks,
                     sent, excused, unsure>>
  BY DEF BeginHunt
<1>2. PickupTypeOK /\ hunt.pc = "idle"
  BY <1>1, HuntIsRecord DEF PickupInv
<1>3. due \in SUBSET Leagues /\ clock \in Times
  BY <1>2 DEF PickupTypeOK
<1>4. h \in Hunts /\ h.pc = "league" /\ h.at = clock /\ h.todo = due /\ h.toMark = {}
  BY <1>3 DEF Hunts
<1> HIDE DEF h
<1>5. PickupTypeOK'
  <2>1. PICK is \in BOOLEAN : is = (~markersOK \/ (cur = NoDepth /\ dump # NoDepth))
    OBVIOUS
  <2>2. faults' \in 0..MaxFaults
    BY <1>1, <1>2, <2>1, FaultCounts
  <2> QED BY <1>1, <1>2, <1>3, <1>4, <2>2 DEF PickupTypeOK
<1>6. HuntIsSound'
  BY <1>1, <1>2, <1>4, PickupTypes DEF HuntIsSound
<1>7. Pending' = Pending
  BY <1>1, <1>2, <1>4 DEF Pending
<1> QED BY <1>1, <1>5, <1>6, <1>7
        DEF PickupInv, MarksAreTrue, SentLeavesTrace, RepeatsOnlyUnmarked, Reported

\* Leaving a league: what each way of leaving it has to show.
LEMMA LeagueDone ==
    ASSUME PickupInv, NEW l \in Leagues, Turn(l),
           UNCHANGED <<clock, world, baseline, marks>>,
           sent' \in [Items -> 0..2], excused' \subseteq Items, unsure' \subseteq Items,
           faults' \in 0..MaxFaults,
           hunt' \in Hunts, hunt'.at = hunt.at, hunt'.cur = hunt.cur,
           hunt'.markersOK = hunt.markersOK, hunt'.todo = hunt.todo \ {l},
           hunt.held => hunt'.held, hunt.tail => hunt'.tail,
           hunt'.pc = "league" => hunt'.toMark = {},
           \A e \in Items : Reported(e) => Reported(e)',
           \A e \in hunt'.toMark : Reported(e)',
           \A e \in Items : sent'[e] > 0 => e \in marks \cup hunt'.toMark \cup unsure',
           \A e \in Items : sent'[e] = 2 => e \in unsure',
           Discharged(l)'
    PROVE  PickupInv'
<1>1. hunt.pc = "league" /\ PickupTypeOK /\ l \in hunt.todo /\ hunt'.pc # "idle"
  BY HuntFields DEF PickupInv, Turn, Hunts
<1>2. baseline # NoBaseline /\ hunt.toMark = {} /\ hunt.at <= clock
  BY <1>1 DEF PickupInv, HuntIsSound
<1>3. PickupTypeOK' /\ UNCHANGED <<clock, starters, dump, doneAt, weeksAgo, taken, drafted, tooLong>>
  BY <1>1 DEF PickupTypeOK, world
<1>4. ASSUME NEW m \in Leagues \ hunt'.todo PROVE Discharged(m)'
  <2>1. CASE m = l
    BY <2>1
  <2>2. CASE m # l
    <3>1. Discharged(m)
      BY <1>1, <1>2, <1>4, <2>2 DEF PickupInv, HuntIsSound
    <3> QED BY <1>1, <1>2, <1>3, <3>1, DischargedStays
  <2> QED BY <2>1, <2>2
<1>5. HuntIsSound'
  BY <1>1, <1>2, <1>3, <1>4 DEF HuntIsSound
<1>6. Pending = {} /\ Pending' = hunt'.toMark
  BY <1>1, <1>2 DEF Pending
<1>7. MarksAreTrue'
  <2>1. marks \subseteq Items
    BY <1>1 DEF PickupTypeOK
  <2> QED BY <1>6, <2>1 DEF PickupInv, MarksAreTrue
<1>8. SentLeavesTrace' /\ RepeatsOnlyUnmarked'
  BY <1>6 DEF SentLeavesTrace, RepeatsOnlyUnmarked
<1> QED BY <1>3, <1>5, <1>7, <1>8 DEF PickupInv

\* What is found and not available is excused; what is and was known is marked.
LEMMA FoundIsAccounted ==
    ASSUME PickupInv, hunt.pc # "idle", NEW l \in Leagues, baseline # NoBaseline,
           NEW f \in (clock - FeedTTL)..clock, NEW e \in Owed(l),
           NEW fresh, NEW known \in BOOLEAN,
           fresh = Available(DetectRoleChanges(l) \cup DetectDrops(l, f))
                     \ (IF known THEN marks ELSE {})
    PROVE  \/ e \in fresh
           \/ known /\ Reported(e)
           \/ e \in (DetectRoleChanges(l) \cup DetectDrops(l, f))
                      \ Available(DetectRoleChanges(l) \cup DetectDrops(l, f))
<1>1. e \in DetectRoleChanges(l) \cup DetectDrops(l, f)
  BY FoundCoversOwed
<1>2. e \in marks => Reported(e)
  BY DEF PickupInv, MarksAreTrue
<1> QED BY <1>1, <1>2

LEMMA LeagueFailsKeeps ==
    ASSUME PickupInv, NEW l \in Leagues, LeagueFails(l)
    PROVE  PickupInv'
<1>1. /\ Turn(l) /\ hunt' = [hunt EXCEPT !.todo = @ \ {l}, !.held = TRUE]
      /\ UNCHANGED <<clock, world, baseline, marks, sent, excused, unsure, faults>>
  BY DEF LeagueFails, history
<1>2. hunt \in Hunts /\ PickupTypeOK /\ hunt.pc = "league" /\ hunt.toMark = {}
  BY <1>1, HuntIsRecord DEF Turn, PickupInv, HuntIsSound
<1>3. /\ hunt' \in Hunts /\ hunt'.at = hunt.at /\ hunt'.cur = hunt.cur /\ hunt'.pc = hunt.pc
      /\ hunt'.markersOK = hunt.markersOK /\ hunt'.todo = hunt.todo \ {l}
      /\ hunt'.held /\ hunt'.tail = hunt.tail /\ hunt'.toMark = hunt.toMark
  BY <1>1, <1>2 DEF Hunts
<1>4. Discharged(l)'
  BY <1>3 DEF Discharged
<1>5. /\ sent' \in [Items -> 0..2] /\ excused' \subseteq Items /\ unsure' \subseteq Items
      /\ faults' \in 0..MaxFaults
  BY <1>1, <1>2 DEF PickupTypeOK
<1>6. /\ \A e \in Items : Reported(e) => Reported(e)'
      /\ \A e \in Items : sent'[e] > 0 => e \in marks \cup hunt'.toMark \cup unsure'
      /\ \A e \in Items : sent'[e] = 2 => e \in unsure'
  BY <1>1, <1>2, <1>3 DEF Reported, PickupInv, SentLeavesTrace, RepeatsOnlyUnmarked, Pending
<1> QED BY <1>1, <1>2, <1>3, <1>4, <1>5, <1>6, LeagueDone

LEMMA LeagueSkippedKeeps ==
    ASSUME PickupInv, NEW l \in Leagues, LeagueSkipped(l)
    PROVE  PickupInv'
<1>1. /\ Turn(l) /\ hunt' = [hunt EXCEPT !.todo = @ \ {l}] /\ l \notin drafted
      /\ excused' = excused \cup DetectRoleChanges(l)
      /\ UNCHANGED <<clock, world, baseline, marks, sent, unsure, faults>>
  BY DEF LeagueSkipped
<1>2. /\ hunt \in Hunts /\ PickupTypeOK /\ hunt.pc = "league" /\ hunt.toMark = {}
      /\ baseline # NoBaseline
  BY <1>1, HuntIsRecord DEF Turn, PickupInv, HuntIsSound
<1>3. /\ hunt' \in Hunts /\ hunt'.at = hunt.at /\ hunt'.cur = hunt.cur /\ hunt'.pc = hunt.pc
      /\ hunt'.markersOK = hunt.markersOK /\ hunt'.todo = hunt.todo \ {l}
      /\ hunt'.held = hunt.held /\ hunt'.tail = hunt.tail /\ hunt'.toMark = hunt.toMark
  BY <1>1, <1>2 DEF Hunts
<1>4. DetectRoleChanges(l) \subseteq Items
  BY <1>2, FoundAreItems
<1>5. Discharged(l)'
  <2>1. DetectDrops(l, hunt.at - Overlap) = {}
    BY <1>1, PickupTypes DEF DetectDrops, PickupInv
  <2>2. Owed(l)' = DetectRoleChanges(l)
    <3>1. Owed(l)' = Owed(l)
      BY <1>1, <1>3 DEF Owed, DetectRoleChanges, Risen, DetectDrops, Since, world
    <3> QED BY <2>1, <3>1 DEF Owed
  <2> QED BY <1>1, <2>2 DEF Discharged, Reported
<1>6. /\ sent' \in [Items -> 0..2] /\ excused' \subseteq Items /\ unsure' \subseteq Items
      /\ faults' \in 0..MaxFaults
  BY <1>1, <1>2, <1>4 DEF PickupTypeOK
<1>7. /\ \A e \in Items : Reported(e) => Reported(e)'
      /\ \A e \in Items : sent'[e] > 0 => e \in marks \cup hunt'.toMark \cup unsure'
      /\ \A e \in Items : sent'[e] = 2 => e \in unsure'
  BY <1>1, <1>2, <1>3 DEF Reported, PickupInv, SentLeavesTrace, RepeatsOnlyUnmarked, Pending
<1> QED BY <1>1, <1>2, <1>3, <1>5, <1>6, <1>7, LeagueDone

LEMMA AlertKeeps ==
    ASSUME PickupInv, NEW l \in Leagues, NEW f \in (clock - FeedTTL)..clock,
           NEW readable \in BOOLEAN, NEW sends \in BOOLEAN, Alert(l, f, readable, sends)
    PROVE  PickupInv'
<1> DEFINE found == DetectRoleChanges(l) \cup DetectDrops(l, f)
           known == readable /\ hunt.markersOK
           fresh == Available(found) \ (IF known THEN marks ELSE {})
<1>1. /\ Turn(l) /\ Fault(~readable) /\ unsure' = unsure \cup (IF known THEN {} ELSE fresh)
      /\ UNCHANGED <<clock, world, baseline, marks>>
  BY DEF Alert
<1>2. /\ hunt \in Hunts /\ PickupTypeOK /\ hunt.pc = "league" /\ hunt.toMark = {}
      /\ baseline # NoBaseline /\ hunt.markersOK \in BOOLEAN
  BY <1>1, HuntIsRecord, HuntFields DEF Turn, PickupInv, HuntIsSound
<1>3. found \subseteq Items /\ (\A e \in found : EventOf(e) = e) /\ fresh \subseteq found
  BY <1>2, FoundAreItems DEF Available
<1>4. faults' \in 0..MaxFaults /\ unsure' \subseteq Items
  BY <1>1, <1>2, <1>3, FaultCounts DEF PickupTypeOK
<1>5. \A e \in Items : sent[e] > 0 => e \in marks \cup unsure
  BY <1>2 DEF PickupInv, SentLeavesTrace, Pending
<1>6. \A e \in fresh : sent[e] > 0 \/ ~known => e \in unsure'
  BY <1>1, <1>3, <1>5
<1>7. ASSUME NEW e \in Owed(l)
      PROVE  e \in Items /\ (e \in fresh \/ Reported(e) \/ e \in found \ Available(found))
  <2>1. PICK k \in BOOLEAN : k = known
    BY <1>2
  <2>2. PICK fr : fr = fresh
    OBVIOUS
  <2>3. fr = Available(found) \ (IF k THEN marks ELSE {})
    BY <2>1, <2>2
  <2> QED BY <1>2, <1>3, <1>7, <2>2, <2>3, FoundIsAccounted, FoundCoversOwed
<1>8. CASE /\ ~sends /\ fresh # {}
           /\ hunt' = [hunt EXCEPT !.todo = @ \ {l}, !.held = TRUE]
           /\ excused' = excused \cup (found \ Available(found))
           /\ UNCHANGED sent
  <2>1. /\ hunt' \in Hunts /\ hunt'.at = hunt.at /\ hunt'.cur = hunt.cur /\ hunt'.pc = hunt.pc
        /\ hunt'.markersOK = hunt.markersOK /\ hunt'.todo = hunt.todo \ {l}
        /\ hunt'.held /\ hunt'.tail = hunt.tail /\ hunt'.toMark = hunt.toMark
    BY <1>2, <1>8 DEF Hunts
  <2>2. Discharged(l)'
    BY <2>1 DEF Discharged
  <2>3. sent' \in [Items -> 0..2] /\ excused' \subseteq Items
    BY <1>2, <1>3, <1>8 DEF PickupTypeOK
  <2>4. /\ \A e \in Items : Reported(e) => Reported(e)'
        /\ \A e \in Items : sent'[e] > 0 => e \in marks \cup hunt'.toMark \cup unsure'
        /\ \A e \in Items : sent'[e] = 2 => e \in unsure'
    BY <1>1, <1>5, <1>8 DEF Reported, PickupInv, RepeatsOnlyUnmarked
  <2> QED BY <1>1, <1>2, <1>4, <2>1, <2>2, <2>3, <2>4, LeagueDone
<1>9. ASSUME NEW shown \in IF fresh = {} THEN {{}} ELSE Digests(fresh),
              sent' = [e \in Items |->
                    IF e \in {EventOf(x) : x \in shown} /\ sent[e] < 2
                    THEN sent[e] + 1 ELSE sent[e]],
              hunt' = [hunt EXCEPT !.todo = @ \ {l}, !.tail = @ \/ shown # fresh,
                             !.toMark = IF hunt.markersOK THEN shown ELSE {},
                             !.pc = IF hunt.markersOK /\ shown # {} THEN "mark" ELSE @],
              excused' = excused \cup (found \ Available(found))
                            \cup (IF hunt.markersOK THEN {} ELSE fresh \ shown)
       PROVE  PickupInv'
  <2>1. shown \subseteq fresh /\ shown \in SUBSET Items
    BY <1>3 DEF Digests
  <2>2. {EventOf(x) : x \in shown} = shown
    BY <1>3, <2>1
  <2>3. PICK pc \in {"league", "mark"}, toMark \in SUBSET Items, tail \in BOOLEAN :
          /\ pc = IF hunt.markersOK /\ shown # {} THEN "mark" ELSE hunt.pc
          /\ toMark = IF hunt.markersOK THEN shown ELSE {}
          /\ tail = (hunt.tail \/ shown # fresh)
    BY <1>2, <2>1, HuntFields
  <2>4. hunt' = [hunt EXCEPT !.todo = @ \ {l}, !.tail = tail, !.toMark = toMark, !.pc = pc]
    BY <1>9, <2>3
  <2>5. /\ hunt' \in Hunts /\ hunt'.at = hunt.at /\ hunt'.cur = hunt.cur /\ hunt'.pc = pc
        /\ hunt'.markersOK = hunt.markersOK /\ hunt'.todo = hunt.todo \ {l}
        /\ hunt'.held = hunt.held /\ hunt'.tail = tail /\ hunt'.toMark = toMark
    BY <1>2, <2>4 DEF Hunts
  <2>6. sent \in [Items -> 0..2]
    BY <1>2, PickupTypes
  <2>7. ASSUME NEW e \in Items
        PROVE  /\ sent'[e] \in 0..2 /\ sent'[e] >= sent[e]
               /\ e \in shown => sent'[e] > 0
               /\ e \notin shown => sent'[e] = sent[e]
               /\ sent'[e] = 2 => sent[e] > 0
    <3>1. sent'[e] = IF e \in shown /\ sent[e] < 2 THEN sent[e] + 1 ELSE sent[e]
      BY <1>9, <2>2
    <3>2. sent[e] \in 0..2
      BY <2>6
    <3> QED BY <3>1, <3>2
  <2>8. sent' \in [Items -> 0..2]
    BY <1>9, <2>7
  <2>9. excused' \subseteq Items
    BY <1>2, <1>3, <1>9 DEF PickupTypeOK
  <2>10. \A e \in Items : Reported(e) => Reported(e)'
    BY <1>9, <2>6, <2>7 DEF Reported
  <2>11. \A e \in toMark : Reported(e)'
    BY <2>1, <2>3, <2>7 DEF Reported
  <2>12. ASSUME NEW e \in Items, sent'[e] > 0
         PROVE  e \in marks \cup toMark \cup unsure'
    <3>1. CASE e \in shown
      BY <1>2, <1>6, <2>1, <2>3, <3>1
    <3>2. CASE e \notin shown
      BY <1>1, <1>5, <2>7, <2>12, <3>2
    <3> QED BY <3>1, <3>2
  <2>13. ASSUME NEW e \in Items, sent'[e] = 2
         PROVE  e \in unsure'
    <3>1. CASE e \in shown
      BY <1>6, <2>1, <2>7, <2>13, <3>1
    <3>2. CASE e \notin shown
      BY <1>1, <2>7, <2>13, <3>2 DEF PickupInv, RepeatsOnlyUnmarked
    <3> QED BY <3>1, <3>2
  <2>14. Discharged(l)'
    <3>1. Owed(l)' = Owed(l)
      BY <1>1, <2>5 DEF Owed, DetectRoleChanges, Risen, DetectDrops, Since, world
    <3>2. SUFFICES ASSUME ~(hunt'.tail /\ hunt'.markersOK), NEW e \in Owed(l)
                   PROVE  Reported(e)'
      BY <3>1 DEF Discharged
    <3>3. e \in Items /\ (e \in fresh \/ Reported(e) \/ e \in found \ Available(found))
      BY <1>7
    <3>4. CASE e \in fresh
      <4>1. CASE e \in shown
        BY <2>7, <3>3, <4>1 DEF Reported
      <4>2. CASE e \notin shown
        <5>1. ~hunt.markersOK
          BY <2>3, <2>5, <3>2, <3>4, <4>2
        <5> QED BY <1>9, <3>4, <4>2, <5>1 DEF Reported
      <4> QED BY <4>1, <4>2
    <3>5. CASE Reported(e)
      BY <2>10, <3>3, <3>5
    <3>6. CASE e \in found \ Available(found)
      BY <1>9, <3>6 DEF Reported
    <3> QED BY <3>3, <3>4, <3>5, <3>6
  <2>15. hunt'.pc = "league" => hunt'.toMark = {}
    BY <2>3, <2>5
  <2>16. hunt.tail => hunt'.tail
    BY <2>3, <2>5
  <2> QED BY <1>1, <1>4, <2>5, <2>8, <2>9, <2>10, <2>11, <2>12, <2>13, <2>14, <2>15, <2>16,
             LeagueDone
<1> QED BY <1>8, <1>9 DEF Alert

LEMMA UnshowableKeeps ==
    ASSUME PickupInv, NEW l \in Leagues, NEW f \in (clock - FeedTTL)..clock, NEW head \in Items,
           Unshowable(l, f, head)
    PROVE  PickupInv'
<1> DEFINE found == DetectRoleChanges(l) \cup DetectDrops(l, f)
           fresh == Available(found) \ (IF hunt.markersOK THEN marks ELSE {})
<1>1. /\ Turn(l) /\ head \in fresh
      /\ excused' = excused \cup {head} \cup (found \ Available(found))
                      \cup (IF hunt.markersOK THEN {} ELSE fresh)
      /\ hunt' = [hunt EXCEPT !.todo = @ \ {l}, !.tail = @ \/ fresh # {head},
                              !.toMark = IF hunt.markersOK THEN {head} ELSE {},
                              !.pc = IF hunt.markersOK THEN "mark" ELSE @]
      /\ UNCHANGED <<clock, world, baseline, marks, sent, unsure, faults>>
  BY DEF Unshowable
<1>2. /\ hunt \in Hunts /\ PickupTypeOK /\ hunt.pc = "league" /\ hunt.toMark = {}
      /\ baseline # NoBaseline /\ hunt.markersOK \in BOOLEAN
  BY <1>1, HuntIsRecord, HuntFields DEF Turn, PickupInv, HuntIsSound
<1>3. found \subseteq Items /\ fresh \subseteq found
  BY <1>2, FoundAreItems DEF Available
<1>4. ASSUME NEW e \in Owed(l)
      PROVE  e \in Items /\ (e \in fresh \/ Reported(e) \/ e \in found \ Available(found))
  <2>1. PICK k \in BOOLEAN : k = hunt.markersOK
    BY <1>2
  <2>2. PICK fr : fr = fresh
    OBVIOUS
  <2>3. fr = Available(found) \ (IF k THEN marks ELSE {})
    BY <2>1, <2>2
  <2> QED BY <1>2, <1>3, <1>4, <2>2, <2>3, FoundIsAccounted, FoundCoversOwed
<1>5. PICK pc \in {"league", "mark"}, toMark \in SUBSET Items, tail \in BOOLEAN :
        /\ pc = IF hunt.markersOK THEN "mark" ELSE hunt.pc
        /\ toMark = IF hunt.markersOK THEN {head} ELSE {}
        /\ tail = (hunt.tail \/ fresh # {head})
  BY <1>2, HuntFields
<1>6. hunt' = [hunt EXCEPT !.todo = @ \ {l}, !.tail = tail, !.toMark = toMark, !.pc = pc]
  BY <1>1, <1>5
<1>7. /\ hunt' \in Hunts /\ hunt'.at = hunt.at /\ hunt'.cur = hunt.cur /\ hunt'.pc = pc
      /\ hunt'.markersOK = hunt.markersOK /\ hunt'.todo = hunt.todo \ {l}
      /\ hunt'.held = hunt.held /\ hunt'.tail = tail /\ hunt'.toMark = toMark
  BY <1>2, <1>6 DEF Hunts
<1>8. /\ sent' \in [Items -> 0..2] /\ excused' \subseteq Items /\ unsure' \subseteq Items
      /\ faults' \in 0..MaxFaults
  BY <1>1, <1>2, <1>3 DEF PickupTypeOK
<1>9. /\ \A e \in Items : Reported(e) => Reported(e)'
      /\ \A e \in toMark : Reported(e)'
      /\ \A e \in Items : sent'[e] > 0 => e \in marks \cup toMark \cup unsure'
      /\ \A e \in Items : sent'[e] = 2 => e \in unsure'
  BY <1>1, <1>2, <1>5 DEF Reported, PickupInv, SentLeavesTrace, RepeatsOnlyUnmarked, Pending
<1>10. Discharged(l)'
  <2>1. Owed(l)' = Owed(l)
    BY <1>1, <1>7 DEF Owed, DetectRoleChanges, Risen, DetectDrops, Since, world
  <2>2. SUFFICES ASSUME ~(hunt'.tail /\ hunt'.markersOK), NEW e \in Owed(l)
                 PROVE  Reported(e)'
    BY <2>1 DEF Discharged
  <2>3. e \in Items /\ (e \in fresh \/ Reported(e) \/ e \in found \ Available(found))
    BY <1>4
  <2>4. CASE e \in fresh
    <3>1. e = head \/ ~hunt.markersOK
      BY <1>5, <1>7, <2>2, <2>4
    <3> QED BY <1>1, <2>4, <3>1 DEF Reported
  <2>5. CASE Reported(e)
    BY <1>9, <2>3, <2>5
  <2>6. CASE e \in found \ Available(found)
    BY <1>1, <2>6 DEF Reported
  <2> QED BY <2>3, <2>4, <2>5, <2>6
<1>11. /\ hunt'.pc = "league" => hunt'.toMark = {}
       /\ hunt.tail => hunt'.tail
  BY <1>2, <1>5, <1>7
<1> QED BY <1>1, <1>7, <1>8, <1>9, <1>10, <1>11, LeagueDone

LEMMA MarkKeeps ==
    ASSUME PickupInv, NEW e \in Items, NEW ok \in BOOLEAN, Mark(e, ok)
    PROVE  PickupInv'
<1>1. /\ hunt.pc = "mark" /\ e \in hunt.toMark /\ Fault(~ok)
      /\ hunt' = [hunt EXCEPT !.toMark = @ \ {e},
                              !.pc = IF hunt.toMark = {e} THEN "league" ELSE @]
      /\ marks' = (IF ok THEN marks \cup {e} ELSE marks)
      /\ unsure' = (IF ok THEN unsure ELSE unsure \cup {e})
      /\ UNCHANGED <<clock, world, baseline, sent, excused>>
  BY DEF Mark
<1>2. hunt \in Hunts /\ PickupTypeOK
  BY <1>1, HuntIsRecord DEF PickupInv
<1>3. PICK pc \in {"league", "mark"} : pc = IF hunt.toMark = {e} THEN "league" ELSE hunt.pc
  BY <1>1
<1>4. /\ hunt' \in Hunts /\ hunt'.at = hunt.at /\ hunt'.cur = hunt.cur /\ hunt'.pc = pc
      /\ hunt'.markersOK = hunt.markersOK /\ hunt'.todo = hunt.todo
      /\ hunt'.held = hunt.held /\ hunt'.tail = hunt.tail /\ hunt'.toMark = hunt.toMark \ {e}
  <2>1. hunt' = [hunt EXCEPT !.toMark = @ \ {e}, !.pc = pc]
    BY <1>1, <1>3
  <2> QED BY <1>2, <2>1 DEF Hunts
<1>5. PickupTypeOK'
  <2>1. faults' \in 0..MaxFaults /\ marks' \subseteq Items /\ unsure' \subseteq Items
    BY <1>1, <1>2, FaultCounts DEF PickupTypeOK
  <2> QED BY <1>1, <1>2, <1>4, <2>1 DEF PickupTypeOK, world
<1>6. Pending = hunt.toMark /\ Pending' = hunt.toMark \ {e}
  BY <1>1, <1>4 DEF Pending
<1>7. MarksAreTrue'
  BY <1>1, <1>6 DEF PickupInv, MarksAreTrue, Reported
<1>8. SentLeavesTrace' /\ RepeatsOnlyUnmarked'
  BY <1>1, <1>6 DEF PickupInv, SentLeavesTrace, RepeatsOnlyUnmarked
<1>9. HuntIsSound'
  <2>1. ASSUME baseline # NoBaseline, NEW l \in Leagues, Discharged(l) PROVE Discharged(l)'
    BY <1>1, <1>4, <2>1, DischargedStays DEF world, Reported
  <2>2. hunt'.pc = "league" => hunt'.toMark = {}
    BY <1>1, <1>3, <1>4
  <2> QED BY <1>1, <1>4, <2>1, <2>2 DEF PickupInv, HuntIsSound
<1> QED BY <1>1, <1>5, <1>7, <1>8, <1>9 DEF PickupInv, world

\* The run is over: nothing is pending, and what it left unmarked is unsure.
LEMMA HuntOver ==
    ASSUME PickupInv, hunt' = NotHunting, UNCHANGED <<clock, world, marks, sent, excused>>,
           baseline' \in Baselines,
           baseline' = NoBaseline \/ baseline'.at \in Times,
           unsure' \subseteq Items, faults' \in 0..MaxFaults,
           unsure \cup Pending \subseteq unsure'
    PROVE  PickupInv'
<1>1. hunt'.pc = "idle" /\ Pending' = {}
  BY DEF NotHunting, Pending
<1>2. PickupTypeOK'
  BY DEF PickupInv, PickupTypeOK, world
<1> QED BY <1>1, <1>2
        DEF PickupInv, MarksAreTrue, SentLeavesTrace, RepeatsOnlyUnmarked, HuntIsSound, Reported,
            world

LEMMA FinishHuntKeeps ==
    ASSUME PickupInv, NEW archives \in BOOLEAN, NEW publishes \in BOOLEAN,
           FinishHunt(archives, publishes)
    PROVE  PickupInv'
<1>1. /\ hunt.pc = "league" /\ hunt.todo = {} /\ hunt' = NotHunting
      /\ \/ baseline' = baseline
         \/ baseline' = [at |-> hunt.at, starters |-> hunt.cur.starters,
                         depth |-> hunt.cur.depth]
      /\ UNCHANGED <<clock, world, marks, sent, excused, unsure, faults>>
  BY DEF FinishHunt, history
<1>2. /\ hunt \in Hunts /\ PickupTypeOK /\ hunt.toMark = {} /\ hunt.at \in Times
      /\ hunt.cur \in Dumps
  BY <1>1, HuntIsRecord, HuntFields DEF PickupInv, HuntIsSound
<1>3. /\ baseline' \in Baselines
      /\ baseline' = NoBaseline \/ baseline'.at \in Times
  <2>1. CASE baseline' = baseline
    BY <1>2, <2>1 DEF PickupInv, PickupTypeOK
  <2>2. CASE baseline' = [at |-> hunt.at, starters |-> hunt.cur.starters,
                          depth |-> hunt.cur.depth]
    <3>1. hunt.at \in 0..MaxClock
      BY <1>2 DEF Times
    <3>2. PICK cur \in Dumps : cur = hunt.cur
      BY <1>2
    <3>3. hunt.cur.starters \in SUBSET Players /\ hunt.cur.depth \in BOOLEAN
      BY <3>2, DumpFields
    <3> QED BY <1>2, <2>2, <3>1, <3>3 DEF Baselines
  <2> QED BY <1>1, <2>1, <2>2
<1>4. Pending = {} /\ unsure \subseteq Items /\ faults \in 0..MaxFaults
  BY <1>1, <1>2 DEF Pending, PickupTypeOK
<1> QED BY <1>1, <1>3, <1>4, HuntOver

LEMMA HuntDiesKeeps ==
    ASSUME PickupInv, HuntDies
    PROVE  PickupInv'
<1>1. /\ hunt # NotHunting /\ hunt' = NotHunting /\ Fault(TRUE)
      /\ unsure' = unsure \cup hunt.toMark
      /\ UNCHANGED <<clock, world, baseline, marks, sent, excused>>
  BY DEF HuntDies
<1>2. PickupTypeOK /\ hunt.pc # "idle" /\ hunt.toMark \in SUBSET Items
  BY <1>1, HuntIsRecord, HuntFields DEF PickupInv
<1>3. Pending = hunt.toMark /\ unsure' \subseteq Items /\ faults' \in 0..MaxFaults
  BY <1>1, <1>2, FaultCounts DEF Pending, PickupTypeOK
<1>4. /\ baseline' \in Baselines
      /\ baseline' = NoBaseline \/ baseline'.at \in Times
  BY <1>1, <1>2 DEF PickupInv, PickupTypeOK
<1> QED BY <1>1, <1>3, <1>4, HuntOver

LEMMA PickupStutters == PickupInv /\ UNCHANGED pickupVars => PickupInv'
<1> SUFFICES ASSUME PickupInv, UNCHANGED pickupVars PROVE PickupInv'
  OBVIOUS
<1>1. PickupTypeOK' /\ clock' >= clock
  BY PickupTypes DEF PickupInv, PickupTypeOK, pickupVars
<1> QED BY <1>1, WorldTurns DEF pickupVars

LEMMA StepPickups == PickupInv /\ [PickupNext]_pickupVars => PickupInv'
<1> SUFFICES ASSUME PickupInv, [PickupNext]_pickupVars PROVE PickupInv'
  OBVIOUS
<1>1. CASE UNCHANGED pickupVars
  BY <1>1, PickupStutters
<1>2. CASE (\E newWeek \in BOOLEAN : Tick(newWeek)) \/ HuntDies
  BY <1>2, TickKeeps, HuntDiesKeeps
<1>3. CASE \/ \E p \in Players : DepthChartMoves(p)
           \/ \E l \in Leagues, x \in Players \cup Drops : Rostered(l, x)
  BY <1>3, WorldKeeps
<1>4. CASE \E d \in Drops : Dropped(d)
  BY <1>4, DroppedKeeps
<1>5. CASE \/ \E cur \in Dumps, ok \in BOOLEAN : BeginHunt(cur, ok)
           \/ \E archives, ok \in BOOLEAN : FinishHunt(archives, ok)
  BY <1>5, BeginHuntKeeps, FinishHuntKeeps
<1>6. CASE \E l \in Leagues : LeagueFails(l) \/ LeagueSkipped(l)
  BY <1>6, LeagueFailsKeeps, LeagueSkippedKeeps
<1>7. CASE \E l \in Leagues, f \in (clock - FeedTTL)..clock :
              \/ \E readable, sends \in BOOLEAN : Alert(l, f, readable, sends)
              \/ \E head \in Items : Unshowable(l, f, head)
  BY <1>7, AlertKeeps, UnshowableKeeps
<1>8. CASE \E e \in Items, ok \in BOOLEAN : Mark(e, ok)
  BY <1>8, MarkKeeps
<1> QED BY <1>1, <1>2, <1>3, <1>4, <1>5, <1>6, <1>7, <1>8 DEF PickupNext

LEMMA PassedWasReported ==
    ASSUME PickupInv, [PickupNext]_pickupVars, baseline # NoBaseline, baseline' # baseline
    PROVE  /\ \A e \in PassedRisers : Reported(e) \/ ~baseline.depth
           /\ \A e \in PassedDrops : Reported(e) \/ weeksAgo[e[2]] > WeeksBack
<1>1. PICK archives, publishes \in BOOLEAN : FinishHunt(archives, publishes)
  <2>1. \A l \in Leagues, f \in (clock - FeedTTL)..clock :
          /\ \A readable, sends \in BOOLEAN : Alert(l, f, readable, sends) => baseline' = baseline
          /\ \A head \in Items : Unshowable(l, f, head) => baseline' = baseline
    <3>1. ASSUME NEW l \in Leagues, NEW f \in (clock - FeedTTL)..clock,
                 NEW readable \in BOOLEAN, NEW sends \in BOOLEAN, Alert(l, f, readable, sends)
          PROVE  baseline' = baseline
      BY ONLY <3>1 DEF Alert
    <3>2. ASSUME NEW l \in Leagues, NEW f \in (clock - FeedTTL)..clock, NEW head \in Items,
                 Unshowable(l, f, head)
          PROVE  baseline' = baseline
      BY ONLY <3>2 DEF Unshowable
    <3> QED BY <3>1, <3>2
  <2>2. \A l \in Leagues : LeagueFails(l) \/ LeagueSkipped(l) => baseline' = baseline
    BY DEF LeagueFails, LeagueSkipped
  <2>3. \A cur \in Dumps, ok \in BOOLEAN : BeginHunt(cur, ok) => baseline' = baseline
    BY DEF BeginHunt
  <2>4. \A x \in Items, ok \in BOOLEAN : Mark(x, ok) => baseline' = baseline
    BY DEF Mark
  <2>5. ~UNCHANGED pickupVars /\ ~HuntDies /\ \A newWeek \in BOOLEAN : ~Tick(newWeek)
    BY DEF pickupVars, Tick, HuntDies
  <2>6. /\ \A p \in Players : ~DepthChartMoves(p)
        /\ \A d \in Drops : ~Dropped(d)
        /\ \A l \in Leagues, x \in Players \cup Drops : ~Rostered(l, x)
    BY DEF DepthChartMoves, Dropped, Rostered
  <2> QED BY <2>1, <2>2, <2>3, <2>4, <2>5, <2>6 DEF PickupNext
<1>2. /\ hunt.pc = "league" /\ hunt.todo = {} /\ ShouldAdvance
      /\ baseline' = [at |-> hunt.at, starters |-> hunt.cur.starters, depth |-> hunt.cur.depth]
  BY <1>1 DEF FinishHunt
<1>3. /\ baseline'.at = hunt.at /\ baseline'.starters = hunt.cur.starters
      /\ hunt.cur.depth \/ hunt.cur.starters = {}
  <2>1. PICK cur \in Dumps : cur = hunt.cur
    BY <1>2, HuntIsRecord, HuntFields DEF PickupInv
  <2> QED BY <1>2, <2>1, DumpFields
<1>4. ASSUME NEW l \in Leagues, NEW x \in Owed(l) PROVE Reported(x)
  BY <1>2, <1>4 DEF PickupInv, HuntIsSound, Discharged, ShouldAdvance
<1>5. ASSUME NEW e \in PassedRisers, baseline.depth PROVE Reported(e)
  <2>1. PICK l \in Leagues, p \in hunt.cur.starters \ baseline.starters :
          e = <<l, <<p, baseline.at>>>>
    BY <1>3, <1>5 DEF PassedRisers
  <2>2. p \in Risen
    BY <1>3, <1>5, <2>1 DEF Risen
  <2>3. e \in Owed(l)
    BY <2>1, <2>2 DEF Owed, DetectRoleChanges
  <2> QED BY <1>4, <2>3
<1>6. ASSUME NEW e \in PassedDrops, ~(weeksAgo[e[2]] > WeeksBack) PROVE Reported(e)
  <2>1. PICK d \in Drops : /\ e = <<LeagueOf[d], d>> /\ doneAt[d] > Since
                           /\ doneAt[d] \in 1..(hunt.at - Overlap)
    BY <1>3 DEF PassedDrops, Since
  <2>2. weeksAgo[d] <= WeeksBack
    <3>1. weeksAgo[d] \in 0..(WeeksBack + 1) /\ WeeksBack \in Nat
      BY PickupTypes, PickupNumbers DEF PickupInv
    <3>2. ~(weeksAgo[d] > WeeksBack)
      BY <1>6, <2>1
    <3> QED BY <3>1, <3>2
  <2>3. LeagueOf[d] \in Leagues /\ e \in Owed(LeagueOf[d])
    BY <2>1, <2>2, PickupNumbers DEF Owed, DetectDrops
  <2> QED BY <1>4, <2>3
<1> QED BY <1>5, <1>6

(* Every reachable state of the pickups job is well typed (pickups.go).        *)
THEOREM PickupsTypeCorrect == PickupSpec => []PickupTypeOK
<1>1. PickupInv => PickupTypeOK
  BY DEF PickupInv
<1> QED BY <1>1, InitPickups, StepPickups, PTL DEF PickupSpec

(* Holding the pointer repeats nothing: an event told twice is one whose       *)
(* marker was not written, not read or not consulted: for any leagues, players *)
(* and drops, any feed and any faults (alertPickups).                          *)
THEOREM RepeatsHaveACause == PickupSpec => []RepeatsOnlyUnmarked
<1>1. PickupInv => RepeatsOnlyUnmarked
  BY DEF PickupInv
<1> QED BY <1>1, InitPickups, StepPickups, PTL DEF PickupSpec

(* The baseline never moves past an event somebody is still to be told, if the *)
(* overlap is positive and covers the age of the cached feed                    *)
(* (shouldAdvancePointer, pickupOverlap): but for who rose since a baseline     *)
(* without depth data, and for a drop whose week is no longer read.             *)
THEOREM BaselineLeavesNothing == PickupSpec => NothingIsPassedOver
<1>1. PickupInv /\ [PickupNext]_pickupVars
        => [baseline # NoBaseline /\ baseline' # baseline =>
              /\ \A e \in PassedRisers : sent[e] > 0 \/ e \in excused \/ ~baseline.depth
              /\ \A e \in PassedDrops :
                    sent[e] > 0 \/ e \in excused \/ weeksAgo[e[2]] > WeeksBack]_pickupVars
  BY PassedWasReported DEF Reported
<1> QED BY <1>1, InitPickups, StepPickups, PTL DEF PickupSpec, NothingIsPassedOver
=============================================================================
