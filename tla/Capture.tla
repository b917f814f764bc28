------------------------------ MODULE Capture -------------------------------
(***************************************************************************)
(* The projection archive of one date (lineuprun/snapshot.go): every run of   *)
(* the day rewrites it, and keeps the rows that are locked, since they are    *)
(* what the lineup was decided on.  Read, merge and write are separate steps, *)
(* and a run by hand may overlap the scheduled one.                           *)
(***************************************************************************)
EXTENDS Naturals

CONSTANTS
    Scored,       \* the players of the date
    Captures,     \* runs at a time
    Values        \* projections

ASSUME CaptureAssumption == Values # {}

VARIABLES
    started,      \* the players whose game has started
    archive,      \* player -> his row, if he has one
    capturing     \* run -> the archive it read and the rows it scored

captureVars == <<started, archive, capturing>>

NoRow == [locked |-> FALSE, value |-> "none"]
Rows == [locked : BOOLEAN, value : Values]
Archives == [Scored -> Rows \cup {NoRow}]
NotCapturing == [pc |-> "idle"]
Capturings == [pc : {"merge"}, existing : Archives, fresh : Archives, blind : BOOLEAN]

CaptureTypeOK ==
    /\ started \subseteq Scored /\ archive \in Archives
    /\ capturing \in [Captures -> Capturings \cup {NotCapturing}]

CaptureInit ==
    /\ started = {} /\ archive = [p \in Scored |-> NoRow]
    /\ capturing = [r \in Captures |-> NotCapturing]

FirstPitch(p) ==
    /\ p \notin started /\ started' = started \cup {p}
    /\ UNCHANGED <<archive, capturing>>

\* buildSnapshot: the players the run scored, locked if their game had started.
Snapshot(ps, v) ==
    [p \in Scored |-> IF p \in ps THEN [locked |-> p \in started, value |-> v] ELSE NoRow]

\* A prior archive that cannot be read is no prior archive.
ReadPrior(r, ps, v, readable) ==
    /\ capturing[r] = NotCapturing
    /\ capturing' = [capturing EXCEPT ![r] =
                       [pc |-> "merge", fresh |-> Snapshot(ps, v), blind |-> ~readable,
                        existing |-> IF readable THEN archive ELSE [p \in Scored |-> NoRow]]]
    /\ UNCHANGED <<started, archive>>

\* Mutant: a locked player the run did not score drops out.
MutMergeLockedPlayers(fresh, existing) ==
    [p \in Scored |-> IF existing[p].locked /\ fresh[p] # NoRow THEN existing[p] ELSE fresh[p]]

MergeLockedPlayers(fresh, existing) ==
    [p \in Scored |-> IF existing[p].locked THEN existing[p] ELSE fresh[p]]

\* The write, which may fail; whoever read before it no longer sees the archive.
WriteSnapshot(r, ok) ==
    /\ capturing[r] # NotCapturing
    /\ archive' = IF ok THEN MergeLockedPlayers(capturing[r].fresh, capturing[r].existing)
                  ELSE archive
    /\ capturing' = [o \in Captures |->
                       IF o = r THEN NotCapturing
                       ELSE IF ok /\ capturing[o] # NotCapturing
                       THEN [capturing[o] EXCEPT !.blind = TRUE] ELSE capturing[o]]
    /\ UNCHANGED started

CaptureNext ==
    \/ \E p \in Scored : FirstPitch(p)
    \/ \E r \in Captures, ps \in SUBSET Scored, v \in Values, ok \in BOOLEAN :
          ReadPrior(r, ps, v, ok)
    \/ \E r \in Captures, ok \in BOOLEAN : WriteSnapshot(r, ok)

CaptureSpec == CaptureInit /\ [][CaptureNext]_captureVars

(* The projection a locked player's slot was decided on survives every later  *)
(* run of the day, whether or not that run scored him, unless the run could   *)
(* not read the archive or another one wrote it in between.                   *)
LockedRowsSurvive ==
    [][\A r \in Captures :
         capturing[r] # NotCapturing /\ ~capturing[r].blind /\ capturing'[r] = NotCapturing
           => \A p \in Scored : archive[p].locked => archive'[p] = archive[p]]_captureVars
=============================================================================
