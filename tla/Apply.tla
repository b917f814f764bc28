------------------------------- MODULE Apply --------------------------------
(***************************************************************************)
(* The lineup run's write to the real roster: a plan made from the cached     *)
(* roster, the raw roster fetched for the payload, the one retry without the   *)
(* players Fantrax calls locked, its verification, and the invalidation of     *)
(* the cache (lineuprun/emit.go, fantrax/apply_lineup.go).  Fantrax itself     *)
(* takes a payload whole or refuses it; the manager edits the roster by hand   *)
(* whenever he likes.                                                          *)
(***************************************************************************)
EXTENDS Integers, FiniteSets

CONSTANTS
    Squad,      \* the players of the team
    Active,     \* the active slot types
    Cap,        \* slot type -> how many it holds
    Bench,      \* the reserve
    Keep,       \* "no move" in a plan
    NoCopy      \* nothing cached

ASSUME ApplyAssumption ==
    /\ IsFiniteSet(Squad) /\ Bench \notin Active /\ Keep \notin Active \cup {Bench}
    /\ Cap \in [Active -> Nat \ {0}]

VARIABLES
    roster,     \* player -> where Fantrax has him
    locked,     \* the players Fantrax will not move any more
    cached,     \* the roster of the period cache, which all runs share
    fill,       \* a run that looked for it in vain and is to fetch and save it
    turn,       \* the run, once it has a plan to apply
    edited,     \* history: players moved by hand since the raw fetch
    drifted     \* history: the copies that may differ from the roster

applyVars == <<roster, locked, cached, fill, turn, edited, drifted>>

Positions == Active \cup {Bench}
Fits(f) == \A s \in Active : Cardinality({p \in Squad : f[p] = s}) <= Cap[s]
Rosters == {f \in [Squad -> Positions] : Fits(f)}
NoTurn == [pc |-> "idle"]
NoFill == [pc |-> "idle"]
Missed == [pc |-> "fetch"]
Fills == {NoFill, Missed} \cup [pc : {"save"}, got : Rosters]
Copies == {"cache", "fill"}
Turns ==
    [pc : {"fetch", "post", "confirm", "verify", "done"}, attempt : 1..2,
     plan : [Squad -> Positions \cup {Keep}], kept : [Squad -> Positions \cup {Keep}],
     raw : Rosters, excl : SUBSET Squad, confirmed : BOOLEAN]

ApplyTypeOK ==
    /\ roster \in Rosters /\ locked \subseteq Squad /\ cached \in Rosters \cup {NoCopy}
    /\ fill \in Fills
    /\ turn \in Turns \cup {NoTurn} /\ edited \subseteq Squad /\ drifted \subseteq Copies

ApplyInit ==
    /\ roster \in Rosters /\ locked = {} /\ cached = NoCopy
    /\ fill = NoFill /\ turn = NoTurn /\ edited = {} /\ drifted = {}

-----------------------------------------------------------------------------
(* Fantrax and the manager *)

GameStarts(p) ==
    /\ p \notin locked /\ locked' = locked \cup {p}
    /\ UNCHANGED <<roster, cached, fill, turn, edited, drifted>>

\* A roster that was fetched and is not saved yet.
Unsaved == IF fill.pc = "save" THEN {"fill"} ELSE {}

HandEdit(p, pos) ==
    /\ p \notin locked /\ roster[p] # pos /\ Fits([roster EXCEPT ![p] = pos])
    /\ roster' = [roster EXCEPT ![p] = pos]
    /\ edited' = IF turn = NoTurn THEN edited ELSE edited \cup {p}
    /\ drifted' = {"cache"} \cup Unsaved
    /\ UNCHANGED <<locked, cached, fill, turn>>

CacheExpires ==
    /\ cached # NoCopy /\ cached' = NoCopy /\ drifted' = drifted \ {"cache"}
    /\ UNCHANGED <<roster, locked, fill, turn, edited>>

\* The players a payload moves although they are locked.
Refused(payload) == {p \in locked : payload[p] # roster[p]}

-----------------------------------------------------------------------------
(* The payload *)

Moves(kept, excl) == {p \in Squad : kept[p] # Keep /\ p \notin excl}

\* Mutant: the payload is built on the roster the plan was made from.
MutFieldMap(t) == [p \in Squad |-> IF p \in Moves(t.kept, t.excl) THEN t.kept[p]
                                   ELSE IF cached = NoCopy THEN t.raw[p] ELSE cached[p]]

\* buildFieldMapWithMods: everybody else stays where the fetch saw him.
FieldMap(t) == [p \in Squad |-> IF p \in Moves(t.kept, t.excl) THEN t.kept[p] ELSE t.raw[p]]

\* Slots that stay occupied because their bench move was excluded.
Stranded(t, excl, s) == {p \in excl : t.kept[p] = Bench /\ t.raw[p] = s}
Promotions(t, s) == {p \in Squad : t.kept[p] = s /\ t.raw[p] = Bench}

Smaller(a, b) == IF a <= b THEN a ELSE b

\* Mutant: nothing is dropped with an excluded bench move.
MutWithdrawals(t, excl) == {{}}

\* dropStrandedActivations: one promotion into the slot for each, as far as
\* there are any; the payload's order decides which.
Withdrawals(t, excl) ==
    {ds \in SUBSET UNION {Promotions(t, s) : s \in Active} :
        \A s \in Active :
            Cardinality(ds \cap Promotions(t, s)) =
              Smaller(Cardinality(Stranded(t, excl, s)), Cardinality(Promotions(t, s)))}

\* Mutant: verification looks at the activations only.
MutUnmet(t) == {p \in Moves(t.kept, t.excl) : t.kept[p] # Bench /\ roster[p] # t.kept[p]}

\* verifyExcludedRetry: the moves that did not land.
Unmet(t) == {p \in Moves(t.kept, t.excl) : roster[p] # t.kept[p]}

-----------------------------------------------------------------------------
(* The run *)

\* The plan: a legal lineup for the roster the run read; it may move a locked
\* player, of whom the run need not know.  A run with nothing to move, a dry run
\* and a tenant without auto-apply have none.
PlansFrom(view, want) ==
    /\ turn = NoTurn /\ want # view /\ edited' = {}
    /\ turn' = LET moves == [p \in Squad |-> IF want[p] = view[p] THEN Keep ELSE want[p]]
               IN  [pc |-> "fetch", attempt |-> 1, plan |-> moves, kept |-> moves,
                    raw |-> view, excl |-> {}, confirmed |-> FALSE]

\* From the cached roster.
Optimize(want) ==
    /\ cached # NoCopy /\ PlansFrom(cached, want)
    /\ UNCHANGED <<roster, locked, cached, fill, drifted>>

\* Or from one fetched, which every run that finds none cached saves for the
\* others, whatever happened to roster and cache since it looked.
Miss ==
    /\ cached = NoCopy /\ fill = NoFill /\ fill' = Missed
    /\ UNCHANGED <<roster, locked, cached, turn, edited, drifted>>

FetchRoster ==
    /\ fill = Missed /\ fill' = [pc |-> "save", got |-> roster]
    /\ UNCHANGED <<roster, locked, cached, turn, edited, drifted>>

\* A save that fails is only printed.
Save(ok) ==
    /\ fill.pc = "save" /\ fill' = NoFill
    /\ cached' = IF ok THEN fill.got ELSE cached
    /\ drifted' = IF ~ok THEN drifted \ {"fill"} ELSE IF "fill" \in drifted THEN {"cache"} ELSE {}
    /\ UNCHANGED <<roster, locked>>
SaveOnly(ok) == Save(ok) /\ UNCHANGED <<turn, edited>>
SaveAndOptimize(ok, want) == Save(ok) /\ PlansFrom(fill.got, want)

FetchRaw ==
    /\ turn.pc = "fetch"
    /\ turn' = [turn EXCEPT !.pc = "post", !.raw = roster]
    /\ edited' = {}
    /\ UNCHANGED <<roster, locked, cached, fill, drifted>>

Over == turn' = NoTurn /\ edited' = {}
GoesOn(u) == turn' = u /\ UNCHANGED edited
Posting == turn.pc \in {"post", "confirm"}

\* A change of a future period is to be confirmed with the same payload.
PleaseConfirm ==
    /\ turn.pc = "post"
    /\ turn' = [turn EXCEPT !.pc = "confirm"]
    /\ UNCHANGED <<roster, locked, cached, fill, edited, drifted>>

\* Accepted whole; or, a closed period, answered like a payload without any
\* change, and nothing lands.  Only a retry is verified.
Accepted(lands) ==
    /\ Posting /\ Refused(FieldMap(turn)) = {} /\ Fits(FieldMap(turn))
    /\ roster' = IF lands THEN FieldMap(turn) ELSE roster
    /\ turn' = [turn EXCEPT !.pc = IF turn.excl = {} THEN "done" ELSE "verify"]
    /\ drifted' = drifted \cup (IF lands THEN Unsaved ELSE {})
    /\ UNCHANGED <<locked, cached, fill, edited>>

\* Locked players: one retry without those whose names were made out, unless
\* nothing would be left to move.
RejectedLocked(names) ==
    /\ Posting /\ names # {} /\ names \subseteq Refused(FieldMap(turn))
    /\ \E ds \in Withdrawals(turn, names) :
          LET kept == [p \in Squad |-> IF p \in ds THEN Keep ELSE turn.kept[p]]
          IN  IF turn.attempt = 1 /\ Moves(kept, names) # {}
              THEN GoesOn([turn EXCEPT !.pc = "post", !.attempt = 2, !.kept = kept, !.excl = names])
              ELSE Over
    /\ UNCHANGED <<roster, locked, cached, fill, drifted>>

\* Any other refusal, or names that match nobody.
Rejected ==
    /\ Posting
    /\ Refused(FieldMap(turn)) # {} \/ ~Fits(FieldMap(turn))
    /\ Over
    /\ UNCHANGED <<roster, locked, cached, fill, drifted>>

\* An error, or a stopped task: what was sent may have landed.
Broken(lands) ==
    /\ turn # NoTurn /\ Over
    /\ lands => (Posting /\ Refused(FieldMap(turn)) = {} /\ Fits(FieldMap(turn)))
    /\ roster' = IF lands THEN FieldMap(turn) ELSE roster
    /\ drifted' = drifted \cup (IF lands THEN {"cache"} \cup Unsaved ELSE {})
                          \cup (IF turn.pc \in {"verify", "done"} THEN {"cache"} ELSE {})
    /\ UNCHANGED <<locked, cached, fill>>

\* A fetch that fails leaves the outcome unconfirmed; a move that did not land
\* fails the apply, and the cache stays.
Verify(readable) ==
    /\ turn.pc = "verify"
    /\ IF readable /\ Unmet(turn) # {} THEN Over
       ELSE GoesOn([turn EXCEPT !.pc = "done", !.confirmed = readable])
    /\ drifted' = drifted \cup (IF readable /\ Unmet(turn) # {} THEN {"cache"} ELSE {})
    /\ UNCHANGED <<roster, locked, cached, fill>>

\* Mutant: the keys of another season are dropped.
MutInvalidate(ok) ==
    /\ turn.pc = "done" /\ Over
    /\ UNCHANGED <<roster, locked, cached, fill>>
    /\ drifted' = IF ok THEN drifted \ {"cache"} ELSE drifted \cup {"cache"}

\* InvalidatePeriodRosterCache; a delete that fails is only printed.
Invalidate(ok) ==
    /\ turn.pc = "done" /\ Over
    /\ cached' = IF ok THEN NoCopy ELSE cached
    /\ drifted' = IF ok THEN drifted \ {"cache"} ELSE drifted \cup {"cache"}
    /\ UNCHANGED <<roster, locked, fill>>

ApplyNext ==
    \/ \E p \in Squad : GameStarts(p) \/ \E pos \in Positions : HandEdit(p, pos)
    \/ CacheExpires \/ Miss \/ FetchRoster \/ FetchRaw \/ PleaseConfirm \/ Rejected
    \/ \E want \in Rosters : Optimize(want) \/ \E ok \in BOOLEAN : SaveAndOptimize(ok, want)
    \/ \E names \in SUBSET locked : RejectedLocked(names)
    \/ \E ok \in BOOLEAN : SaveOnly(ok) \/ Accepted(ok) \/ Broken(ok) \/ Verify(ok) \/ Invalidate(ok)

ApplySpec == ApplyInit /\ [][ApplyNext]_applyVars

-----------------------------------------------------------------------------
(* Properties *)

\* A plan that only promotes and benches: no player changes his active slot.
MembershipOnly(t) == \A p \in Squad : t.plan[p] \in Active => t.raw[p] \in {Bench, t.plan[p]}
FirstPayload(t) == FieldMap([t EXCEPT !.kept = t.plan, !.excl = {}])

\* The retry can be realized: without the locked players and the promotions
\* that needed their slots no slot is over its capacity, if the plan fitted and
\* moved nobody between active slots (dropStrandedActivations).
RetryFits ==
    turn # NoTurn /\ turn.attempt = 2 /\ MembershipOnly(turn) /\ Fits(FirstPayload(turn))
      => Fits(FieldMap(turn))

\* A retry that is reported applied and was verified has landed: every move it
\* kept is on the roster, or the manager has moved that player since.
ConfirmedHasLanded ==
    turn # NoTurn /\ turn.confirmed
      => \A p \in Moves(turn.kept, turn.excl) : roster[p] = turn.kept[p] \/ p \in edited

(* The retry without the locked players keeps its word                        *)
(* (applyLineupWithLockedPlayerRetry, verifyExcludedRetry): what it asks for   *)
(* can be realized, and what it reports as applied has landed.                 *)
RetryKeepsItsWord == RetryFits /\ ConfirmedHasLanded

(* The payload names the whole squad, yet it moves only the players of the     *)
(* plan: a bystander moves only if the manager moved him while it was on its   *)
(* way.                                                                         *)
BystandersStay ==
    [][Posting /\ turn'.pc # "fetch" =>
         \A p \in Squad : roster'[p] # roster[p] =>
            p \in Moves(turn.kept, turn.excl) \cup edited \cup edited']_applyVars

(* Between runs the cached roster is the real one, so what was applied is not *)
(* proposed again: unless the manager edited it, the invalidation failed, the  *)
(* outcome of a write was never learnt, or another run fetched the roster      *)
(* before a write and saved it after (GetOrFetch, InvalidatePeriodRosterCache). *)
CacheAgrees == turn = NoTurn /\ cached # NoCopy /\ "cache" \notin drifted => cached = roster
=============================================================================
