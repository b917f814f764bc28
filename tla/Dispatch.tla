------------------------------ MODULE Dispatch ------------------------------
(***************************************************************************)
(* The fan-out dispatcher: a scheduled rule hands it a command, it reads the *)
(* active tenants, asks for each whether the Fantrax connection can carry a  *)
(* run, publishes the roster the heartbeat goes by, and launches one task    *)
(* for each tenant.  Lambda runs an invocation that ended in an error, or    *)
(* ran out of time, again from its start.                                    *)
(***************************************************************************)
EXTENDS Naturals, FiniteSets

CONSTANTS
    Members,      \* tenants of the directory
    MaxRetries    \* how often Lambda runs one event again

ASSUME DispatchAssumption == MaxRetries \in Nat

VARIABLES
    disp,         \* the event being dispatched
    active,       \* members not suspended
    usable,       \* members whose connection is verified
    listed        \* the roster published last

dispatchVars == <<disp, active, usable, listed>>

(* "entitled" is history: the members active and usable ever since the event  *)
(* fired; "tasks" counts what the event launched for each, over all its       *)
(* invocations.                                                               *)
NoEvent ==
    [pc |-> "idle", attempt |-> 0, todo |-> {}, launchable |-> {}, failed |-> {},
     entitled |-> {}, tasks |-> [t \in Members |-> 0], late |-> FALSE, published |-> FALSE]

Dispatches ==
    [pc : {"idle", "list", "gate", "publish", "launch", "done", "dropped"},
     attempt : 0..MaxRetries, todo : SUBSET Members, launchable : SUBSET Members,
     failed : SUBSET Members, entitled : SUBSET Members,
     tasks : [Members -> 0..(MaxRetries + 1)], late : BOOLEAN, published : BOOLEAN]

DispatchTypeOK ==
    /\ disp \in Dispatches
    /\ active \subseteq Members /\ usable \subseteq Members /\ listed \subseteq Members

DispatchInit ==
    /\ disp = NoEvent
    /\ active = Members /\ usable = Members
    /\ listed = {}

Idle == disp.pc \in {"idle", "done", "dropped"}

Fire ==
    /\ Idle
    /\ disp' = [NoEvent EXCEPT !.pc = "list", !.entitled = active \cap usable]
    /\ UNCHANGED <<active, usable, listed>>

\* Mutant: an event that fails is run again for ever.
MutFailed(d) ==
    [d EXCEPT !.pc = "list", !.attempt = @ + 1, !.todo = {}, !.launchable = {},
              !.failed = {}, !.published = FALSE]

\* What an error does to the event d.
Failed(d) ==
    IF d.attempt = MaxRetries THEN [d EXCEPT !.pc = "dropped"]
    ELSE [d EXCEPT !.pc = "list", !.attempt = @ + 1, !.todo = {}, !.launchable = {},
                   !.failed = {}, !.published = FALSE]

List(ok) ==
    /\ disp.pc = "list"
    /\ disp' = IF ~ok THEN Failed(disp)
               ELSE [disp EXCEPT !.pc = IF active = {} THEN "publish" ELSE "gate",
                                 !.todo = active]
    /\ UNCHANGED <<active, usable, listed>>

\* A connection that cannot be read is launched: the task's own check decides.
Admits(t, readable) == ~readable \/ t \in usable

Gate(t, readable) ==
    /\ disp.pc = "gate" /\ t \in disp.todo
    /\ disp' = [disp EXCEPT !.todo = @ \ {t},
                            !.pc = IF disp.todo = {t} THEN "publish" ELSE @,
                            !.launchable = IF Admits(t, readable) THEN @ \cup {t} ELSE @]
    /\ UNCHANGED <<active, usable, listed>>

\* The roster carries the launchable tenants, and its failure is only logged.
Publish(ok) ==
    /\ disp.pc = "publish"
    /\ disp' = [disp EXCEPT !.todo = disp.launchable, !.published = ok,
                            !.pc = IF disp.launchable = {} THEN "done" ELSE "launch"]
    /\ listed' = IF ok THEN disp.launchable ELSE listed
    /\ UNCHANGED <<active, usable>>

\* Mutant: the first launch that fails ends the invocation in an error.
MutAfter(t, ok) ==
    LET d == [disp EXCEPT !.todo = @ \ {t},
                          !.pc = IF disp.todo = {t} THEN "done" ELSE @]
    IN  IF ok THEN [d EXCEPT !.tasks[t] = @ + 1] ELSE Failed(disp)

\* A launch that fails is counted and passed over: handle returns nil even
\* when every launch failed.
After(t, ok) ==
    LET d == [disp EXCEPT !.todo = @ \ {t},
                          !.pc = IF disp.todo = {t} THEN "done" ELSE @]
    IN  IF ok THEN [d EXCEPT !.tasks[t] = @ + 1] ELSE [d EXCEPT !.failed = @ \cup {t}]

LaunchFor(t, ok) ==
    /\ disp.pc = "launch" /\ t \in disp.todo
    /\ disp' = After(t, ok)
    /\ UNCHANGED <<active, usable, listed>>

\* Sixty seconds are over.
TimeOut ==
    /\ ~Idle
    /\ disp' = [Failed(disp) EXCEPT !.late = TRUE]
    /\ UNCHANGED <<active, usable, listed>>

\* An admin suspends or reactivates a tenant; a connection breaks or comes back.
Flip(S, t) == IF t \in S THEN S \ {t} ELSE S \cup {t}

MemberChanges(t) ==
    /\ \/ active' = Flip(active, t) /\ UNCHANGED usable
       \/ usable' = Flip(usable, t) /\ UNCHANGED active
    /\ disp' = [disp EXCEPT !.entitled = @ \ {t}]
    /\ UNCHANGED listed

DispatchNext ==
    \/ Fire \/ TimeOut
    \/ \E ok \in BOOLEAN : List(ok) \/ Publish(ok)
    \/ \E t \in Members, ok \in BOOLEAN : Gate(t, ok) \/ LaunchFor(t, ok)
    \/ \E t \in Members : MemberChanges(t)

DispatchSpec == DispatchInit /\ [][DispatchNext]_dispatchVars

-----------------------------------------------------------------------------
(* Properties *)

(* When a dispatch ends, every tenant active and usable throughout has a task *)
(* of this event, or its launch failed and the roster tells the heartbeat to  *)
(* expect it.  A roster that could not be written excuses only its absence    *)
(* from the roster.                                                           *)
NobodyIsForgotten ==
    disp.pc = "done" =>
        \A t \in disp.entitled :
            disp.tasks[t] > 0 \/ (t \in disp.failed /\ (disp.published => t \in listed))

(* And an event starts two tasks for a tenant only when an invocation ran out *)
(* of time with launches behind it: an error is returned before anything was  *)
(* launched and never after, because the retry launches everybody again.      *)
TwiceOnlyAfterTimeout == (\E t \in Members : disp.tasks[t] > 1) => disp.late

(* A dispatch, retried and timed out as Lambda pleases, serves every tenant:   *)
(* none is passed over in silence, none is launched twice without need.        *)
EveryTenantIsAccounted == NobodyIsForgotten /\ TwiceOnlyAfterTimeout
=============================================================================
