----------------------------- MODULE PushDevices -----------------------------
(***************************************************************************)
(* Push registrations on DynamoDB (internal/lineupapi/ddbuser/pushdevice.go).*)
(* A phone has one token; the tenant signed in on it registers it at every   *)
(* launch.  A device row is what delivery reads; PUSHTOKEN#<token> points to  *)
(* the row of the token's holder, so that a second tenant's registration can  *)
(* delete the first one's row.  Each get, query, put and delete is one step.   *)
(***************************************************************************)
EXTENDS Integers, FiniteSets

CONSTANTS
    Tenants, Tokens,
    Calls,       \* registrations, removals and sweeps; a row is named by its maker
    Nobody,
    CallsMayFail \* may a call stop half way?

ASSUME PushAssumption ==
    Nobody \notin Tenants \cup Tokens \cup Calls /\ CallsMayFail \in BOOLEAN

VARIABLES
    rows,      \* device rows: [user, token, id]
    pointer,   \* the pointer of a token: [user, id], or NoPointer
    call,      \* each call: what it does, its next step and what it has read
    overlap    \* history: tokens two calls worked on at once, or one left half done

pushVars == <<rows, pointer, call, overlap>>

NoPointer == [user |-> Nobody, id |-> Nobody]
Fresh == [op |-> "none", pc |-> "idle", user |-> Nobody, token |-> Nobody,
          id |-> Nobody, extra |-> {}, alone |-> TRUE]

Busy(c) == call[c].pc \notin {"idle", "done"}
CallGoto(c, pc) == call' = [call EXCEPT ![c].pc = pc]

OfUser(u, t) == {x \in rows : x.user = u /\ x.token = t}

Begin(c, op, u, t, id, extra, pc) ==
    /\ call[c] = Fresh
    /\ LET met == {d \in Calls : Busy(d) /\ call[d].token = t}
       IN  /\ call' = [d \in Calls |->
                  IF d = c THEN [op |-> op, pc |-> pc, user |-> u, token |-> t,
                                 id |-> id, extra |-> extra, alone |-> met = {}]
                  ELSE IF d \in met THEN [call[d] EXCEPT !.alone = FALSE] ELSE call[d]]
           /\ overlap' = IF met = {} THEN overlap ELSE overlap \cup {t}
    /\ UNCHANGED <<rows, pointer>>

-----------------------------------------------------------------------------
(* PutPushDevice.                                                           *)

\* The caller's own rows of this token: the first lends its id, every other is
\* deleted.
Register(c, u, t) ==
    LET own == {x.id : x \in OfUser(u, t)}
    IN  IF own = {} THEN Begin(c, "register", u, t, c, {}, "holder")
        ELSE \E id \in own :
                 Begin(c, "register", u, t, id, own \ {id},
                       IF own = {id} THEN "holder" ELSE "collapse")

Collapse(c) ==
    \E id \in call[c].extra :
        /\ call[c].pc = "collapse"
        /\ rows' = {x \in rows : ~(x.user = call[c].user /\ x.id = id)}
        /\ call' = [call EXCEPT ![c].extra = @ \ {id},
                                ![c].pc = IF call[c].extra = {id} THEN "holder" ELSE @]
        /\ UNCHANGED <<pointer, overlap>>

MutReadHolder(c) ==
    /\ call[c].pc = "holder"
    /\ CallGoto(c, "putRow")
    /\ UNCHANGED <<rows, pointer, overlap>>

ReadHolder(c) ==
    LET p == pointer[call[c].token]
    IN  /\ call[c].pc = "holder"
        /\ IF p = NoPointer \/ p.user = call[c].user
           THEN CallGoto(c, "putRow")
           ELSE call' = [call EXCEPT ![c].pc = "steal", ![c].extra = {p}]
        /\ UNCHANGED <<rows, pointer, overlap>>

Steal(c) ==
    /\ call[c].pc = "steal"
    /\ rows' = {x \in rows : [user |-> x.user, id |-> x.id] \notin call[c].extra}
    /\ call' = [call EXCEPT ![c].pc = "putRow", ![c].extra = {}]
    /\ UNCHANGED <<pointer, overlap>>

PutDeviceRow(c) ==
    /\ call[c].pc = "putRow"
    /\ rows' = {x \in rows : ~(x.user = call[c].user /\ x.id = call[c].id)}
               \cup {[user |-> call[c].user, token |-> call[c].token, id |-> call[c].id]}
    /\ CallGoto(c, "point")
    /\ UNCHANGED <<pointer, overlap>>

PutPointer(c) ==
    /\ call[c].pc = "point"
    /\ pointer' = [pointer EXCEPT ![call[c].token] = [user |-> call[c].user, id |-> call[c].id]]
    /\ CallGoto(c, "done")
    /\ UNCHANGED <<rows, overlap>>

-----------------------------------------------------------------------------
(* DeletePushDevice deletes the row and then the pointer; the sweep of        *)
(* DeleteUser lists the rows, and for each deletes the pointer and then it.   *)

Remove(c, x) == Begin(c, "remove", x.user, x.token, x.id, {}, "dropRow")
Sweep(c, x) == Begin(c, "sweep", x.user, x.token, x.id, {}, "owner")

DropDeviceRow(c) ==
    /\ call[c].pc = "dropRow"
    /\ rows' = {x \in rows : ~(x.user = call[c].user /\ x.id = call[c].id)}
    /\ CallGoto(c, IF call[c].op = "remove" THEN "owner" ELSE "done")
    /\ UNCHANGED <<pointer, overlap>>

AfterRelease(c) == IF call[c].op = "remove" THEN "done" ELSE "dropRow"

\* releasePushToken compares the tenant the pointer names, not the row.
ReadOwner(c) ==
    /\ call[c].pc = "owner"
    /\ CallGoto(c, IF pointer[call[c].token].user = call[c].user THEN "release"
                   ELSE AfterRelease(c))
    /\ UNCHANGED <<rows, pointer, overlap>>

Release(c) ==
    /\ call[c].pc = "release"
    /\ pointer' = [pointer EXCEPT ![call[c].token] = NoPointer]
    /\ CallGoto(c, AfterRelease(c))
    /\ UNCHANGED <<rows, overlap>>

CallStops(c) ==
    /\ CallsMayFail
    /\ Busy(c)
    /\ CallGoto(c, "done")
    /\ overlap' = overlap \cup {call[c].token}
    /\ UNCHANGED <<rows, pointer>>

-----------------------------------------------------------------------------
PushInit ==
    /\ rows = {}
    /\ pointer = [t \in Tokens |-> NoPointer]
    /\ call = [c \in Calls |-> Fresh]
    /\ overlap = {}

PushNext ==
    \E c \in Calls :
        \/ \E u \in Tenants, t \in Tokens : Register(c, u, t)
        \/ \E x \in rows : Remove(c, x) \/ Sweep(c, x)
        \/ Collapse(c) \/ ReadHolder(c) \/ Steal(c) \/ PutDeviceRow(c) \/ PutPointer(c)
        \/ DropDeviceRow(c) \/ ReadOwner(c) \/ Release(c)
        \/ CallStops(c)

PushSpec == PushInit /\ [][PushNext]_pushVars

-----------------------------------------------------------------------------
PushTypeOK ==
    /\ rows \subseteq [user : Tenants, token : Tokens, id : Calls]
    /\ pointer \in [Tokens -> {NoPointer} \cup [user : Tenants, id : Calls]]
    /\ overlap \subseteq Tokens
    /\ DOMAIN call = Calls

\* A phone's token is delivered to once, for one tenant, and the pointer names
\* that row, whatever tenants registered it one after another and whatever was
\* removed between (pushdevice.go PutPushDevice): unless two calls for the
\* token overlapped or one stopped half way.  And whatever overlapped before, a
\* registration that nothing overlaps leaves its tenant with one row for the
\* token, the one the pointer names ("the client re-registers on every launch").
PointerNamesTheRow(t) ==
    \/ pointer[t] = NoPointer /\ \A x \in rows : x.token # t
    \/ {x \in rows : x.token = t}
          = {[user |-> pointer[t].user, token |-> t, id |-> pointer[t].id]}

RelaunchHeals(c) ==
    LET q == call[c]
    IN  q.pc = "point" /\ call'[c].pc = "done" /\ q.alone /\ pointer' # pointer =>
            OfUser(q.user, q.token)' = {[user |-> q.user, token |-> q.token, id |-> q.id]}

OneRowPerToken ==
    /\ [](\A t \in Tokens \ overlap :
             (\A c \in Calls : Busy(c) => call[c].token # t) => PointerNamesTheRow(t))
    /\ [][\A c \in Calls : RelaunchHeals(c)]_pushVars
=============================================================================
