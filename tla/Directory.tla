------------------------------ MODULE Directory ------------------------------
(***************************************************************************)
(* The tenant directory on DynamoDB (internal/lineupapi/ddbuser) and the    *)
(* requests that change it: the admin's invite, recovery, team, status,      *)
(* auto-apply and delete (tenants_admin.go), the tenant's preferences        *)
(* (me.go), and the registration and revocation of a passkey (webauthn.go).  *)
(* Every item is its own key: each get, conditional put and delete is one    *)
(* step, and any request may stop between two of them.                       *)
(*                                                                          *)
(* A request refused by its first read changes nothing and is not a step.    *)
(* Signing in is left out.                                                   *)
(***************************************************************************)
EXTENDS Integers, FiniteSets

CONSTANTS
    Users,     \* tenant ids; a random handle, never used twice
    Emails,
    Teams,
    Requests,  \* the requests, each of one operation
    Setup,     \* the request that made the first tenant, link and passkey
    None,
    Attempts,  \* tries of a profile write (5 in the code)
    Failures   \* may a request stop half way?

Issuers == Requests \cup {Setup}   \* a link or a passkey, named by its maker

ASSUME DirectoryAssumption ==
    /\ Setup \notin Requests
    /\ None \notin Users \cup Emails \cup Teams \cup Issuers
    /\ Attempts \in Nat \ {0}
    /\ Failures \in BOOLEAN

VARIABLES
    profile,     \* USER#<uid> PROFILE
    emailClaim,  \* EMAIL#<address> -> uid
    teamClaim,   \* TEAM#<team> -> uid
    link,        \* ENROLL#<token>: its tenant and whether it is used
    passkey,     \* CRED# row of a tenant, its index row, the link it came from
    req,         \* each request: operation, next step, what it has read
    minted,      \* history: the ids ever given out
    cut,         \* history: tenants with overlapping or unfinished operations
    deletedTwice \* history: two deletions of one tenant overlapped

items == <<profile, emailClaim, teamClaim, link, passkey>>
vars == <<profile, emailClaim, teamClaim, link, passkey, req, minted, cut, deletedTwice>>

Store == INSTANCE UserStore

\* No profile is not a profile.
ASSUME NoneAssumption == None \notin Store!Profiles

Exists(u) == profile[u] # None

Idle == [op |-> "none", pc |-> "idle", user |-> None, arg |-> None,
         copy |-> None, tries |-> 0, keys |-> {}]

Active(r) == req[r].pc \notin {"idle", "done"}

\* A request's first step.
Start(r, op, u, arg, pc, copy) ==
    req' = [req EXCEPT ![r] = [Idle EXCEPT !.op = op, !.user = u, !.arg = arg,
                                           !.pc = pc, !.copy = copy]]

Goto(r, pc) == req' = [req EXCEPT ![r].pc = pc]

\* Operations that add items of a tenant beside its profile, or remove them:
\* the others of the same tenant with which each may interfere.
Interferes(op) ==
    CASE op = "delete"   -> {"setTeam", "register", "delete"}
      [] op = "setTeam"  -> {"setTeam", "delete"}
      [] op = "register" -> {"delete"}
      [] op = "revoke"   -> {"register"}
Meets(u, ops) == \E q \in Requests : Active(q) /\ req[q].user = u /\ req[q].op \in ops
NoteOverlap(op, u) == cut' = IF Meets(u, Interferes(op)) THEN cut \cup {u} ELSE cut

-----------------------------------------------------------------------------
(* Invite and recovery.                                                     *)

\* One transaction: the profile and both claims, or nothing.
CreateUser(u, e, t) ==
    /\ emailClaim[e] = None
    /\ t # None => teamClaim[t] = None
    /\ profile' = [profile EXCEPT ![u] = Store!NewProfile(e, t)]
    /\ emailClaim' = [emailClaim EXCEPT ![e] = u]
    /\ teamClaim' = [x \in Teams |-> IF x = t THEN u ELSE teamClaim[x]]

Invite(r, u, e, t) ==
    /\ req[r] = Idle
    /\ u \notin minted
    /\ CreateUser(u, e, t)
    /\ minted' = minted \cup {u}
    /\ Start(r, "invite", u, None, "mint", None)
    /\ UNCHANGED <<link, passkey, cut, deletedTwice>>

Recover(r, u) ==
    /\ req[r] = Idle
    /\ Exists(u)
    /\ Start(r, "recover", u, None, "mint", None)
    /\ UNCHANGED <<items, minted, cut, deletedTwice>>

Mint(r) ==
    /\ req[r].pc = "mint"
    /\ link' = [link EXCEPT ![r] = [user |-> req[r].user, state |-> "unused"]]
    /\ Goto(r, "done")
    /\ UNCHANGED <<profile, emailClaim, teamClaim, passkey, minted, cut, deletedTwice>>

Expire(l) ==
    /\ link[l].state = "unused"
    /\ link' = [link EXCEPT ![l].state = "expired"]
    /\ UNCHANGED <<profile, emailClaim, teamClaim, passkey, req, minted, cut, deletedTwice>>

-----------------------------------------------------------------------------
(* Profile writes: read, change one field, put under the version read.       *)

Changed(q) ==
    CASE q.op = "setTeam"   -> [q.copy EXCEPT !.team = q.arg]
      [] q.op = "setStatus" -> [q.copy EXCEPT !.status = q.arg]
      [] q.op \in {"setAuto", "setPrefs"} -> [q.copy EXCEPT !.auto = q.arg]
      [] q.op = "revoke"    -> [q.copy EXCEPT !.tokenVersion = @ + 1]

MutMayRetry(q) == q.op \notin {"setPrefs", "revoke"} /\ q.tries < Attempts

\* mutateUser re-reads after a lost write, and so does ClaimTeam;
\* handleSetPreferences and handleRevokePasskey report it instead.
MayRetry(q) == q.op \notin {"setPrefs", "revoke"} /\ q.tries + 1 < Attempts

Mutate(r, op, u, arg) ==
    /\ req[r] = Idle
    /\ Exists(u)
    /\ Start(r, op, u, arg, "write", profile[u])
    /\ UNCHANGED <<items, minted, cut, deletedTwice>>

SetStatus(r, u, s) == Mutate(r, "setStatus", u, s)
SetAutoApply(r, u, f) == Mutate(r, "setAuto", u, f)
SetPreferences(r, u, f) == Mutate(r, "setPrefs", u, f)

ReadProfile(r) ==
    /\ req[r].pc = "read"
    /\ IF Exists(req[r].user)
       THEN req' = [req EXCEPT ![r].pc = "write", ![r].copy = profile[req[r].user]]
       ELSE Goto(r, "done")
    /\ UNCHANGED <<items, minted, cut, deletedTwice>>

MutVersionHolds(q) == Exists(q.user)

VersionHolds(q) == Exists(q.user) /\ profile[q.user].ver = q.copy.ver

PutUser(u, p) == profile' = [profile EXCEPT ![u] = [p EXCEPT !.ver = @ + 1]]

PutProfile(r) ==
    /\ req[r].pc = "write"
    /\ VersionHolds(req[r])
    /\ PutUser(req[r].user, Changed(req[r]))
    /\ Goto(r, "done")
    /\ UNCHANGED <<emailClaim, teamClaim, link, passkey, minted, cut, deletedTwice>>

LoseProfile(r) ==
    /\ req[r].pc = "write"
    /\ ~VersionHolds(req[r])
    /\ IF MayRetry(req[r])
       THEN /\ req' = [req EXCEPT ![r].pc = "read", ![r].tries = @ + 1]
            /\ UNCHANGED cut
       ELSE /\ Goto(r, "done")
            /\ cut' = cut \cup {req[r].user}
    /\ UNCHANGED <<items, minted, deletedTwice>>

-----------------------------------------------------------------------------
(* The team.                                                                *)

\* SetTeam refuses a tenant whose profile names another team.  The connect
\* task, ClaimTeam's other caller, claims the team its own record names.
SetTeam(r, u, t) ==
    /\ req[r] = Idle
    /\ Exists(u)
    /\ profile[u].team \in {None, t}
    /\ Start(r, "setTeam", u, t, "claim", None)
    /\ NoteOverlap("setTeam", u)
    /\ UNCHANGED <<items, minted, deletedTwice>>

MutClaimable(t, u) == TRUE

\* The put's condition: attribute_not_exists(pk) OR uid = :uid.
Claimable(t, u) == teamClaim[t] \in {None, u}

ClaimPointer(r) ==
    LET q == req[r]
    IN  /\ q.pc = "claim"
        /\ IF Claimable(q.arg, q.user)
           THEN /\ teamClaim' = [teamClaim EXCEPT ![q.arg] = q.user]
                /\ Goto(r, "read")
           ELSE /\ Goto(r, "done")
                /\ UNCHANGED teamClaim
        /\ UNCHANGED <<profile, emailClaim, link, passkey, minted, cut, deletedTwice>>

-----------------------------------------------------------------------------
(* Passkeys.                                                                *)

Usable(l) == link[l].state = "unused"

\* registrationSubject: the link and its tenant, read and not spent.
RegisterPasskey(r, l) ==
    /\ req[r] = Idle
    /\ Usable(l)
    /\ Exists(link[l].user)
    /\ Start(r, "register", link[l].user, l, "redeem", None)
    /\ NoteOverlap("register", link[l].user)
    /\ UNCHANGED <<items, minted, deletedTwice>>

\* A signed-in tenant adds a device with no link to spend (registrationSubject,
\* sessionUser): the row and its index are all that is left to write.
AddPasskey(r, u) ==
    /\ req[r] = Idle
    /\ Exists(u)
    /\ Start(r, "register", u, None, "putRow", None)
    /\ NoteOverlap("register", u)
    /\ UNCHANGED <<items, minted, deletedTwice>>

\* RedeemEnrollment reads the link again before it puts it back as used.
ReadLink(r) ==
    /\ req[r].pc = "redeem"
    /\ Goto(r, IF Usable(req[r].arg) THEN "burn" ELSE "done")
    /\ UNCHANGED <<items, minted, cut, deletedTwice>>

MutNotUsed(l) == TRUE

\* The put's condition, attribute_not_exists(UsedAt), does not ask for expiry.
NotUsed(l) == link[l].state # "used"

BurnLink(r) ==
    /\ req[r].pc = "burn"
    /\ IF NotUsed(req[r].arg)
       THEN /\ link' = [link EXCEPT ![req[r].arg].state = "used"]
            /\ Goto(r, "putRow")
       ELSE /\ Goto(r, "done")
            /\ UNCHANGED link
    /\ UNCHANGED <<profile, emailClaim, teamClaim, passkey, minted, cut, deletedTwice>>

\* PutCredential: the row, then its index; the passkey is the request's own.
PutRow(r) ==
    /\ req[r].pc = "putRow"
    /\ passkey' = [passkey EXCEPT ![r].row = req[r].user, ![r].from = req[r].arg]
    /\ Goto(r, "putIndex")
    /\ UNCHANGED <<profile, emailClaim, teamClaim, link, minted, cut, deletedTwice>>

PutIndex(r) ==
    /\ req[r].pc = "putIndex"
    /\ passkey' = [passkey EXCEPT ![r].index = req[r].user]
    /\ Goto(r, "done")
    /\ UNCHANGED <<profile, emailClaim, teamClaim, link, minted, cut, deletedTwice>>

\* handleRevokePasskey: the caller's profile, read before anything is deleted.
Revoke(r, u, k) ==
    /\ req[r] = Idle
    /\ Exists(u)
    /\ passkey[k].row = u
    /\ req' = [req EXCEPT ![r] = [Idle EXCEPT !.op = "revoke", !.user = u, !.copy = profile[u],
                                              !.pc = "dropIndex", !.keys = {k}]]
    /\ NoteOverlap("revoke", u)
    /\ UNCHANGED <<items, minted, deletedTwice>>

-----------------------------------------------------------------------------
(* Deletion: the tenant's items, then the claims its profile named.          *)

Delete(r, u) ==
    /\ req[r] = Idle
    /\ u \in minted
    /\ Start(r, "delete", u, None, "list", profile[u])
    /\ NoteOverlap("delete", u)
    /\ deletedTwice' = (deletedTwice \/ Meets(u, {"delete"}))
    /\ UNCHANGED <<items, minted>>

ListItems(r) ==
    LET rows == {k \in Issuers : passkey[k].row = req[r].user}
    IN  /\ req[r].pc = "list"
        /\ req' = [req EXCEPT ![r].keys = rows,
                              ![r].pc = IF rows = {} THEN "dropProfile" ELSE "dropIndex"]
        /\ UNCHANGED <<items, minted, cut, deletedTwice>>

\* Each passkey's index before its row, for a revocation and a deletion alike.
DropIndex(r) ==
    \E k \in req[r].keys :
        /\ req[r].pc = "dropIndex"
        /\ passkey' = [passkey EXCEPT ![k].index = None]
        /\ req' = [req EXCEPT ![r].pc = "dropRow", ![r].arg = k, ![r].keys = @ \ {k}]
        /\ UNCHANGED <<profile, emailClaim, teamClaim, link, minted, cut, deletedTwice>>

DropRow(r) ==
    LET q == req[r]
    IN  /\ q.pc = "dropRow"
        /\ passkey' = [passkey EXCEPT ![q.arg].row = IF @ = q.user THEN None ELSE @]
        /\ Goto(r, IF q.op = "revoke" THEN "write"
                   ELSE IF q.keys = {} THEN "dropProfile" ELSE "dropIndex")
        /\ UNCHANGED <<profile, emailClaim, teamClaim, link, minted, cut, deletedTwice>>

DropProfile(r) ==
    /\ req[r].pc = "dropProfile"
    /\ profile' = [profile EXCEPT ![req[r].user] = None]
    /\ Goto(r, IF req[r].copy = None THEN "done" ELSE "emailRead")
    /\ UNCHANGED <<emailClaim, teamClaim, link, passkey, minted, cut, deletedTwice>>

\* A claim is read, compared with the tenant and deleted, in that order.
ReadEmailClaim(r) ==
    LET q == req[r]
    IN  /\ q.pc = "emailRead"
        /\ Goto(r, IF emailClaim[q.copy.email] = q.user THEN "emailDrop" ELSE "teamRead")
        /\ UNCHANGED <<items, minted, cut, deletedTwice>>

DropEmailClaim(r) ==
    /\ req[r].pc = "emailDrop"
    /\ emailClaim' = [emailClaim EXCEPT ![req[r].copy.email] = None]
    /\ Goto(r, "teamRead")
    /\ UNCHANGED <<profile, teamClaim, link, passkey, minted, cut, deletedTwice>>

MutReadTeamClaim(r) ==
    /\ req[r].pc = "teamRead"
    /\ Goto(r, "done")
    /\ UNCHANGED <<items, minted, cut, deletedTwice>>

ReadTeamClaim(r) ==
    LET q == req[r]
    IN  /\ q.pc = "teamRead"
        /\ Goto(r, IF q.copy.team # None /\ teamClaim[q.copy.team] = q.user
                   THEN "teamDrop" ELSE "done")
        /\ UNCHANGED <<items, minted, cut, deletedTwice>>

DropTeamClaim(r) ==
    /\ req[r].pc = "teamDrop"
    /\ teamClaim' = [teamClaim EXCEPT ![req[r].copy.team] = None]
    /\ Goto(r, "done")
    /\ UNCHANGED <<profile, emailClaim, link, passkey, minted, cut, deletedTwice>>

\* The Lambda is killed, or a call fails and the handler returns its error.
Stop(r) ==
    /\ Failures
    /\ Active(r)
    /\ Goto(r, "done")
    /\ cut' = cut \cup {req[r].user}
    /\ UNCHANGED <<items, minted, deletedTwice>>

-----------------------------------------------------------------------------
\* One tenant, invited without a team or with one, holding a passkey and an
\* unused recovery link.
Init ==
    \E u \in Users, e \in Emails, t \in Teams \cup {None} :
        /\ profile = [w \in Users |-> IF w = u THEN Store!NewProfile(e, t) ELSE None]
        /\ emailClaim = [x \in Emails |-> IF x = e THEN u ELSE None]
        /\ teamClaim = [x \in Teams |-> IF x = t THEN u ELSE None]
        /\ link = [l \in Issuers |-> IF l = Setup THEN [user |-> u, state |-> "unused"]
                                     ELSE [user |-> None, state |-> "none"]]
        /\ passkey = [k \in Issuers |-> IF k = Setup THEN [row |-> u, index |-> u, from |-> None]
                                        ELSE [row |-> None, index |-> None, from |-> None]]
        /\ req = [r \in Requests |-> Idle]
        /\ minted = {u}
        /\ cut = {}
        /\ deletedTwice = FALSE

Admin(r) ==
    \E u \in Users :
        \/ \E e \in Emails, t \in Teams \cup {None} : Invite(r, u, e, t)
        \/ Recover(r, u)
        \/ \E t \in Teams : SetTeam(r, u, t)
        \/ \E s \in Store!Statuses : SetStatus(r, u, s)
        \/ \E f \in Store!Flags : SetAutoApply(r, u, f)
        \/ Delete(r, u)

Tenant(r) ==
    \/ \E l \in Issuers : RegisterPasskey(r, l)
    \/ \E u \in Users : AddPasskey(r, u)
    \/ \E u \in Users, f \in Store!Flags : SetPreferences(r, u, f)
    \/ \E u \in Users, k \in Issuers : Revoke(r, u, k)

Continue(r) ==
    \/ Mint(r) \/ ReadProfile(r) \/ PutProfile(r) \/ LoseProfile(r) \/ ClaimPointer(r)
    \/ ReadLink(r) \/ BurnLink(r) \/ PutRow(r) \/ PutIndex(r)
    \/ ListItems(r) \/ DropIndex(r) \/ DropRow(r) \/ DropProfile(r)
    \/ ReadEmailClaim(r) \/ DropEmailClaim(r) \/ ReadTeamClaim(r) \/ DropTeamClaim(r)

Next ==
    \/ \E r \in Requests : Admin(r) \/ Tenant(r) \/ Continue(r) \/ Stop(r)
    \/ \E l \in Issuers : Expire(l)

Spec == Init /\ [][Next]_vars

-----------------------------------------------------------------------------
(* Properties.                                                              *)

AtRest == \A r \in Requests : ~Active(r)

Holders == Users \cup {None}

TypeOK ==
    /\ profile \in [Users -> Store!Profiles \cup {None}]
    /\ emailClaim \in [Emails -> Holders]
    /\ teamClaim \in [Teams -> Holders]
    /\ link \in [Issuers -> [user : Holders, state : {"none", "unused", "used", "expired"}]]
    /\ passkey \in [Issuers -> [row : Holders, index : Holders, from : Issuers \cup {None}]]
    /\ DOMAIN req = Requests
    /\ \A r \in Requests : req[r].user \in Holders /\ req[r].tries < Attempts
    /\ minted \subseteq Users /\ cut \subseteq minted
    /\ deletedTwice \in BOOLEAN

\* A profile's e-mail and team are claimed in its name at every moment, so no
\* second tenant can take them (ddbuser.go CreateUser, ClaimTeam, DeleteUser),
\* unless two deletions of one tenant ran at once: the second then deletes a
\* claim that has since changed hands, the race ddbuser.go accepts at 478.
ProfilesHoldTheirClaims ==
    deletedTwice \/
    \A u \in Users : Exists(u) =>
        /\ emailClaim[profile[u].email] = u
        /\ profile[u].team # None => teamClaim[profile[u].team] = u

\* When nothing is in flight, a claim names a tenant whose profile names it
\* back, so a deleted tenant leaves its e-mail and team free (user.go,
\* DeleteUser: "RELEASING THE CLAIMS IS THE POINT"), and leaves no passkey and
\* none that still resolves to it (ddbuser.go DeleteUser: "a credential that
\* still resolves is usable"): for every tenant none of whose operations
\* overlapped a claim or a deletion, or stopped half way.
ClaimsAreBacked ==
    /\ \A e \in Emails : LET u == emailClaim[e]
                         IN  u = None \/ u \in cut \/ (Exists(u) /\ profile[u].email = e)
    /\ \A t \in Teams : LET u == teamClaim[t]
                        IN  u = None \/ u \in cut \/ (Exists(u) /\ profile[u].team = t)
DeletedTenantsHoldNoPasskey ==
    \A u \in minted \ cut, k \in Issuers :
        ~Exists(u) => passkey[k].row # u /\ passkey[k].index # u
NothingIsLeftBehind == AtRest => ClaimsAreBacked /\ DeletedTenantsHoldNoPasskey

\* One link yields one passkey, however many registrations race for it
\* (ddbuser.go RedeemEnrollment, webauthn.go handleAuthRegisterFinish).
LinkMintsOnePasskey ==
    \A l \in Issuers : Cardinality({k \in Issuers : passkey[k].from = l}) <= 1

\* The steps over single items are steps of the directory as its interface
\* promises it, until two deletions of one tenant overlap.  A write keeps every
\* field another request changed after this one read the profile (mutateUser),
\* and none lowers the token version, which would bring back a session that a
\* revocation ended (webauthn.go handleRevokePasskey, session.go).
ImplementsUserStore == [][deletedTwice' \/ Store!Next]_profile
=============================================================================
