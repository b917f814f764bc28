------------------------------ MODULE UserStore ------------------------------
(***************************************************************************)
(* What the user directory promises (internal/lineupapi/user.go), as the   *)
(* file store keeps it: every operation is one step under a mutex           *)
(* (internal/lineupapi/fileuser.go).  An e-mail and a team name at most     *)
(* one tenant; a profile write changes what its caller set and nothing      *)
(* that another caller wrote in between.                                    *)
(***************************************************************************)
EXTENDS Integers

CONSTANTS
    Users,     \* tenant ids
    Emails,    \* e-mail addresses
    Teams,     \* Fantrax teams
    None       \* no profile, no team, no holder

VARIABLE profile   \* each tenant's profile, or None

Statuses == {"active", "parked"}
Flags == {"on", "off"}      \* AutoApply

Profiles == [email : Emails, team : Teams \cup {None}, status : Statuses,
             auto : Flags, tokenVersion : Nat, ver : Nat]

Exists(u) == profile[u] # None

EmailFree(e) == \A u \in Users : Exists(u) => profile[u].email # e
TeamFree(t, u) == \A w \in Users \ {u} : Exists(w) => profile[w].team # t

NewProfile(e, t) ==
    [email |-> e, team |-> t, status |-> "active", auto |-> "off",
     tokenVersion |-> 0, ver |-> 1]

Init == profile \in [Users -> Profiles \cup {None}]

CreateUser(u, e, t) ==
    /\ ~Exists(u)
    /\ EmailFree(e)
    /\ t # None => TeamFree(t, u)
    /\ profile' = [profile EXCEPT ![u] = NewProfile(e, t)]

\* A profile write under its version, which it advances.
Write(u, p) ==
    /\ Exists(u)
    /\ profile' = [profile EXCEPT ![u] = [p EXCEPT !.ver = profile[u].ver + 1]]

ClaimTeam(u, t) ==
    /\ TeamFree(t, u)
    /\ Write(u, [profile[u] EXCEPT !.team = t])

PutUser(u) ==
    \/ \E s \in Statuses : Write(u, [profile[u] EXCEPT !.status = s])
    \/ \E f \in Flags : Write(u, [profile[u] EXCEPT !.auto = f])
    \/ Write(u, [profile[u] EXCEPT !.tokenVersion = @ + 1])

DeleteUser(u) ==
    /\ Exists(u)
    /\ profile' = [profile EXCEPT ![u] = None]

Next ==
    \E u \in Users :
        \/ \E e \in Emails, t \in Teams \cup {None} : CreateUser(u, e, t)
        \/ \E t \in Teams : ClaimTeam(u, t)
        \/ PutUser(u)
        \/ DeleteUser(u)

Spec == Init /\ [][Next]_profile
=============================================================================
