--------------------------- MODULE TenantsProofs ---------------------------
(* Proofs about the user directory (Directory) and the push registrations      *)
(* (PushDevices): their types, that deletion and claims keep their word under  *)
(* every interleaving, that Directory's steps are those of the conditional     *)
(* store it is written against (UserStore), and that a token is delivered to   *)
(* once.                                                                       *)
(*                                                                             *)
(* The directory's invariant is built in layers, each using those before it:   *)
(*   DirInv    what the requests and the stored items are                      *)
(*   CopyInv   what a request's copy of a profile still says of it             *)
(*   HoldInv   who holds which claim                                           *)
(*   LinkInv   what a link was spent on                                        *)
(*   BackInv   what keeps a claim: a profile, or a request that owes a release *)
(*   KeyInv    which passkeys a deletion has still to find                     *)
(* and one layer, PushInv, does for the push registrations.                    *)
EXTENDS MCTenants, FiniteSetTheorems, TLAPS

-----------------------------------------------------------------------------
(* Directory: the requests and the items.                                      *)

Ops == {"none", "invite", "recover", "setTeam", "setStatus", "setAuto", "setPrefs", "register",
        "revoke", "delete"}
Writers == {"setTeam", "setStatus", "setAuto", "setPrefs", "revoke"}
Releasing == {"emailRead", "emailDrop", "teamRead", "teamDrop"}
Steps == {"idle", "done", "mint", "read", "write", "claim", "redeem", "burn", "putRow", "putIndex",
          "list", "dropIndex", "dropRow", "dropProfile"} \cup Releasing
Args == Teams \cup Store!Statuses \cup Store!Flags \cup Issuers \cup {None}
Copies == Store!Profiles \cup {None}
Links == [user : Holders, state : {"none", "unused", "used", "expired"}]
Keys == [row : Holders, index : Holders, from : Issuers \cup {None}]
Reqs == [op : Ops, pc : Steps, user : Holders, arg : Args, copy : Copies,
         tries : 0..(Attempts - 1), keys : SUBSET Issuers]

\* What a request's operation and step say of the rest of it.
Sound(q) ==
    /\ q.pc = "idle" => q = Idle
    /\ q.pc # "idle" => q.user \in minted /\ q.op # "none"
    /\ q.pc = "mint" => q.op \in {"invite", "recover"}
    /\ q.pc = "claim" => q.op = "setTeam"
    /\ q.pc \in {"read", "write"} => q.op \in Writers
    /\ q.pc \in {"redeem", "burn", "putRow", "putIndex"} => q.op = "register"
    /\ q.pc \in {"list", "dropProfile"} \cup Releasing => q.op = "delete"
    /\ q.pc \in {"dropIndex", "dropRow"} => q.op \in {"delete", "revoke"}
    /\ q.op = "setTeam" => q.arg \in Teams
    /\ q.op = "setStatus" => q.arg \in Store!Statuses
    /\ q.op \in {"setAuto", "setPrefs"} => q.arg \in Store!Flags
    /\ q.op = "register" => q.arg \in Issuers \cup {None}
    /\ q.pc = "redeem" \/ q.pc = "burn" \/ q.pc = "dropRow" => q.arg \in Issuers
    /\ q.pc = "write" \/ q.op = "revoke" \/ q.pc \in Releasing => q.copy \in Store!Profiles
    /\ q.pc = "teamDrop" => q.copy.team \in Teams

DirInv ==
    /\ TypeOK
    /\ req \in [Requests -> Reqs]
    /\ \A r \in Requests : Sound(req[r])
    /\ \A l \in Issuers : link[l].state = "unused" => link[l].user \in minted
    /\ \A u \in Users : Exists(u) => u \in minted

LEMMA DirNames ==
    /\ None \notin Users /\ None \notin Emails /\ None \notin Teams /\ None \notin Issuers
    /\ None \notin Store!Profiles
    /\ Attempts \in Nat /\ 1 <= Attempts /\ Requests \subseteq Issuers /\ Setup \in Issuers
    /\ Setup \notin Requests
  BY DirectoryAssumption, NoneAssumption DEF Issuers

LEMMA IdleIs ==
    /\ Idle \in Reqs /\ Idle.op = "none" /\ Idle.pc = "idle" /\ Idle.user = None
    /\ Idle.arg = None /\ Idle.copy = None /\ Idle.tries = 0 /\ Idle.keys = {}
<1>1. 0 \in 0..(Attempts - 1)
  BY DirNames
<1> QED BY <1>1 DEF Idle, Reqs, Ops, Steps, Holders, Args, Copies

LEMMA ReqIs ==
    ASSUME DirInv, NEW r \in Requests
    PROVE  /\ req \in [Requests -> Reqs] /\ req[r] \in Reqs /\ Sound(req[r])
           /\ req[r].op \in Ops /\ req[r].pc \in Steps /\ req[r].user \in Holders
           /\ req[r].arg \in Args /\ req[r].copy \in Copies /\ req[r].tries \in 0..(Attempts - 1)
           /\ req[r].keys \in SUBSET Issuers
           /\ req[r].pc # "idle" => req[r].user \in minted /\ req[r].user \in Users
           /\ minted \subseteq Users /\ cut \subseteq minted
  BY DEF DirInv, TypeOK, Reqs, Sound

LEMMA ProfileIs ==
    ASSUME DirInv, NEW u \in Users
    PROVE  /\ profile \in [Users -> Copies]
           /\ Exists(u) => profile[u] \in Store!Profiles /\ profile[u].email \in Emails
                           /\ profile[u].team \in Teams \cup {None} /\ profile[u].ver \in Nat
  BY DEF DirInv, TypeOK, Exists, Copies, Store!Profiles

LEMMA GotoIs ==
    ASSUME DirInv, NEW r \in Requests, NEW pc \in Steps, Goto(r, pc)
    PROVE  /\ req' \in [Requests -> Reqs] /\ \A o \in Requests \ {r} : req'[o] = req[o]
           /\ req'[r].pc = pc /\ req'[r].op = req[r].op /\ req'[r].user = req[r].user
           /\ req'[r].arg = req[r].arg /\ req'[r].copy = req[r].copy
           /\ req'[r].tries = req[r].tries /\ req'[r].keys = req[r].keys
<1> DEFINE x == [req[r] EXCEPT !.pc = pc]
<1>1. /\ x \in Reqs /\ x.pc = pc /\ x.op = req[r].op /\ x.user = req[r].user
      /\ x.arg = req[r].arg /\ x.copy = req[r].copy /\ x.tries = req[r].tries
      /\ x.keys = req[r].keys
  BY ReqIs DEF Reqs
<1>2. req' = [req EXCEPT ![r] = x]
  BY ReqIs DEF Goto
<1> HIDE DEF x
<1> QED BY <1>1, <1>2, ReqIs

LEMMA StartIs ==
    ASSUME DirInv, NEW r \in Requests, NEW op \in Ops, NEW u \in Users, NEW arg \in Args,
           NEW pc \in Steps, NEW copy \in Copies, Start(r, op, u, arg, pc, copy)
    PROVE  /\ req' \in [Requests -> Reqs] /\ \A o \in Requests \ {r} : req'[o] = req[o]
           /\ req'[r].pc = pc /\ req'[r].op = op /\ req'[r].user = u /\ req'[r].arg = arg
           /\ req'[r].copy = copy /\ req'[r].tries = 0 /\ req'[r].keys = {}
<1> DEFINE x == [Idle EXCEPT !.op = op, !.user = u, !.arg = arg, !.pc = pc, !.copy = copy]
<1>1. /\ x \in Reqs /\ x.pc = pc /\ x.op = op /\ x.user = u /\ x.arg = arg /\ x.copy = copy
      /\ x.tries = 0 /\ x.keys = {}
  <2>1. /\ x.pc = pc /\ x.op = op /\ x.user = u /\ x.arg = arg /\ x.copy = copy
        /\ x.tries = 0 /\ x.keys = {}
    BY DEF Idle
  <2>2. x \in Reqs
    BY IdleIs DEF Reqs, Holders
  <2> QED BY <2>1, <2>2
<1>2. req' = [req EXCEPT ![r] = x]
  BY DEF Start
<1> HIDE DEF x
<1> QED BY <1>1, <1>2, ReqIs

LEMMA ItemsAre ==
    ASSUME DirInv
    PROVE  /\ profile \in [Users -> Copies] /\ emailClaim \in [Emails -> Holders]
           /\ teamClaim \in [Teams -> Holders] /\ link \in [Issuers -> Links]
           /\ passkey \in [Issuers -> Keys]
           /\ minted \subseteq Users /\ cut \subseteq minted /\ deletedTwice \in BOOLEAN
           /\ \A l \in Issuers : link[l].state = "unused" => link[l].user \in minted
           /\ \A u \in Users : profile[u] # None => u \in minted
  BY DEF DirInv, TypeOK, Copies, Links, Keys, Exists

\* What a step has to show for the first layer.
LEMMA DirStep ==
    ASSUME DirInv, NEW r \in Requests, req' \in [Requests -> Reqs],
           \A o \in Requests \ {r} : req'[o] = req[o], Sound(req[r])',
           profile' \in [Users -> Copies], emailClaim' \in [Emails -> Holders],
           teamClaim' \in [Teams -> Holders], link' \in [Issuers -> Links],
           passkey' \in [Issuers -> Keys], minted \subseteq minted', minted' \subseteq Users,
           cut' \subseteq minted', deletedTwice' \in BOOLEAN,
           \A l \in Issuers : link'[l].state = "unused" => link'[l].user \in minted',
           \A u \in Users : profile'[u] # None => u \in minted'
    PROVE  DirInv'
<1>1. ASSUME NEW o \in Requests PROVE Sound(req[o])'
  <2>1. CASE o = r
    BY <2>1
  <2>2. CASE o # r
    BY <2>2, ReqIs DEF Sound
  <2> QED BY <2>1, <2>2
<1>2. \A o \in Requests : req'[o].user \in Holders /\ req'[o].tries < Attempts
  <2>1. \A o \in Requests : req'[o] \in Reqs
    OBVIOUS
  <2> QED BY <2>1, DirNames DEF Reqs
<1>3. TypeOK'
  BY <1>2 DEF TypeOK, Copies, Links, Keys
<1> QED BY <1>1, <1>3 DEF DirInv, Exists

\* A request that goes on and leaves every item as it is.
LEMMA DirGoto ==
    ASSUME DirInv, NEW r \in Requests, NEW pc \in Steps \ {"idle"}, Goto(r, pc),
           UNCHANGED <<items, minted, deletedTwice>>, cut' \subseteq minted,
           Sound([req[r] EXCEPT !.pc = pc])
    PROVE  DirInv'
<1>1. /\ req' \in [Requests -> Reqs] /\ \A o \in Requests \ {r} : req'[o] = req[o]
      /\ req'[r] = [req[r] EXCEPT !.pc = pc] /\ req'[r] \in Reqs
  BY GotoIs, ReqIs DEF Goto
<1>2. Sound(req[r])'
  BY <1>1 DEF Sound
<1> QED BY <1>1, <1>2, DirStep, ItemsAre DEF items

LEMMA DirMint ==
    ASSUME DirInv, NEW r \in Requests, Mint(r)
    PROVE  DirInv'
<1> DEFINE l == [user |-> req[r].user, state |-> "unused"]
<1>1. /\ Goto(r, "done") /\ req[r].pc = "mint" /\ r \in Issuers /\ link' = [link EXCEPT ![r] = l]
      /\ UNCHANGED <<profile, emailClaim, teamClaim, passkey, minted, cut, deletedTwice>>
  BY DirNames DEF Mint
<1>2. l \in Links /\ l.user \in minted
  BY <1>1, ReqIs DEF Links
<1> HIDE DEF l
<1>3. Sound(req[r])'
  <2>1. /\ req'[r].pc = "done"
        /\ req'[r].op = req[r].op /\ req'[r].user = req[r].user /\ req'[r].arg = req[r].arg
        /\ req'[r].copy = req[r].copy /\ Sound(req[r])
    BY <1>1, GotoIs, ReqIs DEF Steps
  <2> QED BY <1>1, <2>1 DEF Sound, Releasing
<1> QED BY <1>1, <1>2, <1>3, GotoIs, ItemsAre, DirStep DEF Steps

LEMMA DirExpire ==
    ASSUME DirInv, NEW l \in Issuers, Expire(l)
    PROVE  DirInv'
<1>1. link' \in [Issuers -> Links] /\ \A k \in Issuers : link'[k].user = link[k].user
  BY ItemsAre DEF Expire, Links
<1>2. \A k \in Issuers : link'[k].state = "unused" => link[k].state = "unused"
  BY ItemsAre DEF Expire
<1> QED BY <1>1, <1>2, ItemsAre DEF Expire, DirInv, TypeOK, Sound, Exists, Links

LEMMA DirInvite ==
    ASSUME DirInv, NEW r \in Requests, NEW u \in Users, NEW e \in Emails, NEW t \in Teams \cup {None},
           Invite(r, u, e, t)
    PROVE  DirInv'
<1>1. /\ Start(r, "invite", u, None, "mint", None) /\ minted' = minted \cup {u}
      /\ UNCHANGED <<link, passkey, cut, deletedTwice>>
  BY DEF Invite
<1>2. "invite" \in Ops /\ None \in Args /\ "mint" \in Steps /\ None \in Copies
  BY DEF Ops, Args, Steps, Copies
<1>3. Store!NewProfile(e, t) \in Store!Profiles
  BY DEF Store!NewProfile, Store!Profiles, Store!Statuses, Store!Flags
<1>4. /\ profile' \in [Users -> Copies] /\ \A w \in Users \ {u} : profile'[w] = profile[w]
      /\ emailClaim' \in [Emails -> Holders] /\ teamClaim' \in [Teams -> Holders]
  BY <1>3, ItemsAre DEF Invite, CreateUser, Copies, Holders
<1>5. Sound(req[r])'
  BY <1>1, <1>2, StartIs DEF Sound, Releasing
<1>6. /\ req' \in [Requests -> Reqs] /\ \A o \in Requests \ {r} : req'[o] = req[o]
  BY <1>1, <1>2, StartIs
<1> QED BY <1>1, <1>4, <1>5, <1>6, ItemsAre, DirStep

\* A request's first step that leaves every item as it is.
LEMMA DirStart ==
    ASSUME DirInv, NEW r \in Requests, NEW op \in Ops, NEW u \in minted, NEW arg \in Args,
           NEW pc \in Steps, NEW copy \in Copies, Start(r, op, u, arg, pc, copy),
           UNCHANGED <<items, minted>>, cut' \subseteq minted, deletedTwice' \in BOOLEAN,
           Sound(req[r])'
    PROVE  DirInv'
<1>1. u \in Users
  BY ItemsAre
<1>2. /\ req' \in [Requests -> Reqs] /\ \A o \in Requests \ {r} : req'[o] = req[o]
  BY <1>1, StartIs
<1> QED BY <1>2, ItemsAre, DirStep DEF items

LEMMA DirRecover ==
    ASSUME DirInv, NEW r \in Requests, NEW u \in Users, Recover(r, u)
    PROVE  DirInv'
<1>1. /\ Start(r, "recover", u, None, "mint", None) /\ u \in minted
      /\ UNCHANGED <<items, minted, cut, deletedTwice>>
  BY ItemsAre DEF Recover, Exists
<1>2. "recover" \in Ops /\ None \in Args /\ "mint" \in Steps /\ None \in Copies
  BY DEF Ops, Args, Steps, Copies
<1>3. Sound(req[r])'
  BY <1>1, <1>2, StartIs DEF Sound, Releasing
<1> QED BY <1>1, <1>2, <1>3, ItemsAre, DirStart

LEMMA DirMutate ==
    ASSUME DirInv, NEW r \in Requests, NEW u \in Users,
           NEW op \in {"setStatus", "setAuto", "setPrefs"}, NEW arg \in Args, Mutate(r, op, u, arg),
           op = "setStatus" => arg \in Store!Statuses, op # "setStatus" => arg \in Store!Flags
    PROVE  DirInv'
<1>1. PICK c \in Copies : c = profile[u]
  BY ItemsAre
<1>2. /\ Start(r, op, u, arg, "write", c) /\ u \in minted /\ c \in Store!Profiles
      /\ UNCHANGED <<items, minted, cut, deletedTwice>>
  BY <1>1, ItemsAre DEF Mutate, Exists, Copies
<1>3. op \in Ops /\ op \in Writers /\ "write" \in Steps
  BY DEF Ops, Writers, Steps
<1>4. Sound(req[r])'
  BY <1>2, <1>3, StartIs DEF Sound, Releasing
<1> QED BY <1>2, <1>3, <1>4, ItemsAre, DirStart

LEMMA DirReadProfile ==
    ASSUME DirInv, NEW r \in Requests, ReadProfile(r)
    PROVE  DirInv'
<1>1. req[r].pc = "read" /\ UNCHANGED <<items, minted, cut, deletedTwice>> /\ Sound(req[r])
      /\ cut \subseteq minted
  BY ReqIs DEF ReadProfile
<1>2. CASE ~Exists(req[r].user)
  <2>1. Goto(r, "done") /\ "done" \in Steps \ {"idle"}
    BY <1>2 DEF ReadProfile, Steps
  <2>2. Sound([req[r] EXCEPT !.pc = "done"])
    BY <1>1, ReqIs DEF Sound, Releasing, Reqs
  <2> QED BY <1>1, <2>1, <2>2, DirGoto
<1>3. CASE Exists(req[r].user)
  <2>1. PICK c \in Store!Profiles : c = profile[req[r].user]
    BY <1>1, <1>3, ReqIs, ProfileIs
  <2> DEFINE x == [req[r] EXCEPT !.pc = "write", !.copy = c]
  <2>2. /\ x \in Reqs /\ x.pc = "write" /\ x.copy = c /\ x.op = req[r].op /\ x.arg = req[r].arg
        /\ x.user = req[r].user
    BY ReqIs DEF Reqs, Copies, Steps
  <2>3. req' = [req EXCEPT ![r] = x]
    BY <1>3, <2>1, ReqIs DEF ReadProfile
  <2> HIDE DEF x
  <2>4. req' \in [Requests -> Reqs] /\ \A o \in Requests \ {r} : req'[o] = req[o]
    BY <2>2, <2>3, ReqIs
  <2>5. Sound(req[r])'
    BY <1>1, <2>2, <2>3, ReqIs DEF Sound, Releasing
  <2> QED BY <1>1, <2>4, <2>5, ItemsAre, DirStep DEF items
<1> QED BY <1>2, <1>3

\* A write leaves the tenant's profile a profile.
LEMMA ChangedIs ==
    ASSUME DirInv, NEW r \in Requests, req[r].pc = "write"
    PROVE  Changed(req[r]) \in Store!Profiles
<1>1. PICK q \in Reqs : q = req[r]
  BY ReqIs
<1>2. /\ q.copy \in Store!Profiles /\ q.op \in Writers
      /\ q.op = "setTeam" => q.arg \in Teams
      /\ q.op = "setStatus" => q.arg \in Store!Statuses
      /\ q.op \in {"setAuto", "setPrefs"} => q.arg \in Store!Flags
  BY <1>1, ReqIs DEF Sound
<1>3. PICK c \in Store!Profiles : c = q.copy
  BY <1>2
<1>4. PICK x : x = Changed(q)
  OBVIOUS
<1>5. q.op = "setTeam" => x \in Store!Profiles
  <2>1. q.op = "setTeam" => x = [c EXCEPT !.team = q.arg]
    BY <1>3, <1>4 DEF Changed
  <2> QED BY <1>2, <2>1 DEF Store!Profiles
<1>6. q.op = "setStatus" => x \in Store!Profiles
  <2>1. q.op = "setStatus" => x = [c EXCEPT !.status = q.arg]
    BY <1>3, <1>4 DEF Changed
  <2> QED BY <1>2, <2>1 DEF Store!Profiles
<1>7. q.op \in {"setAuto", "setPrefs"} => x \in Store!Profiles
  <2>1. q.op \in {"setAuto", "setPrefs"} => x = [c EXCEPT !.auto = q.arg]
    BY <1>3, <1>4 DEF Changed
  <2> QED BY <1>2, <2>1 DEF Store!Profiles
<1>8. q.op = "revoke" => x \in Store!Profiles
  <2>1. q.op = "revoke" => x = [c EXCEPT !.tokenVersion = @ + 1]
    BY <1>3, <1>4 DEF Changed
  <2> QED BY <2>1 DEF Store!Profiles
<1>9. x \in Store!Profiles
  BY <1>2, <1>5, <1>6, <1>7, <1>8 DEF Writers
<1> QED BY <1>1, <1>4, <1>9

LEMMA DirPutProfile ==
    ASSUME DirInv, NEW r \in Requests, PutProfile(r)
    PROVE  DirInv'
<1>1. /\ req[r].pc = "write" /\ Exists(req[r].user) /\ Goto(r, "done")
      /\ UNCHANGED <<emailClaim, teamClaim, link, passkey, minted, cut, deletedTwice>>
  BY DEF PutProfile, VersionHolds
<1>2. PICK c \in Store!Profiles : c = Changed(req[r])
  BY <1>1, ChangedIs
<1>3. profile' = [profile EXCEPT ![req[r].user] = [c EXCEPT !.ver = @ + 1]]
  BY <1>2 DEF PutProfile, PutUser
<1>4. [c EXCEPT !.ver = @ + 1] \in Copies
  BY DEF Store!Profiles, Copies
<1>5. profile' \in [Users -> Copies] /\ \A w \in Users : profile'[w] # None => profile[w] # None
  BY <1>1, <1>3, <1>4, ItemsAre DEF Exists
<1>6. Sound(req[r])'
  BY <1>1, GotoIs, ReqIs DEF Sound, Steps, Releasing
<1> QED BY <1>1, <1>5, <1>6, GotoIs, ItemsAre, DirStep DEF Steps

LEMMA DirLoseProfile ==
    ASSUME DirInv, NEW r \in Requests, LoseProfile(r)
    PROVE  DirInv'
<1>1. /\ req[r].pc = "write" /\ UNCHANGED <<items, minted, deletedTwice>> /\ Sound(req[r])
      /\ req[r].user \in minted /\ cut \subseteq minted
  BY ReqIs DEF LoseProfile
<1>2. CASE ~MayRetry(req[r])
  <2>1. Goto(r, "done") /\ "done" \in Steps \ {"idle"} /\ cut' = cut \cup {req[r].user}
    BY <1>2 DEF LoseProfile, Steps
  <2>2. Sound([req[r] EXCEPT !.pc = "done"])
    BY <1>1, ReqIs DEF Sound, Releasing, Reqs
  <2> QED BY <1>1, <2>1, <2>2, DirGoto
<1>3. CASE MayRetry(req[r])
  <2> DEFINE x == [req[r] EXCEPT !.pc = "read", !.tries = @ + 1]
  <2>1. req[r].tries + 1 \in 0..(Attempts - 1)
    BY <1>3, ReqIs, DirNames DEF MayRetry
  <2>2. /\ x \in Reqs /\ x.pc = "read" /\ x.copy = req[r].copy /\ x.op = req[r].op /\ x.arg = req[r].arg
        /\ x.user = req[r].user
    BY <2>1, ReqIs DEF Reqs, Steps
  <2>3. req' = [req EXCEPT ![r] = x] /\ UNCHANGED cut
    BY <1>3, ReqIs DEF LoseProfile
  <2> HIDE DEF x
  <2>4. req' \in [Requests -> Reqs] /\ \A o \in Requests \ {r} : req'[o] = req[o]
    BY <2>2, <2>3, ReqIs
  <2>5. Sound(req[r])'
    BY <1>1, <2>2, <2>3, ReqIs DEF Sound, Releasing
  <2> QED BY <1>1, <2>3, <2>4, <2>5, ItemsAre, DirStep DEF items
<1> QED BY <1>2, <1>3

LEMMA DirSetTeam ==
    ASSUME DirInv, NEW r \in Requests, NEW u \in Users, NEW t \in Teams, SetTeam(r, u, t)
    PROVE  DirInv'
<1>1. /\ Start(r, "setTeam", u, t, "claim", None) /\ u \in minted
      /\ UNCHANGED <<items, minted, deletedTwice>> /\ cut' \subseteq cut \cup {u}
  BY ItemsAre DEF SetTeam, Exists, NoteOverlap
<1>2. "setTeam" \in Ops /\ t \in Args /\ "claim" \in Steps /\ None \in Copies
  BY DEF Ops, Args, Steps, Copies
<1>3. Sound(req[r])'
  BY <1>1, <1>2, StartIs DEF Sound, Releasing
<1> QED BY <1>1, <1>2, <1>3, ItemsAre, DirStart

LEMMA DirClaimPointer ==
    ASSUME DirInv, NEW r \in Requests, ClaimPointer(r)
    PROVE  DirInv'
<1>1. /\ req[r].pc = "claim" /\ UNCHANGED <<profile, emailClaim, link, passkey, minted, cut, deletedTwice>>
      /\ req[r].op = "setTeam" /\ req[r].user \in Holders
  BY ReqIs DEF ClaimPointer, Sound
<1>2. teamClaim' \in [Teams -> Holders]
  BY <1>1, ItemsAre DEF ClaimPointer
<1>3. PICK pc \in {"read", "done"} : Goto(r, pc)
  BY DEF ClaimPointer
<1>4. Sound(req[r])' /\ pc \in Steps
  BY <1>1, <1>3, GotoIs, ReqIs DEF Sound, Steps, Releasing, Writers
<1> QED BY <1>1, <1>2, <1>3, <1>4, GotoIs, ItemsAre, DirStep

LEMMA DirRegisterPasskey ==
    ASSUME DirInv, NEW r \in Requests, NEW l \in Issuers, RegisterPasskey(r, l)
    PROVE  DirInv'
<1>1. PICK u \in minted : u = link[l].user
  BY ItemsAre DEF RegisterPasskey, Usable
<1>2. /\ Start(r, "register", u, l, "redeem", None)
      /\ UNCHANGED <<items, minted, deletedTwice>> /\ cut' \subseteq cut \cup {u}
  BY <1>1 DEF RegisterPasskey, NoteOverlap
<1>3. "register" \in Ops /\ l \in Args /\ "redeem" \in Steps /\ None \in Copies /\ u \in Users
  BY ItemsAre DEF Ops, Args, Steps, Copies
<1>4. Sound(req[r])'
  BY <1>2, <1>3, StartIs DEF Sound, Releasing
<1> QED BY <1>2, <1>3, <1>4, ItemsAre, DirStart

LEMMA DirAddPasskey ==
    ASSUME DirInv, NEW r \in Requests, NEW u \in Users, AddPasskey(r, u)
    PROVE  DirInv'
<1>1. u \in minted
  BY DEF AddPasskey, DirInv
<1>2. /\ Start(r, "register", u, None, "putRow", None)
      /\ UNCHANGED <<items, minted, deletedTwice>> /\ cut' \subseteq cut \cup {u}
  BY DEF AddPasskey, NoteOverlap
<1>3. "register" \in Ops /\ None \in Args /\ "putRow" \in Steps /\ None \in Copies
  BY DEF Ops, Args, Steps, Copies
<1>4. Sound(req[r])'
  BY <1>1, <1>2, <1>3, StartIs DEF Sound, Releasing
<1> QED BY <1>1, <1>2, <1>3, <1>4, ItemsAre, DirStart

LEMMA DirReadLink ==
    ASSUME DirInv, NEW r \in Requests, ReadLink(r)
    PROVE  DirInv'
<1>1. PICK pc \in {"burn", "done"} : Goto(r, pc)
  BY DEF ReadLink
<1>2. Sound([req[r] EXCEPT !.pc = pc]) /\ pc \in Steps \ {"idle"}
  BY ReqIs DEF ReadLink, Sound, Steps, Releasing, Reqs
<1> QED BY <1>1, <1>2, ItemsAre, DirGoto DEF ReadLink

LEMMA DirBurnLink ==
    ASSUME DirInv, NEW r \in Requests, BurnLink(r)
    PROVE  DirInv'
<1>1. /\ req[r].pc = "burn" /\ UNCHANGED <<profile, emailClaim, teamClaim, passkey, minted, cut, deletedTwice>>
      /\ req[r].op = "register" /\ req[r].arg \in Issuers
  BY ReqIs DEF BurnLink, Sound
<1>2. PICK l \in Issuers : l = req[r].arg
  BY <1>1
<1>3. /\ link' \in [Issuers -> Links]
      /\ \A k \in Issuers : link'[k].state = "unused" => link[k].state = "unused" /\ link'[k].user = link[k].user
  <2>1. CASE NotUsed(req[r].arg)
    BY <1>2, <2>1, ItemsAre DEF BurnLink, Links
  <2>2. CASE ~NotUsed(req[r].arg)
    BY <2>2, ItemsAre DEF BurnLink
  <2> QED BY <2>1, <2>2
<1>4. PICK pc \in {"putRow", "done"} : Goto(r, pc)
  BY DEF BurnLink
<1>5. Sound(req[r])' /\ pc \in Steps
  BY <1>1, <1>4, GotoIs, ReqIs DEF Sound, Steps, Releasing
<1> QED BY <1>1, <1>3, <1>4, <1>5, GotoIs, ItemsAre, DirStep

LEMMA DirPutRow ==
    ASSUME DirInv, NEW r \in Requests, PutRow(r)
    PROVE  DirInv'
<1>1. /\ req[r].pc = "putRow" /\ UNCHANGED <<profile, emailClaim, teamClaim, link, minted, cut, deletedTwice>>
      /\ req[r].op = "register" /\ req[r].arg \in Issuers \cup {None} /\ Goto(r, "putIndex")
      /\ r \in Issuers
      /\ req[r].user \in Holders
  BY ReqIs, DirNames DEF PutRow, Sound
<1>2. passkey' \in [Issuers -> Keys]
  BY <1>1, ItemsAre DEF PutRow, Keys
<1>3. Sound(req[r])'
  BY <1>1, GotoIs, ReqIs DEF Sound, Steps, Releasing
<1> QED BY <1>1, <1>2, <1>3, GotoIs, ItemsAre, DirStep DEF Steps

LEMMA DirPutIndex ==
    ASSUME DirInv, NEW r \in Requests, PutIndex(r)
    PROVE  DirInv'
<1>1. /\ req[r].pc = "putIndex" /\ UNCHANGED <<profile, emailClaim, teamClaim, link, minted, cut, deletedTwice>>
      /\ req[r].op = "register" /\ Goto(r, "done") /\ r \in Issuers /\ req[r].user \in Holders
  BY ReqIs, DirNames DEF PutIndex, Sound
<1>2. passkey' \in [Issuers -> Keys]
  BY <1>1, ItemsAre DEF PutIndex, Keys
<1>3. Sound(req[r])'
  BY <1>1, GotoIs, ReqIs DEF Sound, Steps, Releasing
<1> QED BY <1>1, <1>2, <1>3, GotoIs, ItemsAre, DirStep DEF Steps

LEMMA RevokeIs ==
    ASSUME DirInv, NEW r \in Requests, NEW u \in Users, NEW k \in Issuers, Revoke(r, u, k)
    PROVE  /\ req' \in [Requests -> Reqs] /\ \A o \in Requests \ {r} : req'[o] = req[o]
           /\ req'[r].pc = "dropIndex" /\ req'[r].op = "revoke" /\ req'[r].user = u
           /\ req'[r].arg = None /\ req'[r].copy = profile[u] /\ req'[r].tries = 0
           /\ req'[r].keys = {k} /\ profile[u] \in Store!Profiles
<1>1. PICK c \in Store!Profiles : c = profile[u]
  BY ProfileIs DEF Revoke
<1> DEFINE x == [Idle EXCEPT !.op = "revoke", !.user = u, !.copy = c, !.pc = "dropIndex", !.keys = {k}]
<1>2. /\ x.pc = "dropIndex" /\ x.op = "revoke" /\ x.user = u /\ x.arg = None /\ x.copy = c
      /\ x.tries = 0 /\ x.keys = {k}
  BY DEF Idle
<1>3. x \in Reqs
  BY IdleIs DEF Reqs, Holders, Ops, Steps, Copies
<1>4. req' = [req EXCEPT ![r] = x]
  BY <1>1 DEF Revoke
<1> HIDE DEF x
<1> QED BY <1>1, <1>2, <1>3, <1>4, ReqIs

LEMMA DirRevoke ==
    ASSUME DirInv, NEW r \in Requests, NEW u \in Users, NEW k \in Issuers, Revoke(r, u, k)
    PROVE  DirInv'
<1>1. UNCHANGED <<items, minted, deletedTwice>> /\ cut' \subseteq cut \cup {u} /\ u \in minted
  BY ItemsAre DEF Revoke, NoteOverlap, Exists
<1>2. Sound(req[r])'
  BY <1>1, RevokeIs DEF Sound, Releasing
<1> QED BY <1>1, <1>2, RevokeIs, ItemsAre, DirStep DEF items

LEMMA DirDelete ==
    ASSUME DirInv, NEW r \in Requests, NEW u \in Users, Delete(r, u)
    PROVE  DirInv'
<1>1. PICK c \in Copies : c = profile[u]
  BY ItemsAre
<1>2. /\ Start(r, "delete", u, None, "list", c) /\ u \in minted
      /\ UNCHANGED <<items, minted>> /\ cut' \subseteq cut \cup {u}
  BY <1>1 DEF Delete, NoteOverlap
<1>3. "delete" \in Ops /\ None \in Args /\ "list" \in Steps /\ deletedTwice' \in BOOLEAN
  BY DEF Ops, Args, Steps, Delete, Meets
<1>4. Sound(req[r])'
  BY <1>2, <1>3, StartIs DEF Sound, Releasing
<1> QED BY <1>2, <1>3, <1>4, ItemsAre, DirStart

LEMMA ListItemsIs ==
    ASSUME DirInv, NEW r \in Requests, ListItems(r)
    PROVE  /\ req' \in [Requests -> Reqs] /\ \A o \in Requests \ {r} : req'[o] = req[o]
           /\ req'[r].op = req[r].op /\ req'[r].user = req[r].user /\ req'[r].arg = req[r].arg
           /\ req'[r].copy = req[r].copy
           /\ req'[r].keys = {k \in Issuers : passkey[k].row = req[r].user}
           /\ req'[r].pc \in {"dropProfile", "dropIndex"}
           /\ req'[r].pc = "dropProfile" => req'[r].keys = {}
<1>1. PICK listed \in SUBSET Issuers : listed = {k \in Issuers : passkey[k].row = req[r].user}
  OBVIOUS
<1>2. PICK pc \in {"dropProfile", "dropIndex"} : pc = IF listed = {} THEN "dropProfile" ELSE "dropIndex"
  OBVIOUS
<1> DEFINE x == [req[r] EXCEPT !.keys = listed, !.pc = pc]
<1>3. /\ x \in Reqs /\ x.op = req[r].op /\ x.user = req[r].user /\ x.arg = req[r].arg
      /\ x.copy = req[r].copy /\ x.keys = listed /\ x.pc = pc
  BY ReqIs DEF Reqs, Steps
<1>4. req' = [req EXCEPT ![r] = x]
  BY <1>1, <1>2, ReqIs DEF ListItems
<1> HIDE DEF x
<1> QED BY <1>1, <1>2, <1>3, <1>4, ReqIs

LEMMA DirListItems ==
    ASSUME DirInv, NEW r \in Requests, ListItems(r)
    PROVE  DirInv'
<1>1. req[r].pc = "list" /\ UNCHANGED <<items, minted, cut, deletedTwice>> /\ req[r].op = "delete"
  BY ReqIs DEF ListItems, Sound
<1>2. Sound(req[r])'
  BY <1>1, ListItemsIs, ReqIs DEF Sound, Releasing
<1> QED BY <1>1, <1>2, ListItemsIs, ItemsAre, DirStep DEF items

LEMMA DropIndexIs ==
    ASSUME DirInv, NEW r \in Requests, DropIndex(r)
    PROVE  \E k \in req[r].keys \cap Issuers :
           /\ req' \in [Requests -> Reqs] /\ \A o \in Requests \ {r} : req'[o] = req[o]
           /\ req'[r].op = req[r].op /\ req'[r].user = req[r].user /\ req'[r].arg = k
           /\ req'[r].copy = req[r].copy /\ req'[r].keys = req[r].keys \ {k}
           /\ req'[r].pc = "dropRow" /\ req[r].pc = "dropIndex"
           /\ passkey' = [passkey EXCEPT ![k].index = None]
           /\ UNCHANGED <<profile, emailClaim, teamClaim, link, minted, cut, deletedTwice>>
<1>1. PICK k \in req[r].keys \cap Issuers :
        /\ req[r].pc = "dropIndex"
        /\ passkey' = [passkey EXCEPT ![k].index = None]
        /\ req' = [req EXCEPT ![r].pc = "dropRow", ![r].arg = k, ![r].keys = @ \ {k}]
        /\ UNCHANGED <<profile, emailClaim, teamClaim, link, minted, cut, deletedTwice>>
  BY ReqIs DEF DropIndex
<1> DEFINE x == [req[r] EXCEPT !.pc = "dropRow", !.arg = k, !.keys = @ \ {k}]
<1>3. /\ x \in Reqs /\ x.op = req[r].op /\ x.user = req[r].user /\ x.arg = k
      /\ x.copy = req[r].copy /\ x.keys = req[r].keys \ {k} /\ x.pc = "dropRow"
  BY ReqIs DEF Reqs, Steps, Args
<1>4. req' = [req EXCEPT ![r] = x]
  BY <1>1, ReqIs
<1> HIDE DEF x
<1>5. /\ req' \in [Requests -> Reqs] /\ \A o \in Requests \ {r} : req'[o] = req[o]
      /\ req'[r] = x
  BY <1>3, <1>4, ReqIs
<1> QED BY <1>1, <1>3, <1>5

LEMMA DirDropIndex ==
    ASSUME DirInv, NEW r \in Requests, DropIndex(r)
    PROVE  DirInv'
<1>1. PICK k \in req[r].keys \cap Issuers :
           /\ req' \in [Requests -> Reqs] /\ \A o \in Requests \ {r} : req'[o] = req[o]
           /\ req'[r].op = req[r].op /\ req'[r].user = req[r].user /\ req'[r].arg = k
           /\ req'[r].copy = req[r].copy
           /\ req'[r].pc = "dropRow" /\ req[r].pc = "dropIndex"
           /\ passkey' = [passkey EXCEPT ![k].index = None]
           /\ UNCHANGED <<profile, emailClaim, teamClaim, link, minted, cut, deletedTwice>>
  BY DropIndexIs
<1>2. Sound(req[r])'
  BY <1>1, ReqIs DEF Sound, Releasing
<1>3. passkey' \in [Issuers -> Keys]
  BY <1>1, ItemsAre DEF Keys, Holders
<1> QED BY <1>1, <1>2, <1>3, ItemsAre, DirStep

LEMMA DirDropRow ==
    ASSUME DirInv, NEW r \in Requests, DropRow(r)
    PROVE  DirInv'
<1>1. /\ req[r].pc = "dropRow" /\ req[r].arg \in Issuers /\ req[r].op \in {"delete", "revoke"}
      /\ UNCHANGED <<profile, emailClaim, teamClaim, link, minted, cut, deletedTwice>>
  BY ReqIs DEF DropRow, Sound
<1>2. PICK pc \in {"write", "dropProfile", "dropIndex"} :
        Goto(r, pc) /\ (pc = "write" <=> req[r].op = "revoke")
  BY <1>1 DEF DropRow
<1>3. Sound(req[r])' /\ pc \in Steps
  BY <1>1, <1>2, GotoIs, ReqIs DEF Sound, Steps, Releasing, Writers
<1>4. passkey' \in [Issuers -> Keys]
  BY <1>1, ItemsAre DEF DropRow, Keys, Holders
<1> QED BY <1>1, <1>2, <1>3, <1>4, GotoIs, ItemsAre, DirStep

LEMMA DirDropProfile ==
    ASSUME DirInv, NEW r \in Requests, DropProfile(r)
    PROVE  DirInv'
<1>1. /\ req[r].pc = "dropProfile" /\ req[r].op = "delete" /\ req[r].copy \in Copies
      /\ UNCHANGED <<emailClaim, teamClaim, link, passkey, minted, cut, deletedTwice>>
      /\ profile' = [profile EXCEPT ![req[r].user] = None]
  BY ReqIs DEF DropProfile, Sound
<1>2. PICK pc \in {"done", "emailRead"} : Goto(r, pc) /\ (pc = "emailRead" <=> req[r].copy # None)
  BY DEF DropProfile
<1>3. Sound(req[r])' /\ pc \in Steps
  <2>1. /\ req'[r].pc = pc /\ pc \in Steps
        /\ req'[r].op = req[r].op /\ req'[r].user = req[r].user /\ req'[r].arg = req[r].arg
        /\ req'[r].copy = req[r].copy /\ Sound(req[r])
    BY <1>1, <1>2, GotoIs, ReqIs DEF Steps, Releasing
  <2> QED BY <1>1, <1>2, <2>1 DEF Sound, Releasing, Copies
<1>4. profile' \in [Users -> Copies] /\ \A u \in Users : profile'[u] # None => profile[u] # None
  BY <1>1, ItemsAre DEF Copies
<1> QED BY <1>1, <1>2, <1>3, <1>4, GotoIs, ItemsAre, DirStep

LEMMA DirReadEmailClaim ==
    ASSUME DirInv, NEW r \in Requests, ReadEmailClaim(r)
    PROVE  DirInv'
<1>1. PICK pc \in {"emailDrop", "teamRead"} : Goto(r, pc)
  BY DEF ReadEmailClaim
<1>2. Sound([req[r] EXCEPT !.pc = pc]) /\ pc \in Steps \ {"idle"}
  BY ReqIs DEF ReadEmailClaim, Sound, Steps, Releasing, Reqs
<1> QED BY <1>1, <1>2, ItemsAre, DirGoto DEF ReadEmailClaim

LEMMA DirDropEmailClaim ==
    ASSUME DirInv, NEW r \in Requests, DropEmailClaim(r)
    PROVE  DirInv'
<1>1. /\ req[r].pc = "emailDrop" /\ req[r].op = "delete" /\ Goto(r, "teamRead")
      /\ UNCHANGED <<profile, teamClaim, link, passkey, minted, cut, deletedTwice>>
  BY ReqIs DEF DropEmailClaim, Sound, Releasing
<1>2. emailClaim' \in [Emails -> Holders]
  BY ItemsAre DEF DropEmailClaim, Holders
<1>3. Sound(req[r])'
  <2>1. /\ req'[r].pc = "teamRead"
        /\ req'[r].op = req[r].op /\ req'[r].user = req[r].user /\ req'[r].arg = req[r].arg
        /\ req'[r].copy = req[r].copy /\ Sound(req[r])
    BY <1>1, GotoIs, ReqIs DEF Steps, Releasing
  <2> QED BY <1>1, <2>1 DEF Sound, Releasing
<1> QED BY <1>1, <1>2, <1>3, GotoIs, ItemsAre, DirStep DEF Steps, Releasing

LEMMA DirReadTeamClaim ==
    ASSUME DirInv, NEW r \in Requests, ReadTeamClaim(r)
    PROVE  DirInv'
<1>1. PICK pc \in {"teamDrop", "done"} : Goto(r, pc) /\ (pc = "teamDrop" => req[r].copy.team # None)
  BY DEF ReadTeamClaim
<1>2. req[r].pc = "teamRead" /\ req[r].copy.team \in Teams \cup {None}
  <2>1. req[r].pc = "teamRead"
    BY DEF ReadTeamClaim
  <2>2. req[r].copy \in Store!Profiles
    BY <2>1, ReqIs DEF Sound, Releasing
  <2> QED BY <2>1, <2>2 DEF Store!Profiles
<1>3. Sound([req[r] EXCEPT !.pc = pc]) /\ pc \in Steps \ {"idle"}
  BY <1>1, <1>2, ReqIs DEF Sound, Steps, Releasing, Reqs
<1> QED BY <1>1, <1>3, ItemsAre, DirGoto DEF ReadTeamClaim

LEMMA DirDropTeamClaim ==
    ASSUME DirInv, NEW r \in Requests, DropTeamClaim(r)
    PROVE  DirInv'
<1>1. /\ req[r].pc = "teamDrop" /\ req[r].op = "delete" /\ Goto(r, "done")
      /\ UNCHANGED <<profile, emailClaim, link, passkey, minted, cut, deletedTwice>>
  BY ReqIs DEF DropTeamClaim, Sound, Releasing
<1>2. teamClaim' \in [Teams -> Holders]
  BY ItemsAre DEF DropTeamClaim, Holders
<1>3. Sound(req[r])'
  BY <1>1, GotoIs, ReqIs DEF Sound, Steps, Releasing
<1> QED BY <1>1, <1>2, <1>3, GotoIs, ItemsAre, DirStep DEF Steps

LEMMA DirStop ==
    ASSUME DirInv, NEW r \in Requests, Stop(r)
    PROVE  DirInv'
<1>1. /\ req[r].pc # "idle" /\ Goto(r, "done") /\ UNCHANGED <<items, minted, deletedTwice>>
      /\ cut' = cut \cup {req[r].user}
  BY DEF Stop, Active
<1>2. Sound([req[r] EXCEPT !.pc = "done"]) /\ "done" \in Steps \ {"idle"} /\ cut' \subseteq minted
  BY <1>1, ReqIs DEF Sound, Steps, Releasing, Reqs
<1> QED BY <1>1, <1>2, DirGoto

LEMMA DirInit ==
    ASSUME Init
    PROVE  DirInv
<1>1. PICK u \in Users, e \in Emails, t \in Teams \cup {None} :
        /\ profile = [w \in Users |-> IF w = u THEN Store!NewProfile(e, t) ELSE None]
        /\ emailClaim = [x \in Emails |-> IF x = e THEN u ELSE None]
        /\ teamClaim = [x \in Teams |-> IF x = t THEN u ELSE None]
        /\ link = [l \in Issuers |-> IF l = Setup THEN [user |-> u, state |-> "unused"]
                                     ELSE [user |-> None, state |-> "none"]]
        /\ passkey = [k \in Issuers |-> IF k = Setup THEN [row |-> u, index |-> u, from |-> None]
                                        ELSE [row |-> None, index |-> None, from |-> None]]
        /\ req = [r \in Requests |-> Idle]
        /\ minted = {u} /\ cut = {} /\ deletedTwice = FALSE
  BY DEF Init
<1>2. Store!NewProfile(e, t) \in Store!Profiles
  BY DEF Store!NewProfile, Store!Profiles, Store!Statuses, Store!Flags
<1>3. profile \in [Users -> Copies] /\ \A w \in Users : profile[w] # None => w \in minted
  BY <1>1, <1>2 DEF Copies
<1>4. emailClaim \in [Emails -> Holders] /\ teamClaim \in [Teams -> Holders]
  BY <1>1 DEF Holders
<1>5. link \in [Issuers -> Links] /\ \A l \in Issuers : link[l].state = "unused" => link[l].user \in minted
  BY <1>1 DEF Links, Holders
<1>6. passkey \in [Issuers -> Keys]
  BY <1>1 DEF Keys, Holders
<1>7. req \in [Requests -> Reqs]
  BY <1>1, IdleIs
<1>8. ASSUME NEW r \in Requests PROVE Sound(req[r]) /\ req[r].user \in Holders /\ req[r].tries < Attempts
  <2>1. req[r] = Idle
    BY <1>1
  <2> QED BY <2>1, IdleIs, DirNames DEF Sound, Releasing, Holders
<1>9. TypeOK
  BY <1>1, <1>3, <1>4, <1>5, <1>6, <1>7, <1>8 DEF TypeOK, Copies, Links, Keys
<1> QED BY <1>3, <1>5, <1>7, <1>8, <1>9 DEF DirInv, Exists

LEMMA DirStutter ==
    ASSUME DirInv, UNCHANGED vars
    PROVE  DirInv'
  BY DEF vars, DirInv, TypeOK, Sound, Exists

LEMMA DirNext ==
    ASSUME DirInv, Next
    PROVE  DirInv'
<1>1. ASSUME NEW r \in Requests, Admin(r) PROVE DirInv'
  <2>1. PICK u \in Users :
        \/ \E e \in Emails, t \in Teams \cup {None} : Invite(r, u, e, t)
        \/ Recover(r, u)
        \/ \E t \in Teams : SetTeam(r, u, t)
        \/ \E s \in Store!Statuses : SetStatus(r, u, s)
        \/ \E f \in Store!Flags : SetAutoApply(r, u, f)
        \/ Delete(r, u)
    BY <1>1 DEF Admin
  <2>2. ASSUME NEW s \in Store!Statuses, SetStatus(r, u, s) PROVE DirInv'
    BY <2>2, DirMutate DEF SetStatus, Args
  <2>3. ASSUME NEW f \in Store!Flags, SetAutoApply(r, u, f) PROVE DirInv'
    BY <2>3, DirMutate DEF SetAutoApply, Args
  <2> QED BY <2>1, <2>2, <2>3, DirInvite, DirRecover, DirSetTeam, DirDelete
<1>2. ASSUME NEW r \in Requests, Tenant(r) PROVE DirInv'
  <2>1. ASSUME NEW u \in Users, NEW f \in Store!Flags, SetPreferences(r, u, f) PROVE DirInv'
    BY <2>1, DirMutate DEF SetPreferences, Args
  <2> QED BY <1>2, <2>1, DirRegisterPasskey, DirAddPasskey, DirRevoke DEF Tenant
<1>3. ASSUME NEW r \in Requests, Continue(r) PROVE DirInv'
  BY <1>3, DirMint, DirReadProfile, DirPutProfile, DirLoseProfile, DirClaimPointer, DirReadLink,
     DirBurnLink, DirPutRow, DirPutIndex, DirListItems, DirDropIndex, DirDropRow, DirDropProfile,
     DirReadEmailClaim, DirDropEmailClaim, DirReadTeamClaim, DirDropTeamClaim DEF Continue
<1> QED BY <1>1, <1>2, <1>3, DirStop, DirExpire DEF Next

\* The directory's items and requests have their types: a request finds the
\* copy, the team, the flag or the passkey its step needs, and a link and a
\* profile are of a tenant that was invited (ddbuser.go, tenants_admin.go).
THEOREM DirectoryTypeCorrect == Spec => []TypeOK
<1>1. DirInv /\ [Next]_vars => DirInv'
  BY DirNext, DirStutter
<1>2. DirInv => TypeOK
  BY DEF DirInv
<1> QED BY DirInit, <1>1, <1>2, PTL DEF Spec

-----------------------------------------------------------------------------
(* What a request read of a profile that is still there: its e-mail, which     *)
(* never changes, and all of it while the version is the same.                 *)
CopyHolds(q) ==
    LET c == q.copy
        p == profile[q.user]
    IN  c # None /\ p # None => /\ c.email = p.email /\ c.ver <= p.ver
                                /\ c.ver = p.ver => c = p
CopyInv == \A r \in Requests : CopyHolds(req[r])

\* A step of r that leaves its operation, tenant and copy alone.
Kept(r) ==
    /\ req' \in [Requests -> Reqs] /\ \A o \in Requests \ {r} : req'[o] = req[o]
    /\ req'[r].copy = req[r].copy /\ req'[r].user = req[r].user /\ req'[r].op = req[r].op

\* How a profile may change in one step.
ProfilesMove ==
    \A u \in Users : \/ profile'[u] = profile[u] \/ profile'[u] = None \/ u \notin minted
                     \/ /\ profile[u] # None /\ profile'[u].email = profile[u].email
                        /\ profile'[u].ver = profile[u].ver + 1

LEMMA GotoKeeps ==
    ASSUME DirInv, NEW r \in Requests, NEW pc \in Steps, Goto(r, pc)
    PROVE  Kept(r) /\ req'[r].pc = pc /\ req'[r].arg = req[r].arg /\ req'[r].keys = req[r].keys
  BY GotoIs DEF Kept

\* Where the single steps of a request take it.
LEMMA ContinueKeeps ==
    ASSUME DirInv, NEW r \in Requests,
           \/ Mint(r) \/ PutProfile(r) \/ LoseProfile(r) \/ ClaimPointer(r) \/ ReadLink(r)
           \/ BurnLink(r) \/ PutRow(r) \/ PutIndex(r) \/ ListItems(r) \/ DropIndex(r) \/ DropRow(r)
           \/ DropProfile(r) \/ ReadEmailClaim(r) \/ DropEmailClaim(r) \/ ReadTeamClaim(r)
           \/ DropTeamClaim(r) \/ Stop(r)
    PROVE  Kept(r)
<1>1. Mint(r) \/ PutProfile(r) \/ ClaimPointer(r) \/ ReadLink(r) => \E pc \in Steps : Goto(r, pc)
  BY DEF Mint, PutProfile, ClaimPointer, ReadLink, Steps
<1>2. BurnLink(r) \/ PutRow(r) \/ PutIndex(r) \/ DropRow(r) \/ DropProfile(r)
        => \E pc \in Steps : Goto(r, pc)
  BY DEF BurnLink, PutRow, PutIndex, DropRow, DropProfile, Steps, Releasing
<1>3. ReadEmailClaim(r) \/ DropEmailClaim(r) \/ ReadTeamClaim(r) \/ DropTeamClaim(r) \/ Stop(r)
        => \E pc \in Steps : Goto(r, pc)
  BY DEF ReadEmailClaim, DropEmailClaim, ReadTeamClaim, DropTeamClaim, Stop, Steps, Releasing
<1>4. ASSUME LoseProfile(r) PROVE Kept(r)
  <2>1. CASE ~MayRetry(req[r])
    <3>1. Goto(r, "done") /\ "done" \in Steps
      BY <1>4, <2>1 DEF LoseProfile, Steps
    <3> QED BY <3>1, GotoKeeps
  <2>2. CASE MayRetry(req[r])
    <3> DEFINE x == [req[r] EXCEPT !.pc = "read", !.tries = @ + 1]
    <3>1. req[r].tries + 1 \in 0..(Attempts - 1)
      BY <2>2, ReqIs, DirNames DEF MayRetry
    <3>2. /\ x \in Reqs /\ x.copy = req[r].copy /\ x.op = req[r].op /\ x.user = req[r].user
      BY <3>1, ReqIs DEF Reqs, Steps
    <3>3. req' = [req EXCEPT ![r] = x]
      BY <1>4, <2>2, ReqIs DEF LoseProfile
    <3> HIDE DEF x
    <3> QED BY <3>2, <3>3, ReqIs DEF Kept
  <2> QED BY <2>1, <2>2
<1>5. ListItems(r) \/ DropIndex(r) => Kept(r)
  BY ListItemsIs, DropIndexIs DEF Kept
<1> QED BY <1>1, <1>2, <1>3, <1>4, <1>5, GotoKeeps

LEMMA CopyStep ==
    ASSUME DirInv, DirInv', CopyInv, NEW r \in Requests,
           \A o \in Requests \ {r} : req'[o] = req[o], ProfilesMove,
           \/ req'[r].copy = None
           \/ UNCHANGED profile /\ req'[r].copy = profile[req'[r].user]
           \/ req'[r].copy = req[r].copy /\ req'[r].user = req[r].user
    PROVE  CopyInv'
<1>1. ASSUME NEW o \in Requests, req'[o].copy # None, req'[o].copy = req[o].copy, req'[o].user = req[o].user
      PROVE  CopyHolds(req[o])'
  <2>1. PICK u \in minted : u = req[o].user
    BY <1>1, ReqIs, IdleIs DEF Sound
  <2>2. PICK c \in Store!Profiles : c = req[o].copy
    BY <1>1, ReqIs DEF Copies
  <2>3. u \in Users /\ c.ver \in Nat
    BY <2>2, ReqIs DEF Store!Profiles
  <2>4. CopyHolds(req[o])
    BY DEF CopyInv
  <2>5. CASE profile'[u] = profile[u]
    BY <1>1, <2>1, <2>4, <2>5 DEF CopyHolds
  <2>6. CASE profile'[u] = None
    BY <1>1, <2>1, <2>6 DEF CopyHolds
  <2>7. CASE /\ profile[u] # None /\ profile'[u].email = profile[u].email
             /\ profile'[u].ver = profile[u].ver + 1
    <3>1. profile[u].ver \in Nat
      BY <2>3, <2>7, ProfileIs DEF Exists
    <3> QED BY <1>1, <2>1, <2>2, <2>3, <2>4, <2>7, <3>1, DirNames DEF CopyHolds
  <2> QED BY <2>1, <2>3, <2>5, <2>6, <2>7 DEF ProfilesMove
<1>2. ASSUME NEW o \in Requests PROVE CopyHolds(req[o])'
  <2>1. CASE req'[o].copy = None
    BY <2>1 DEF CopyHolds
  <2>2. CASE o = r /\ UNCHANGED profile /\ req'[r].copy = profile[req'[r].user] /\ req'[o].copy # None
    <3>1. req'[o].copy \in Store!Profiles
      BY <2>2 DEF DirInv, Reqs, Copies
    <3>2. req'[o].copy.ver <= req'[o].copy.ver
      BY <3>1 DEF Store!Profiles
    <3> QED BY <2>2, <3>2 DEF CopyHolds
  <2> QED BY <1>1, <2>1, <2>2
<1> QED BY <1>2 DEF CopyInv

LEMMA CopyKept ==
    ASSUME DirInv, DirInv', CopyInv, NEW r \in Requests, Kept(r), ProfilesMove
    PROVE  CopyInv'
  BY CopyStep DEF Kept

LEMMA CopyStart ==
    ASSUME DirInv, DirInv', CopyInv, NEW r \in Requests, NEW op \in Ops, NEW u \in Users,
           NEW arg \in Args, NEW pc \in Steps, NEW copy \in Copies, Start(r, op, u, arg, pc, copy),
           ProfilesMove, copy = None \/ (UNCHANGED profile /\ copy = profile[u])
    PROVE  CopyInv'
<1>1. /\ \A o \in Requests \ {r} : req'[o] = req[o]
      /\ req'[r].copy = copy /\ req'[r].user = u
  BY StartIs
<1> QED BY <1>1, CopyStep

LEMMA CopyInit == ASSUME Init PROVE CopyInv
  BY IdleIs DEF Init, CopyInv, CopyHolds


LEMMA NamesAre ==
    /\ "invite" \in Ops /\ "recover" \in Ops /\ "setTeam" \in Ops /\ "register" \in Ops
    /\ "delete" \in Ops /\ {"setStatus", "setAuto", "setPrefs"} \subseteq Ops
    /\ "mint" \in Steps /\ "claim" \in Steps /\ "redeem" \in Steps /\ "list" \in Steps
    /\ "write" \in Steps /\ "done" \in Steps /\ "putRow" \in Steps
    /\ None \in Args /\ None \in Copies /\ Teams \subseteq Args /\ Issuers \subseteq Args
    /\ Store!Statuses \subseteq Args /\ Store!Flags \subseteq Args
  BY DEF Ops, Steps, Args, Copies

\* A profile write changes the profile as it is now, not as it was read.
LEMMA PutIs ==
    ASSUME DirInv, CopyInv, NEW r \in Requests, PutProfile(r)
    PROVE  /\ req[r].user \in Users /\ Exists(req[r].user) /\ req[r].op \in Writers
           /\ \/ /\ req[r].op = "setTeam" /\ req[r].arg \in Teams
                 /\ Store!Write(req[r].user, [profile[req[r].user] EXCEPT !.team = req[r].arg])
              \/ req[r].op # "setTeam" /\ Store!PutUser(req[r].user)
<1>1. PICK q \in Reqs : q = req[r]
  BY ReqIs
<1>2. /\ q.pc = "write" /\ Exists(q.user) /\ profile[q.user].ver = q.copy.ver
      /\ q.user \in minted /\ q.user \in Users
  BY <1>1, ReqIs DEF PutProfile, VersionHolds
<1>3. /\ q.copy \in Store!Profiles /\ q.op \in Writers
      /\ q.op = "setTeam" => q.arg \in Teams
      /\ q.op = "setStatus" => q.arg \in Store!Statuses
      /\ q.op \in {"setAuto", "setPrefs"} => q.arg \in Store!Flags
  BY <1>1, <1>2, ReqIs DEF Sound
<1>4. PICK u \in Users, a \in Args, p \in Store!Profiles :
        u = q.user /\ a = q.arg /\ p = profile[u]
  BY <1>2, ProfileIs DEF Reqs
<1>5. p = q.copy
  <2>1. CopyHolds(q)
    BY <1>1 DEF CopyInv
  <2> QED BY <1>2, <1>3, <1>4, <2>1, DirNames DEF CopyHolds
<1>6. PICK x : x = Changed(q)
  OBVIOUS
<1>7. profile' = [profile EXCEPT ![u] = [x EXCEPT !.ver = @ + 1]]
  BY <1>1, <1>4, <1>6 DEF PutProfile, PutUser
<1>8. /\ q.op = "setTeam" => x = [p EXCEPT !.team = a]
      /\ q.op = "setStatus" => x = [p EXCEPT !.status = a]
      /\ q.op \in {"setAuto", "setPrefs"} => x = [p EXCEPT !.auto = a]
      /\ q.op = "revoke" => x = [p EXCEPT !.tokenVersion = @ + 1]
  BY <1>4, <1>5, <1>6 DEF Changed
<1>9. x \in Store!Profiles /\ x.ver = p.ver
  BY <1>3, <1>4, <1>8 DEF Store!Profiles, Writers
<1>10. Store!Write(u, x)
  <2>1. [x EXCEPT !.ver = @ + 1] = [x EXCEPT !.ver = profile[u].ver + 1]
    BY <1>4, <1>9 DEF Store!Profiles
  <2> QED BY <1>2, <1>4, <1>7, <2>1 DEF Store!Write, Store!Exists, Exists
<1>11. CASE q.op = "setTeam"
  BY <1>1, <1>2, <1>3, <1>4, <1>8, <1>10, <1>11
<1>12. CASE q.op = "setStatus"
  BY <1>1, <1>2, <1>3, <1>4, <1>8, <1>10, <1>12 DEF Store!PutUser
<1>13. CASE q.op \in {"setAuto", "setPrefs"}
  BY <1>1, <1>2, <1>3, <1>4, <1>8, <1>10, <1>13 DEF Store!PutUser
<1>14. CASE q.op = "revoke"
  BY <1>1, <1>2, <1>3, <1>4, <1>8, <1>10, <1>14 DEF Store!PutUser
<1> QED BY <1>3, <1>11, <1>12, <1>13, <1>14 DEF Writers

\* The profile after a write.
LEMMA WrittenIs ==
    ASSUME DirInv, CopyInv, NEW r \in Requests, PutProfile(r)
    PROVE  LET u == req[r].user IN
           /\ u \in Users /\ Exists(u) /\ \A w \in Users \ {u} : profile'[w] = profile[w]
           /\ profile'[u] # None /\ profile'[u].email = profile[u].email
           /\ profile'[u].ver = profile[u].ver + 1
           /\ profile'[u].team = IF req[r].op = "setTeam" THEN req[r].arg ELSE profile[u].team
<1>1. PICK u \in Users, p \in Store!Profiles : u = req[r].user /\ p = profile[u]
  BY PutIs, ProfileIs
<1>2. ASSUME NEW x \in Store!Profiles, Store!Write(u, x)
      PROVE  /\ \A w \in Users \ {u} : profile'[w] = profile[w]
             /\ profile'[u] # None /\ profile'[u].email = x.email /\ profile'[u].team = x.team
             /\ profile'[u].ver = p.ver + 1
  <2>0. PICK n \in Nat : n = p.ver + 1
    BY DEF Store!Profiles
  <2>1. PICK y \in Store!Profiles : y = [x EXCEPT !.ver = n]
    BY DEF Store!Profiles
  <2>2. y.email = x.email /\ y.team = x.team /\ y.ver = p.ver + 1
    BY <2>0, <2>1 DEF Store!Profiles
  <2>3. profile' = [profile EXCEPT ![u] = y]
    BY <1>1, <1>2, <2>0, <2>1 DEF Store!Write
  <2> QED BY <2>2, <2>3, ItemsAre, DirNames
<1>3. CASE req[r].op = "setTeam"
  <2>1. PICK a \in Teams : a = req[r].arg
    BY <1>3, PutIs
  <2>2. PICK x \in Store!Profiles : x = [p EXCEPT !.team = a]
    BY DEF Store!Profiles
  <2>3. x.email = p.email /\ x.team = a
    BY <2>2 DEF Store!Profiles
  <2>4. Store!Write(u, x)
    BY <1>1, <1>3, <2>1, <2>2, PutIs
  <2> QED BY <1>1, <1>2, <1>3, <2>1, <2>3, <2>4, PutIs
<1>4. CASE req[r].op # "setTeam"
  <2>1. PICK x \in Store!Profiles : Store!Write(u, x) /\ x.email = p.email /\ x.team = p.team
    <3>1. Store!PutUser(u)
      BY <1>1, <1>4, PutIs
    <3>2. ASSUME NEW s \in Store!Statuses
          PROVE [p EXCEPT !.status = s] \in Store!Profiles /\ [p EXCEPT !.status = s].email = p.email
                /\ [p EXCEPT !.status = s].team = p.team
      BY DEF Store!Profiles
    <3>3. ASSUME NEW s \in Store!Flags
          PROVE [p EXCEPT !.auto = s] \in Store!Profiles /\ [p EXCEPT !.auto = s].email = p.email
                /\ [p EXCEPT !.auto = s].team = p.team
      BY DEF Store!Profiles
    <3>4. LET y == [p EXCEPT !.tokenVersion = @ + 1]
          IN y \in Store!Profiles /\ y.email = p.email /\ y.team = p.team
      BY DEF Store!Profiles
    <3>5. CASE \E s \in Store!Statuses : Store!Write(u, [p EXCEPT !.status = s])
      BY <3>2, <3>5
    <3>6. CASE \E s \in Store!Flags : Store!Write(u, [p EXCEPT !.auto = s])
      BY <3>3, <3>6
    <3>7. CASE Store!Write(u, [p EXCEPT !.tokenVersion = @ + 1])
      BY <3>4, <3>7
    <3> QED BY <1>1, <3>1, <3>5, <3>6, <3>7 DEF Store!PutUser
  <2> QED BY <1>1, <1>2, <1>4, <2>1, PutIs
<1> QED BY <1>3, <1>4

LEMMA CopyBlank ==
    ASSUME DirInv, DirInv', CopyInv, NEW r \in Requests, NEW op \in Ops, NEW u \in Users,
           NEW arg \in Args, NEW pc \in Steps, Start(r, op, u, arg, pc, None), ProfilesMove
    PROVE  CopyInv'
<1>1. /\ \A o \in Requests \ {r} : req'[o] = req[o]
      /\ req'[r].copy = None /\ req'[r].user = u
  BY StartIs, NamesAre
<1> QED BY <1>1, CopyStep

LEMMA CopyInvite ==
    ASSUME DirInv, DirInv', CopyInv, NEW r \in Requests, NEW u \in Users, NEW e \in Emails,
           NEW t \in Teams \cup {None}, Invite(r, u, e, t)
    PROVE  CopyInv'
<1>1. Start(r, "invite", u, None, "mint", None) /\ ProfilesMove
  BY ItemsAre DEF Invite, CreateUser, ProfilesMove
<1> QED BY <1>1, NamesAre, CopyBlank

LEMMA CopyAdmin ==
    ASSUME DirInv, DirInv', CopyInv, NEW r \in Requests, Admin(r)
    PROVE  CopyInv'
<1> DEFINE Quiet == UNCHANGED profile => ProfilesMove
<1>1. Quiet
  BY DEF ProfilesMove
<1> HIDE DEF Quiet
<1>2. ASSUME NEW u \in Users, Recover(r, u) PROVE CopyInv'
  <2>1. Start(r, "recover", u, None, "mint", None) /\ UNCHANGED profile
    BY <1>2 DEF Recover, items
  <2> QED BY <1>1, <2>1, NamesAre, CopyBlank DEF Quiet
<1>3. ASSUME NEW u \in Users, NEW t \in Teams, SetTeam(r, u, t) PROVE CopyInv'
  <2>1. Start(r, "setTeam", u, t, "claim", None) /\ UNCHANGED profile
    BY <1>3 DEF SetTeam, items
  <2> QED BY <1>1, <2>1, NamesAre, CopyBlank DEF Quiet
<1>4. ASSUME NEW u \in Users, Delete(r, u) PROVE CopyInv'
  <2>1. PICK c \in Copies : c = profile[u]
    BY ItemsAre
  <2>2. Start(r, "delete", u, None, "list", c) /\ UNCHANGED profile
    BY <1>4, <2>1 DEF Delete, items
  <2> QED BY <1>1, <2>1, <2>2, NamesAre, CopyStart DEF Quiet
<1>5. ASSUME NEW u \in Users, NEW op \in {"setStatus", "setAuto"}, NEW a \in Args, Mutate(r, op, u, a)
      PROVE CopyInv'
  <2>1. PICK c \in Copies : c = profile[u]
    BY ItemsAre
  <2>2. Start(r, op, u, a, "write", c) /\ UNCHANGED profile
    BY <1>5, <2>1 DEF Mutate, items
  <2> QED BY <1>1, <2>1, <2>2, NamesAre, CopyStart DEF Quiet
<1>6. PICK u \in Users :
        \/ \E e \in Emails, t \in Teams \cup {None} : Invite(r, u, e, t)
        \/ Recover(r, u)
        \/ \E t \in Teams : SetTeam(r, u, t)
        \/ \E s \in Store!Statuses : Mutate(r, "setStatus", u, s)
        \/ \E f \in Store!Flags : Mutate(r, "setAuto", u, f)
        \/ Delete(r, u)
  BY DEF Admin, SetStatus, SetAutoApply
<1> QED BY <1>2, <1>3, <1>4, <1>5, <1>6, CopyInvite DEF Args

LEMMA CopyTenant ==
    ASSUME DirInv, DirInv', CopyInv, NEW r \in Requests, Tenant(r)
    PROVE  CopyInv'
<1>1. UNCHANGED profile /\ ProfilesMove
  BY DEF Tenant, RegisterPasskey, AddPasskey, SetPreferences, Mutate, Revoke, items, ProfilesMove
<1>2. ASSUME NEW l \in Issuers, RegisterPasskey(r, l) PROVE CopyInv'
  <2>1. PICK u \in Users : u = link[l].user
    BY <1>2, ItemsAre DEF RegisterPasskey, Usable
  <2>2. Start(r, "register", u, l, "redeem", None)
    BY <1>2, <2>1 DEF RegisterPasskey
  <2> QED BY <1>1, <2>2, NamesAre, CopyBlank
<1>3. ASSUME NEW u \in Users, NEW f \in Store!Flags, SetPreferences(r, u, f) PROVE CopyInv'
  <2>1. PICK c \in Copies : c = profile[u]
    BY ItemsAre
  <2>2. Start(r, "setPrefs", u, f, "write", c)
    BY <1>3, <2>1 DEF SetPreferences, Mutate
  <2> QED BY <1>1, <2>1, <2>2, NamesAre, CopyStart
<1>4. ASSUME NEW u \in Users, NEW k \in Issuers, Revoke(r, u, k) PROVE CopyInv'
  BY <1>1, <1>4, RevokeIs, CopyStep
<1>5. ASSUME NEW u \in Users, AddPasskey(r, u) PROVE CopyInv'
  <2>1. Start(r, "register", u, None, "putRow", None)
    BY <1>5 DEF AddPasskey
  <2> QED BY <1>1, <2>1, NamesAre, CopyBlank
<1> QED BY <1>2, <1>3, <1>4, <1>5 DEF Tenant

\* What the steps of a request under way do to the profiles.
LEMMA ContinueMoves ==
    ASSUME DirInv, CopyInv, NEW r \in Requests, Continue(r)
    PROVE  ProfilesMove /\ (UNCHANGED profile \/ PutProfile(r) \/ DropProfile(r))
<1>1. PutProfile(r) => ProfilesMove
  <2>1. ASSUME PutProfile(r) PROVE ProfilesMove
    <3>1. PICK u \in Users : u = req[r].user
      BY <2>1, WrittenIs
    <3> QED BY <2>1, <3>1, WrittenIs DEF ProfilesMove, Exists
  <2> QED BY <2>1
<1>2. DropProfile(r) => ProfilesMove
  BY ItemsAre DEF DropProfile, ProfilesMove
<1>3. Mint(r) \/ ReadProfile(r) \/ LoseProfile(r) \/ ClaimPointer(r) \/ ReadLink(r) \/ BurnLink(r)
        \/ PutRow(r) \/ PutIndex(r) => UNCHANGED profile
  BY DEF Mint, ReadProfile, LoseProfile, ClaimPointer, ReadLink, BurnLink, PutRow, PutIndex, items
<1>4. ListItems(r) \/ DropIndex(r) \/ DropRow(r) \/ ReadEmailClaim(r) \/ DropEmailClaim(r)
        \/ ReadTeamClaim(r) \/ DropTeamClaim(r) => UNCHANGED profile
  BY DEF ListItems, DropIndex, DropRow, ReadEmailClaim, DropEmailClaim, ReadTeamClaim, DropTeamClaim, items
<1>5. UNCHANGED profile => ProfilesMove
  BY DEF ProfilesMove
<1> QED BY <1>1, <1>2, <1>3, <1>4, <1>5 DEF Continue

LEMMA ReadProfileIs ==
    ASSUME DirInv, NEW r \in Requests, ReadProfile(r)
    PROVE  /\ req' \in [Requests -> Reqs] /\ \A o \in Requests \ {r} : req'[o] = req[o]
           /\ req'[r].op = req[r].op /\ req'[r].user = req[r].user /\ req'[r].arg = req[r].arg
           /\ req'[r].keys = req[r].keys
           /\ IF Exists(req[r].user)
              THEN req'[r].pc = "write" /\ req'[r].copy = profile[req[r].user]
              ELSE req'[r].pc = "done" /\ req'[r].copy = req[r].copy
<1>1. CASE ~Exists(req[r].user)
  BY <1>1, GotoIs DEF ReadProfile, Steps
<1>2. CASE Exists(req[r].user)
  <2>1. PICK c \in Store!Profiles : c = profile[req[r].user]
    BY <1>2, ReqIs, ProfileIs, IdleIs DEF ReadProfile, Sound
  <2> DEFINE x == [req[r] EXCEPT !.pc = "write", !.copy = c]
  <2>2. /\ x \in Reqs /\ x.pc = "write" /\ x.copy = c /\ x.op = req[r].op /\ x.arg = req[r].arg
        /\ x.user = req[r].user /\ x.keys = req[r].keys
    BY ReqIs DEF Reqs, Copies, Steps
  <2>3. req' = [req EXCEPT ![r] = x]
    BY <1>2, <2>1, ReqIs DEF ReadProfile
  <2> HIDE DEF x
  <2> QED BY <1>2, <2>1, <2>2, <2>3, ReqIs
<1> QED BY <1>1, <1>2

LEMMA CopyContinue ==
    ASSUME DirInv, DirInv', CopyInv, NEW r \in Requests, Continue(r)
    PROVE  CopyInv'
<1>1. ProfilesMove
  BY ContinueMoves
<1>2. CASE ReadProfile(r)
  <2>1. UNCHANGED profile
    BY <1>2 DEF ReadProfile, items
  <2> QED BY <1>1, <1>2, <2>1, ReadProfileIs, CopyStep
<1>3. CASE ~ReadProfile(r)
  <2>1. Kept(r)
    BY <1>3, ContinueKeeps DEF Continue
  <2> QED BY <1>1, <2>1, CopyKept
<1> QED BY <1>2, <1>3

LEMMA CopyNext ==
    ASSUME DirInv, DirInv', CopyInv, Next
    PROVE  CopyInv'
<1>1. ASSUME NEW r \in Requests, Stop(r) PROVE CopyInv'
  <2>1. Kept(r) /\ ProfilesMove
    BY <1>1, ContinueKeeps DEF Stop, items, ProfilesMove
  <2> QED BY <2>1, CopyKept
<1>2. ASSUME NEW l \in Issuers, Expire(l) PROVE CopyInv'
  BY <1>2 DEF Expire, CopyInv, CopyHolds
<1> QED BY <1>1, <1>2, CopyAdmin, CopyTenant, CopyContinue DEF Next

LEMMA CopyStutter ==
    ASSUME CopyInv, UNCHANGED vars
    PROVE  CopyInv'
  BY DEF vars, CopyInv, CopyHolds

-----------------------------------------------------------------------------
(* Who holds which claim, while no tenant has been deleted twice at once: a    *)
(* deletion removes a claim only while it is still the deleted tenant's, whose *)
(* profile is already gone, and a team is claimed before a profile names it.   *)
Deletes(q) == q.op = "delete" /\ q.pc \notin {"idle", "done"}

Held(q) ==
    /\ q.pc \in Releasing => profile[q.user] = None
    /\ ~deletedTwice =>
        /\ q.pc = "emailDrop" => emailClaim[q.copy.email] = q.user
        /\ q.pc = "teamDrop" => teamClaim[q.copy.team] = q.user
        /\ q.op = "setTeam" /\ q.pc \in {"read", "write"} /\ profile[q.user] # None
             => teamClaim[q.arg] = q.user

DeletedOnce ==
    deletedTwice \/
    \A r, o \in Requests :
        Deletes(req[r]) /\ Deletes(req[o]) /\ req[r].user = req[o].user => r = o

HoldInv ==
    /\ ProfilesHoldTheirClaims
    /\ DeletedOnce
    /\ \A r \in Requests : Held(req[r])

Claimed(u) ==
    /\ emailClaim[profile[u].email] = u
    /\ profile[u].team # None => teamClaim[profile[u].team] = u

\* A step that takes no claim from anyone and brings no profile back.
Sticks ==
    /\ \A e \in Emails : emailClaim[e] # None => emailClaim'[e] = emailClaim[e]
    /\ \A t \in Teams : teamClaim[t] # None => teamClaim'[t] = teamClaim[t]
    /\ \A u \in minted : profile[u] = None => profile'[u] = None

LEMMA HeldOn ==
    ASSUME DirInv, NEW r \in Requests, Held(req[r]), Sticks, deletedTwice => deletedTwice',
           req'[r] = req[r]
    PROVE  Held(req[r])'
<1>1. CASE req[r].pc = "idle"
  BY <1>1, ReqIs, IdleIs DEF Held, Releasing, Sound
<1>2. CASE req[r].pc # "idle"
  <2>1. PICK u \in minted : u = req[r].user
    BY <1>2, ReqIs
  <2>2. u \in Users /\ u # None
    BY ItemsAre, DirNames
  <2>3. profile[u] = None => profile'[u] = None
    BY DEF Sticks
  <2>4. req[r].pc = "emailDrop" => req[r].copy.email \in Emails
    BY ReqIs DEF Sound, Releasing, Store!Profiles
  <2>5. req[r].pc = "teamDrop" => req[r].copy.team \in Teams
    BY ReqIs DEF Sound
  <2>6. req[r].op = "setTeam" => req[r].arg \in Teams
    BY ReqIs DEF Sound
  <2> QED BY <2>1, <2>2, <2>3, <2>4, <2>5, <2>6 DEF Held, Sticks
<1> QED BY <1>1, <1>2

\* A step that takes nothing from anyone has to answer for its own request and
\* for the profiles it writes.
LEMMA HoldStep ==
    ASSUME DirInv, DirInv', HoldInv, NEW r \in Requests, \A o \in Requests \ {r} : req'[o] = req[o],
           Sticks, deletedTwice => deletedTwice',
           \A u \in Users : profile'[u] # None =>
               Claimed(u)' \/ /\ profile[u] # None /\ profile'[u].email = profile[u].email
                              /\ profile'[u].team = profile[u].team,
           Held(req[r])',
           Deletes(req'[r]) /\ ~deletedTwice' =>
               \/ Deletes(req[r]) /\ req'[r].user = req[r].user
               \/ ~\E o \in Requests \ {r} : Deletes(req[o]) /\ req[o].user = req'[r].user
    PROVE  HoldInv'
<1>1. ASSUME NEW o \in Requests PROVE Held(req[o])'
  BY HeldOn DEF HoldInv
<1>2. DeletedOnce'
  <2> SUFFICES ASSUME ~deletedTwice', NEW o \in Requests, NEW s \in Requests,
                      Deletes(req'[o]), Deletes(req'[s]), req'[o].user = req'[s].user, o # s
               PROVE  FALSE
    BY DEF DeletedOnce, Deletes
  <2>1. \A x, y \in Requests :
            Deletes(req[x]) /\ Deletes(req[y]) /\ req[x].user = req[y].user => x = y
    BY DEF HoldInv, DeletedOnce
  <2>2. CASE o = r
    BY <2>1, <2>2
  <2>3. CASE s = r
    BY <2>1, <2>3
  <2>4. CASE o # r /\ s # r
    BY <2>1, <2>4
  <2> QED BY <2>2, <2>3, <2>4
<1>3. ProfilesHoldTheirClaims'
  <2> SUFFICES ASSUME ~deletedTwice', NEW u \in Users, profile'[u] # None
               PROVE  Claimed(u)'
    BY DEF ProfilesHoldTheirClaims, Exists, Claimed
  <2>1. CASE /\ profile[u] # None /\ profile'[u].email = profile[u].email
             /\ profile'[u].team = profile[u].team
    <3>1. Claimed(u)
      BY <2>1 DEF HoldInv, ProfilesHoldTheirClaims, Exists, Claimed
    <3>2. u # None /\ profile[u].email \in Emails /\ profile[u].team \in Teams \cup {None}
      BY <2>1, DirNames, ProfileIs DEF Exists
    <3> QED BY <2>1, <3>1, <3>2 DEF Claimed, Sticks
  <2> QED BY <2>1
<1> QED BY <1>1, <1>2, <1>3 DEF HoldInv

\* The profiles, and the claims, are as they were.
LEMMA QuietSticks ==
    ASSUME DirInv, UNCHANGED <<profile, emailClaim, teamClaim>>
    PROVE  /\ Sticks
           /\ \A u \in Users : profile'[u] # None =>
                Claimed(u)' \/ /\ profile[u] # None /\ profile'[u].email = profile[u].email
                               /\ profile'[u].team = profile[u].team
  BY DEF Sticks

\* A step that changes no profile and no claim.
LEMMA HoldQuiet ==
    ASSUME DirInv, DirInv', HoldInv, NEW r \in Requests, \A o \in Requests \ {r} : req'[o] = req[o],
           UNCHANGED <<profile, emailClaim, teamClaim>>, deletedTwice => deletedTwice', Held(req[r])',
           Deletes(req'[r]) /\ ~deletedTwice' =>
               \/ Deletes(req[r]) /\ req'[r].user = req[r].user
               \/ ~\E o \in Requests \ {r} : Deletes(req[o]) /\ req[o].user = req'[r].user
    PROVE  HoldInv'
  BY QuietSticks, HoldStep

\* A step after which its request holds nothing.
LEMMA HoldsNothing ==
    ASSUME NEW r \in Requests, req'[r].pc \notin Releasing,
           req'[r].op = "setTeam" => req'[r].pc \notin {"read", "write"}
    PROVE  Held(req[r])'
  BY DEF Held, Releasing

\* A first step that changes no profile and no claim, of an operation that is
\* not a deletion.
LEMMA HoldStart ==
    ASSUME DirInv, DirInv', HoldInv, NEW r \in Requests, \A o \in Requests \ {r} : req'[o] = req[o],
           UNCHANGED <<profile, emailClaim, teamClaim, deletedTwice>>,
           req'[r].op # "delete", req'[r].pc \notin Releasing \cup {"read"},
           req'[r].pc = "write" => req'[r].op # "setTeam"
    PROVE  HoldInv'
<1>1. Held(req[r])'
  BY HoldsNothing DEF Releasing
<1> QED BY <1>1, HoldQuiet DEF Deletes

LEMMA HoldInvite ==
    ASSUME DirInv, DirInv', HoldInv, NEW r \in Requests, NEW u \in Users, NEW e \in Emails,
           NEW t \in Teams \cup {None}, Invite(r, u, e, t)
    PROVE  HoldInv'
<1>1. /\ Start(r, "invite", u, None, "mint", None) /\ u \notin minted /\ emailClaim[e] = None
      /\ t # None => teamClaim[t] = None
      /\ profile' = [profile EXCEPT ![u] = Store!NewProfile(e, t)]
      /\ emailClaim' = [emailClaim EXCEPT ![e] = u]
      /\ teamClaim' = [x \in Teams |-> IF x = t THEN u ELSE teamClaim[x]]
      /\ UNCHANGED deletedTwice
  BY DEF Invite, CreateUser
<1>2. /\ \A o \in Requests \ {r} : req'[o] = req[o]
      /\ req'[r].pc = "mint" /\ req'[r].op = "invite"
  BY <1>1, StartIs, NamesAre
<1>3. /\ \A x \in Emails : emailClaim'[x] = IF x = e THEN u ELSE emailClaim[x]
      /\ \A x \in Teams : teamClaim'[x] = IF x = t THEN u ELSE teamClaim[x]
      /\ \A w \in Users : profile'[w] = IF w = u THEN Store!NewProfile(e, t) ELSE profile[w]
      /\ minted \subseteq Users
  BY <1>1, ItemsAre
<1>4. Sticks
  BY <1>1, <1>3, DirNames DEF Sticks
<1>5. Claimed(u)'
  <2>1. profile'[u].email = e /\ profile'[u].team = t
    BY <1>3 DEF Store!NewProfile
  <2> QED BY <1>3, <2>1 DEF Claimed
<1>6. Held(req[r])' /\ ~Deletes(req'[r])
  BY <1>2, HoldsNothing DEF Releasing, Deletes
<1> QED BY <1>1, <1>2, <1>3, <1>4, <1>5, <1>6, HoldStep

LEMMA HoldAdmin ==
    ASSUME DirInv, DirInv', HoldInv, NEW r \in Requests, Admin(r)
    PROVE  HoldInv'
<1>1. ASSUME NEW u \in Users, Recover(r, u) PROVE HoldInv'
  <2>1. /\ Start(r, "recover", u, None, "mint", None)
        /\ UNCHANGED <<profile, emailClaim, teamClaim, deletedTwice>>
    BY <1>1 DEF Recover, items
  <2>2. /\ \A o \in Requests \ {r} : req'[o] = req[o]
        /\ req'[r].pc = "mint" /\ req'[r].op = "recover"
    BY <2>1, StartIs, NamesAre
  <2> QED BY <2>1, <2>2, HoldStart DEF Releasing
<1>2. ASSUME NEW u \in Users, NEW t \in Teams, SetTeam(r, u, t) PROVE HoldInv'
  <2>1. /\ Start(r, "setTeam", u, t, "claim", None)
        /\ UNCHANGED <<profile, emailClaim, teamClaim, deletedTwice>>
    BY <1>2 DEF SetTeam, items
  <2>2. /\ \A o \in Requests \ {r} : req'[o] = req[o]
        /\ req'[r].pc = "claim" /\ req'[r].op = "setTeam"
    BY <2>1, StartIs, NamesAre
  <2> QED BY <2>1, <2>2, HoldStart DEF Releasing
<1>3. ASSUME NEW u \in Users, NEW op \in {"setStatus", "setAuto"}, NEW a \in Args, Mutate(r, op, u, a)
      PROVE HoldInv'
  <2>1. PICK c \in Copies : c = profile[u]
    BY ItemsAre
  <2>2. /\ Start(r, op, u, a, "write", c)
        /\ UNCHANGED <<profile, emailClaim, teamClaim, deletedTwice>>
    BY <1>3, <2>1 DEF Mutate, items
  <2>3. /\ \A o \in Requests \ {r} : req'[o] = req[o]
        /\ req'[r].pc = "write" /\ req'[r].op = op
    BY <2>2, StartIs, NamesAre
  <2> QED BY <2>2, <2>3, HoldStart DEF Releasing
<1>4. ASSUME NEW u \in Users, Delete(r, u) PROVE HoldInv'
  <2>1. PICK c \in Copies : c = profile[u]
    BY ItemsAre
  <2>2. /\ Start(r, "delete", u, None, "list", c)
        /\ UNCHANGED <<profile, emailClaim, teamClaim>>
        /\ deletedTwice' = (deletedTwice \/ Meets(u, {"delete"}))
    BY <1>4, <2>1 DEF Delete, items
  <2>3. /\ \A o \in Requests \ {r} : req'[o] = req[o]
        /\ req'[r].pc = "list" /\ req'[r].op = "delete" /\ req'[r].user = u
    BY <2>2, StartIs, NamesAre
  <2>4. Held(req[r])'
    BY <2>3, HoldsNothing DEF Releasing
  <2>5. ~deletedTwice' => ~\E o \in Requests \ {r} : Deletes(req[o]) /\ req[o].user = u
    BY <2>2 DEF Meets, Active, Deletes
  <2>6. deletedTwice => deletedTwice'
    BY <2>2
  <2> QED BY <2>2, <2>3, <2>4, <2>5, <2>6, HoldQuiet
<1>5. PICK u \in Users :
        \/ \E e \in Emails, t \in Teams \cup {None} : Invite(r, u, e, t)
        \/ Recover(r, u)
        \/ \E t \in Teams : SetTeam(r, u, t)
        \/ \E s \in Store!Statuses : Mutate(r, "setStatus", u, s)
        \/ \E f \in Store!Flags : Mutate(r, "setAuto", u, f)
        \/ Delete(r, u)
  BY DEF Admin, SetStatus, SetAutoApply
<1> QED BY <1>1, <1>2, <1>3, <1>4, <1>5, HoldInvite DEF Args

LEMMA HoldTenant ==
    ASSUME DirInv, DirInv', HoldInv, NEW r \in Requests, Tenant(r)
    PROVE  HoldInv'
<1>1. UNCHANGED <<profile, emailClaim, teamClaim, deletedTwice>>
  BY DEF Tenant, RegisterPasskey, AddPasskey, SetPreferences, Mutate, Revoke, items
<1>2. ASSUME NEW l \in Issuers, RegisterPasskey(r, l) PROVE HoldInv'
  <2>1. PICK u \in Users : u = link[l].user
    BY <1>2, ItemsAre DEF RegisterPasskey, Usable
  <2>2. Start(r, "register", u, l, "redeem", None)
    BY <1>2, <2>1 DEF RegisterPasskey
  <2>3. /\ \A o \in Requests \ {r} : req'[o] = req[o]
        /\ req'[r].pc = "redeem" /\ req'[r].op = "register"
    BY <2>2, StartIs, NamesAre
  <2> QED BY <1>1, <2>3, HoldStart DEF Releasing
<1>3. ASSUME NEW u \in Users, NEW f \in Store!Flags, SetPreferences(r, u, f) PROVE HoldInv'
  <2>1. PICK c \in Copies : c = profile[u]
    BY ItemsAre
  <2>2. Start(r, "setPrefs", u, f, "write", c)
    BY <1>3, <2>1 DEF SetPreferences, Mutate
  <2>3. /\ \A o \in Requests \ {r} : req'[o] = req[o]
        /\ req'[r].pc = "write" /\ req'[r].op = "setPrefs"
    BY <2>2, StartIs, NamesAre
  <2> QED BY <1>1, <2>3, HoldStart DEF Releasing
<1>4. ASSUME NEW u \in Users, NEW k \in Issuers, Revoke(r, u, k) PROVE HoldInv'
  BY <1>1, <1>4, RevokeIs, HoldStart DEF Releasing
<1>5. ASSUME NEW u \in Users, AddPasskey(r, u) PROVE HoldInv'
  <2>1. Start(r, "register", u, None, "putRow", None)
    BY <1>5 DEF AddPasskey
  <2>2. /\ \A o \in Requests \ {r} : req'[o] = req[o]
        /\ req'[r].pc = "putRow" /\ req'[r].op = "register"
    BY <2>1, StartIs, NamesAre
  <2> QED BY <1>1, <2>2, HoldStart DEF Releasing
<1> QED BY <1>2, <1>3, <1>4, <1>5 DEF Tenant

\* Every step of a request under way finds it under way.
LEMMA ContinueIsOn ==
    ASSUME NEW r \in Requests, Continue(r) \/ Stop(r)
    PROVE  req[r].pc \notin {"idle", "done"}
<1>1. Mint(r) \/ ReadProfile(r) \/ PutProfile(r) \/ LoseProfile(r) \/ ClaimPointer(r) \/ ReadLink(r)
        \/ BurnLink(r) \/ PutRow(r) \/ PutIndex(r) => req[r].pc \notin {"idle", "done"}
  BY DEF Mint, ReadProfile, PutProfile, LoseProfile, ClaimPointer, ReadLink, BurnLink, PutRow, PutIndex
<1>2. ListItems(r) \/ DropIndex(r) \/ DropRow(r) \/ ReadEmailClaim(r) \/ DropEmailClaim(r)
        \/ ReadTeamClaim(r) \/ DropTeamClaim(r) \/ DropProfile(r) => req[r].pc \notin {"idle", "done"}
  BY DEF ListItems, DropIndex, DropRow, ReadEmailClaim, DropEmailClaim, ReadTeamClaim, DropTeamClaim,
         DropProfile
<1> QED BY <1>1, <1>2 DEF Continue, Stop, Active

\* A step of a request under way that changes no profile and no claim.
LEMMA HoldOn ==
    ASSUME DirInv, DirInv', HoldInv, NEW r \in Requests, Continue(r) \/ Stop(r),
           \A o \in Requests \ {r} : req'[o] = req[o], req'[r].op = req[r].op,
           req'[r].user = req[r].user,
           UNCHANGED <<profile, emailClaim, teamClaim, deletedTwice>>, Held(req[r])'
    PROVE  HoldInv'
<1>1. Deletes(req'[r]) => Deletes(req[r])
  BY ContinueIsOn DEF Deletes
<1> QED BY <1>1, HoldQuiet

\* The steps that change no profile and no claim and end outside Releasing.
LEMMA HoldElsewhere ==
    ASSUME DirInv, DirInv', HoldInv, NEW r \in Requests,
           \/ Mint(r) \/ ReadLink(r) \/ BurnLink(r) \/ PutRow(r) \/ PutIndex(r)
           \/ ListItems(r) \/ DropIndex(r) \/ DropRow(r) \/ Stop(r)
    PROVE  HoldInv'
<1>1. Kept(r) /\ (Continue(r) \/ Stop(r))
  BY ContinueKeeps DEF Continue
<1>2. Mint(r) \/ ReadLink(r) \/ BurnLink(r) \/ PutRow(r) \/ PutIndex(r)
        => /\ UNCHANGED <<profile, emailClaim, teamClaim, deletedTwice>>
           /\ \E pc \in {"done", "burn", "putRow", "putIndex"} : Goto(r, pc)
  BY DEF Mint, ReadLink, BurnLink, PutRow, PutIndex, items
<1>3. \A pc \in {"done", "burn", "putRow", "putIndex", "dropProfile", "dropIndex"} :
        Goto(r, pc) => req'[r].pc = pc
  BY GotoIs DEF Steps
<1>4. CASE Mint(r) \/ ReadLink(r) \/ BurnLink(r) \/ PutRow(r) \/ PutIndex(r) \/ Stop(r)
  <2>1. /\ UNCHANGED <<profile, emailClaim, teamClaim, deletedTwice>>
        /\ req'[r].pc \in {"done", "burn", "putRow", "putIndex"}
    BY <1>2, <1>3, <1>4 DEF Stop, items
  <2>2. Held(req[r])'
    BY <2>1, HoldsNothing DEF Releasing
  <2> QED BY <1>1, <2>1, <2>2, HoldOn DEF Kept
<1>5. CASE ListItems(r) \/ DropIndex(r)
  <2>1. /\ UNCHANGED <<profile, emailClaim, teamClaim, deletedTwice>>
        /\ req'[r].pc \in {"dropProfile", "dropIndex", "dropRow"}
    BY <1>5, ListItemsIs, DropIndexIs DEF ListItems, items
  <2>2. Held(req[r])'
    BY <2>1, HoldsNothing DEF Releasing
  <2> QED BY <1>1, <2>1, <2>2, HoldOn DEF Kept
<1>6. CASE DropRow(r)
  <2>1. UNCHANGED <<profile, emailClaim, teamClaim, deletedTwice>> /\ req[r].op \in {"delete", "revoke"}
    BY <1>6, ReqIs DEF DropRow, Sound
  <2>2. req'[r].pc \in {"write", "dropProfile", "dropIndex"}
    BY <1>6, GotoIs DEF DropRow, Steps
  <2>3. Held(req[r])'
    BY <1>1, <2>1, <2>2, HoldsNothing DEF Releasing, Kept
  <2> QED BY <1>1, <2>1, <2>3, HoldOn DEF Kept
<1> QED BY <1>4, <1>5, <1>6

LEMMA HoldReadProfile ==
    ASSUME DirInv, DirInv', HoldInv, NEW r \in Requests, ReadProfile(r)
    PROVE  HoldInv'
<1>1. /\ req[r].pc = "read" /\ UNCHANGED <<profile, emailClaim, teamClaim, deletedTwice>>
      /\ Held(req[r])
  BY DEF ReadProfile, items, HoldInv
<1>2. Held(req[r])'
  BY <1>1, ReadProfileIs DEF Held, Releasing
<1> QED BY <1>1, <1>2, ReadProfileIs, HoldOn DEF Continue

LEMMA HoldLoseProfile ==
    ASSUME DirInv, DirInv', HoldInv, NEW r \in Requests, LoseProfile(r)
    PROVE  HoldInv'
<1>1. /\ req[r].pc = "write" /\ UNCHANGED <<profile, emailClaim, teamClaim, deletedTwice>>
      /\ Held(req[r]) /\ Kept(r)
  BY ContinueKeeps DEF LoseProfile, items, HoldInv
<1>2. req'[r].pc \in {"read", "done"} /\ req'[r].arg = req[r].arg
  BY ReqIs DEF LoseProfile, Goto, Reqs
<1>3. Held(req[r])'
  BY <1>1, <1>2 DEF Held, Releasing, Kept
<1> QED BY <1>1, <1>3, HoldOn DEF Continue, Kept

LEMMA HoldClaimPointer ==
    ASSUME DirInv, DirInv', HoldInv, NEW r \in Requests, ClaimPointer(r)
    PROVE  HoldInv'
<1>1. PICK u \in Users, t \in Teams : u = req[r].user /\ t = req[r].arg
  <2>1. req[r].pc = "claim"
    BY DEF ClaimPointer
  <2> QED BY <2>1, ReqIs DEF Sound
<1>2. /\ req[r].pc = "claim" /\ Kept(r) /\ UNCHANGED <<profile, emailClaim, deletedTwice>>
      /\ req'[r].arg = t
  BY <1>1, ContinueKeeps, GotoIs DEF ClaimPointer, Steps
<1>3. CASE Claimable(t, u)
  <2>1. teamClaim' = [teamClaim EXCEPT ![t] = u] /\ Goto(r, "read")
    BY <1>1, <1>3 DEF ClaimPointer
  <2>2. Sticks /\ teamClaim'[t] = u
    BY <1>2, <1>3, <2>1, ItemsAre DEF Sticks, Claimable
  <2>5. req'[r].pc = "read"
    BY <2>1, GotoIs DEF Steps
  <2>3. Held(req[r])'
    BY <1>1, <1>2, <2>2, <2>5 DEF Held, Kept, Releasing
  <2>4. Deletes(req'[r]) => Deletes(req[r]) /\ req'[r].user = req[r].user
    BY <1>2, <2>1 DEF Kept, Deletes
  <2> QED BY <1>2, <2>2, <2>3, <2>4, HoldStep DEF Kept
<1>4. CASE ~Claimable(t, u)
  <2>1. UNCHANGED teamClaim /\ Goto(r, "done")
    BY <1>1, <1>4 DEF ClaimPointer
  <2>2. Held(req[r])'
    BY <2>1, GotoIs, HoldsNothing DEF Steps, Releasing
  <2> QED BY <1>2, <2>1, <2>2, HoldOn DEF Kept, Continue
<1> QED BY <1>3, <1>4

LEMMA HoldPutProfile ==
    ASSUME DirInv, DirInv', CopyInv, HoldInv, NEW r \in Requests, PutProfile(r)
    PROVE  HoldInv'
<1>1. PICK u \in Users : u = req[r].user
  BY WrittenIs
<1>2. /\ req[r].pc = "write" /\ Kept(r) /\ Goto(r, "done")
      /\ UNCHANGED <<emailClaim, teamClaim, deletedTwice>>
  BY ContinueKeeps DEF PutProfile
<1>3. /\ Exists(u) /\ \A w \in Users \ {u} : profile'[w] = profile[w]
      /\ profile'[u] # None /\ profile'[u].email = profile[u].email
      /\ profile'[u].team = IF req[r].op = "setTeam" THEN req[r].arg ELSE profile[u].team
  BY <1>1, WrittenIs
<1>4. Sticks
  BY <1>2, <1>3, ItemsAre DEF Sticks, Exists
<1>5. ~deletedTwice /\ req[r].op = "setTeam" => Claimed(u)'
  <2>1. ~deletedTwice => emailClaim[profile[u].email] = u
    BY <1>3 DEF HoldInv, ProfilesHoldTheirClaims
  <2>2. ~deletedTwice /\ req[r].op = "setTeam" => teamClaim[req[r].arg] = u
    BY <1>1, <1>2, <1>3 DEF HoldInv, Held, Exists
  <2> QED BY <1>2, <1>3, <2>1, <2>2 DEF Claimed
<1>6. Held(req[r])' /\ ~Deletes(req'[r])
  BY <1>2, GotoIs, HoldsNothing DEF Steps, Releasing, Deletes
<1>7. CASE ~deletedTwice
  BY <1>2, <1>3, <1>4, <1>5, <1>6, <1>7, HoldStep DEF Kept, Exists
<1>8. CASE deletedTwice
  <2>1. \A o \in Requests : Held(req[o])'
    BY <1>2, <1>4, <1>6, HeldOn DEF HoldInv, Kept
  <2> QED BY <1>2, <1>8, <2>1 DEF HoldInv, DeletedOnce, ProfilesHoldTheirClaims
<1> QED BY <1>7, <1>8

LEMMA HoldDropProfile ==
    ASSUME DirInv, DirInv', HoldInv, NEW r \in Requests, DropProfile(r)
    PROVE  HoldInv'
<1>1. /\ req[r].pc = "dropProfile" /\ Kept(r) /\ UNCHANGED <<emailClaim, teamClaim, deletedTwice>>
      /\ profile' = [profile EXCEPT ![req[r].user] = None]
  BY ContinueKeeps DEF DropProfile
<1>2. PICK u \in Users : u = req[r].user
  BY <1>1, ReqIs
<1>3. \A w \in Users : profile'[w] = IF w = u THEN None ELSE profile[w]
  BY <1>1, <1>2, ItemsAre
<1>4. Sticks
  BY <1>1, <1>3, ItemsAre DEF Sticks
<1>5. req'[r].pc \in {"emailRead", "done"}
  BY GotoIs DEF DropProfile, Steps, Releasing
<1>6. Held(req[r])'
  BY <1>1, <1>2, <1>3, <1>5 DEF Held, Kept
<1>7. Deletes(req'[r]) => Deletes(req[r]) /\ req'[r].user = req[r].user
  BY <1>1 DEF Kept, Deletes
<1> QED BY <1>1, <1>3, <1>4, <1>6, <1>7, HoldStep DEF Kept

LEMMA HoldReadClaim ==
    ASSUME DirInv, DirInv', HoldInv, NEW r \in Requests, ReadEmailClaim(r) \/ ReadTeamClaim(r)
    PROVE  HoldInv'
<1>1. /\ Kept(r) /\ UNCHANGED <<profile, emailClaim, teamClaim, deletedTwice>>
      /\ req[r].pc \in {"emailRead", "teamRead"} /\ Held(req[r])
  BY ContinueKeeps DEF ReadEmailClaim, ReadTeamClaim, items, HoldInv
<1>2. CASE ReadEmailClaim(r)
  <2>3. PICK pc \in {"emailDrop", "teamRead"} :
          Goto(r, pc) /\ (pc = "emailDrop" => emailClaim[req[r].copy.email] = req[r].user)
    BY <1>2 DEF ReadEmailClaim
  <2>1. req'[r].pc = pc
    BY <2>3, GotoIs DEF Steps, Releasing
  <2>2. Held(req[r])'
    BY <1>1, <2>1, <2>3 DEF Held, Kept, Releasing
  <2> QED BY <1>1, <1>2, <2>2, HoldOn DEF Kept, Continue
<1>3. CASE ReadTeamClaim(r)
  <2>3. PICK pc \in {"teamDrop", "done"} :
          Goto(r, pc) /\ (pc = "teamDrop" => teamClaim[req[r].copy.team] = req[r].user)
    BY <1>3 DEF ReadTeamClaim
  <2>1. req'[r].pc = pc
    BY <2>3, GotoIs DEF Steps, Releasing
  <2>2. Held(req[r])'
    BY <1>1, <2>1, <2>3 DEF Held, Kept, Releasing
  <2> QED BY <1>1, <1>3, <2>2, HoldOn DEF Kept, Continue
<1> QED BY <1>2, <1>3

\* A deletion removes a claim of a tenant that has no profile, and no other
\* request holds that claim.
LEMMA HoldDropEmail ==
    ASSUME DirInv, DirInv', HoldInv, NEW r \in Requests, DropEmailClaim(r)
    PROVE  HoldInv'
<1>1. /\ req[r].pc = "emailDrop" /\ req[r].op = "delete" /\ Kept(r) /\ req'[r].pc = "teamRead"
      /\ UNCHANGED <<profile, teamClaim, deletedTwice>>
      /\ emailClaim' = [emailClaim EXCEPT ![req[r].copy.email] = None]
  <2>1. req[r].pc = "emailDrop" /\ Goto(r, "teamRead") /\ Kept(r)
    BY ContinueKeeps DEF DropEmailClaim
  <2>2. req[r].op = "delete" /\ req'[r].pc = "teamRead"
    BY <2>1, ReqIs, GotoIs DEF Sound, Releasing, Steps
  <2> QED BY <2>1, <2>2 DEF DropEmailClaim
<1>2. PICK u \in Users, e \in Emails : u = req[r].user /\ e = req[r].copy.email
  BY <1>1, ReqIs DEF Sound, Releasing, Store!Profiles
<1>3. profile[u] = None /\ (~deletedTwice => emailClaim[e] = u)
  BY <1>1, <1>2 DEF HoldInv, Held, Releasing
<1>4. \A x \in Emails : emailClaim'[x] = IF x = e THEN None ELSE emailClaim[x]
  BY <1>1, <1>2, ItemsAre
<1>5. ASSUME NEW o \in Requests PROVE Held(req[o])'
  <2>1. CASE o = r
    BY <1>1, <1>2, <1>3, <2>1 DEF Held, Kept, Releasing
  <2>2. CASE o # r
    <3>1. req'[o] = req[o] /\ Held(req[o])
      BY <1>1, <2>2 DEF Kept, HoldInv
    <3>2. ~deletedTwice /\ req[o].pc = "emailDrop" => emailClaim'[req[o].copy.email] = req[o].user
      <4>1. SUFFICES ASSUME ~deletedTwice, req[o].pc = "emailDrop", req[o].copy.email = e
                     PROVE  FALSE
        <5>1. req[o].pc = "emailDrop" => req[o].copy.email \in Emails
          BY ReqIs DEF Sound, Releasing, Store!Profiles
        <5> QED BY <1>4, <3>1, <5>1 DEF Held
      <4>2. req[o].user = u /\ req[o].op = "delete"
        BY <1>3, <3>1, <4>1, ReqIs DEF Held, Sound, Releasing
      <4> QED BY <1>1, <1>2, <2>2, <4>1, <4>2 DEF HoldInv, DeletedOnce, Deletes
    <3> QED BY <1>1, <3>1, <3>2 DEF Held
  <2> QED BY <2>1, <2>2
<1>6. ProfilesHoldTheirClaims'
  <2> SUFFICES ASSUME ~deletedTwice, NEW w \in Users, profile[w] # None
               PROVE  Claimed(w)'
    BY <1>1 DEF ProfilesHoldTheirClaims, Exists, Claimed
  <2>1. Claimed(w) /\ profile[w].email \in Emails
    BY ProfileIs DEF HoldInv, ProfilesHoldTheirClaims, Exists, Claimed
  <2>2. w # u
    BY <1>3
  <2> QED BY <1>1, <1>3, <1>4, <2>1, <2>2 DEF Claimed
<1>7. DeletedOnce'
  <2> SUFFICES ASSUME ~deletedTwice, NEW o \in Requests, NEW s \in Requests,
                      Deletes(req'[o]), Deletes(req'[s]), req'[o].user = req'[s].user
               PROVE  o = s
    BY <1>1 DEF DeletedOnce, Deletes
  <2>1. \A x \in Requests : Deletes(req'[x]) => Deletes(req[x]) /\ req'[x].user = req[x].user
    BY <1>1 DEF Kept, Deletes
  <2> QED BY <2>1 DEF HoldInv, DeletedOnce
<1> QED BY <1>5, <1>6, <1>7 DEF HoldInv

LEMMA HoldDropTeam ==
    ASSUME DirInv, DirInv', HoldInv, NEW r \in Requests, DropTeamClaim(r)
    PROVE  HoldInv'
<1>1. /\ req[r].pc = "teamDrop" /\ req[r].op = "delete" /\ Kept(r) /\ req'[r].pc = "done"
      /\ UNCHANGED <<profile, emailClaim, deletedTwice>>
      /\ teamClaim' = [teamClaim EXCEPT ![req[r].copy.team] = None]
  <2>1. req[r].pc = "teamDrop" /\ Goto(r, "done") /\ Kept(r)
    BY ContinueKeeps DEF DropTeamClaim
  <2>2. req[r].op = "delete" /\ req'[r].pc = "done"
    BY <2>1, ReqIs, GotoIs DEF Sound, Releasing, Steps
  <2> QED BY <2>1, <2>2 DEF DropTeamClaim
<1>2. PICK u \in Users, t \in Teams : u = req[r].user /\ t = req[r].copy.team
  BY <1>1, ReqIs DEF Sound
<1>3. profile[u] = None /\ (~deletedTwice => teamClaim[t] = u)
  BY <1>1, <1>2 DEF HoldInv, Held, Releasing
<1>4. \A x \in Teams : teamClaim'[x] = IF x = t THEN None ELSE teamClaim[x]
  BY <1>1, <1>2, ItemsAre
<1>5. ASSUME NEW o \in Requests PROVE Held(req[o])'
  <2>1. CASE o = r
    BY <1>1, <2>1, HoldsNothing DEF Releasing
  <2>2. CASE o # r
    <3>1. req'[o] = req[o] /\ Held(req[o])
      BY <1>1, <2>2 DEF Kept, HoldInv
    <3>2. ~deletedTwice /\ req[o].pc = "teamDrop" => teamClaim'[req[o].copy.team] = req[o].user
      <4>1. SUFFICES ASSUME ~deletedTwice, req[o].pc = "teamDrop", req[o].copy.team = t
                     PROVE  FALSE
        <5>1. req[o].pc = "teamDrop" => req[o].copy.team \in Teams
          BY ReqIs DEF Sound
        <5> QED BY <1>4, <3>1, <5>1 DEF Held
      <4>2. req[o].user = u /\ req[o].op = "delete"
        BY <1>3, <3>1, <4>1, ReqIs DEF Held, Sound, Releasing
      <4> QED BY <1>1, <1>2, <2>2, <4>1, <4>2 DEF HoldInv, DeletedOnce, Deletes
    <3>3. ~deletedTwice /\ req[o].op = "setTeam" /\ req[o].pc \in {"read", "write"}
            /\ profile[req[o].user] # None => teamClaim'[req[o].arg] = req[o].user
      <4>1. req[o].op = "setTeam" => req[o].arg \in Teams
        BY ReqIs DEF Sound
      <4> QED BY <1>3, <1>4, <3>1, <4>1 DEF Held
    <3> QED BY <1>1, <3>1, <3>2, <3>3 DEF Held
  <2> QED BY <2>1, <2>2
<1>6. ProfilesHoldTheirClaims'
  <2> SUFFICES ASSUME ~deletedTwice, NEW w \in Users, profile[w] # None
               PROVE  Claimed(w)'
    BY <1>1 DEF ProfilesHoldTheirClaims, Exists, Claimed
  <2>1. Claimed(w) /\ profile[w].team \in Teams \cup {None}
    BY ProfileIs DEF HoldInv, ProfilesHoldTheirClaims, Exists, Claimed
  <2>2. w # u
    BY <1>3
  <2> QED BY <1>1, <1>3, <1>4, <2>1, <2>2 DEF Claimed
<1>7. DeletedOnce'
  <2> SUFFICES ASSUME ~deletedTwice, NEW o \in Requests, NEW s \in Requests,
                      Deletes(req'[o]), Deletes(req'[s]), req'[o].user = req'[s].user
               PROVE  o = s
    BY <1>1 DEF DeletedOnce, Deletes
  <2>1. \A x \in Requests : Deletes(req'[x]) => Deletes(req[x]) /\ req'[x].user = req[x].user
    BY <1>1 DEF Kept, Deletes
  <2> QED BY <2>1 DEF HoldInv, DeletedOnce
<1> QED BY <1>5, <1>6, <1>7 DEF HoldInv

LEMMA HoldNext ==
    ASSUME DirInv, DirInv', CopyInv, HoldInv, Next
    PROVE  HoldInv'
<1>1. ASSUME NEW r \in Requests, Continue(r) PROVE HoldInv'
  BY <1>1, HoldElsewhere, HoldReadProfile, HoldLoseProfile, HoldClaimPointer, HoldPutProfile,
     HoldDropProfile, HoldReadClaim, HoldDropEmail, HoldDropTeam DEF Continue
<1>2. ASSUME NEW l \in Issuers, Expire(l) PROVE HoldInv'
  BY <1>2 DEF Expire, HoldInv, Held, DeletedOnce, ProfilesHoldTheirClaims, Exists
<1> QED BY <1>1, <1>2, HoldAdmin, HoldTenant, HoldElsewhere DEF Next

LEMMA HoldStutter ==
    ASSUME HoldInv, UNCHANGED vars
    PROVE  HoldInv'
  BY DEF vars, HoldInv, Held, DeletedOnce, ProfilesHoldTheirClaims, Exists

LEMMA HoldInit == ASSUME Init PROVE HoldInv
<1>1. \A r \in Requests : req[r] = Idle
  BY DEF Init
<1>2. DeletedOnce /\ \A r \in Requests : Held(req[r])
  BY <1>1, IdleIs DEF DeletedOnce, Deletes, Held, Releasing
<1>3. ProfilesHoldTheirClaims
  BY DEF Init, ProfilesHoldTheirClaims, Exists, Store!NewProfile
<1> QED BY <1>2, <1>3 DEF HoldInv

\* A profile's e-mail and team are claimed in its name at every moment, unless
\* two deletions of one tenant ran at once (ddbuser.go CreateUser, ClaimTeam,
\* DeleteUser).
THEOREM ClaimsCoverProfiles == Spec => []ProfilesHoldTheirClaims
<1>1. Init => DirInv /\ CopyInv /\ HoldInv
  BY DirInit, CopyInit, HoldInit
<1>2. DirInv /\ CopyInv /\ HoldInv /\ [Next]_vars => (DirInv /\ CopyInv /\ HoldInv)'
  BY DirNext, DirStutter, CopyNext, CopyStutter, HoldNext, HoldStutter
<1>3. HoldInv => ProfilesHoldTheirClaims
  BY DEF HoldInv
<1> QED BY <1>1, <1>2, <1>3, PTL DEF Spec

\* Each step over single items is a step of the directory's interface.
LEMMA InviteCreates ==
    ASSUME DirInv, HoldInv, ~deletedTwice, NEW r \in Requests, NEW u \in Users, NEW e \in Emails,
           NEW t \in Teams \cup {None}, Invite(r, u, e, t)
    PROVE  Store!CreateUser(u, e, t)
<1>1. /\ u \notin minted /\ emailClaim[e] = None /\ (t # None => teamClaim[t] = None)
      /\ profile' = [profile EXCEPT ![u] = Store!NewProfile(e, t)]
  BY DEF Invite, CreateUser
<1>2. ASSUME NEW w \in Users, Exists(w)
      PROVE  profile[w].email # e /\ (t # None => profile[w].team # t)
  BY <1>1, <1>2, DirNames DEF HoldInv, ProfilesHoldTheirClaims
<1>3. ~Exists(u)
  BY <1>1, ItemsAre DEF Exists
<1> QED BY <1>1, <1>2, <1>3 DEF Store!CreateUser, Store!Exists, Store!EmailFree, Store!TeamFree, Exists

LEMMA PutWrites ==
    ASSUME DirInv, CopyInv, HoldInv, ~deletedTwice, NEW r \in Requests, PutProfile(r)
    PROVE  LET u == req[r].user
           IN  u \in Users /\ (Store!PutUser(u) \/ \E t \in Teams : Store!ClaimTeam(u, t))
<1>1. PICK u \in Users : u = req[r].user /\ Exists(u)
  BY PutIs
<1>2. CASE req[r].op # "setTeam"
  BY <1>1, <1>2, PutIs
<1>3. CASE req[r].op = "setTeam"
  <2>1. PICK t \in Teams : t = req[r].arg
    BY <1>3, PutIs
  <2>2. Store!Write(u, [profile[u] EXCEPT !.team = t])
    BY <1>1, <1>3, <2>1, PutIs
  <2>3. teamClaim[t] = u
    BY <1>1, <1>3, <2>1 DEF HoldInv, Held, Exists, PutProfile
  <2>4. Store!TeamFree(t, u)
    BY <2>3, DirNames DEF HoldInv, ProfilesHoldTheirClaims, Store!TeamFree, Store!Exists, Exists
  <2> QED BY <1>1, <2>2, <2>4 DEF Store!ClaimTeam
<1> QED BY <1>2, <1>3

LEMMA DropDeletes ==
    ASSUME DirInv, NEW r \in Requests, DropProfile(r)
    PROVE  UNCHANGED profile \/ \E u \in Users : Store!DeleteUser(u)
<1>1. PICK u \in Users : u = req[r].user
  BY ReqIs DEF DropProfile
<1>2. profile' = [profile EXCEPT ![u] = None]
  BY <1>1 DEF DropProfile
<1>3. CASE profile[u] = None
  BY <1>2, <1>3, ItemsAre
<1>4. CASE profile[u] # None
  BY <1>2, <1>4 DEF Store!DeleteUser, Store!Exists
<1> QED BY <1>3, <1>4

LEMMA StoreStep ==
    ASSUME DirInv, CopyInv, HoldInv, Next
    PROVE  deletedTwice' \/ Store!Next \/ UNCHANGED profile
<1> SUFFICES ASSUME ~deletedTwice' PROVE Store!Next \/ UNCHANGED profile
  OBVIOUS
<1>1. ASSUME NEW r \in Requests, Continue(r) PROVE Store!Next \/ UNCHANGED profile
  <2>1. ~deletedTwice \/ ~(PutProfile(r) \/ DropProfile(r))
    BY DEF PutProfile, DropProfile
  <2>2. CASE PutProfile(r)
    <3>1. PICK u \in Users : u = req[r].user
      BY <2>2, PutIs
    <3> QED BY <2>1, <2>2, <3>1, PutWrites DEF Store!Next
  <2>3. CASE DropProfile(r)
    BY <2>3, DropDeletes DEF Store!Next
  <2> QED BY <1>1, <2>2, <2>3, ContinueMoves
<1>2. ASSUME NEW r \in Requests, Tenant(r) \/ Stop(r) PROVE UNCHANGED profile
  BY <1>2 DEF Tenant, RegisterPasskey, AddPasskey, SetPreferences, Mutate, Revoke, Stop, items
<1>3. ASSUME NEW r \in Requests, Admin(r) PROVE Store!Next \/ UNCHANGED profile
  <2>1. ASSUME NEW u \in Users, NEW e \in Emails, NEW t \in Teams \cup {None}, Invite(r, u, e, t)
        PROVE  Store!Next
    <3>1. ~deletedTwice
      BY <2>1 DEF Invite
    <3> QED BY <2>1, <3>1, InviteCreates DEF Store!Next
  <2>2. ASSUME NEW u \in Users,
               \/ Recover(r, u) \/ \E t \in Teams : SetTeam(r, u, t)
               \/ \E s \in Store!Statuses : SetStatus(r, u, s)
               \/ \E f \in Store!Flags : SetAutoApply(r, u, f)
               \/ Delete(r, u)
        PROVE  UNCHANGED profile
    BY <2>2 DEF Recover, SetTeam, SetStatus, SetAutoApply, Mutate, Delete, items
  <2> QED BY <1>3, <2>1, <2>2 DEF Admin
<1>4. ASSUME NEW l \in Issuers, Expire(l) PROVE UNCHANGED profile
  BY <1>4 DEF Expire
<1> QED BY <1>1, <1>2, <1>3, <1>4 DEF Next

\* The directory over single items implements its interface, from its initial
\* states and step for step, until two deletions of one tenant overlap: no
\* e-mail and no team is given to a second tenant, and a write changes its own
\* field of the profile as it is now (ddbuser.go against fileuser.go).
THEOREM DirectoryImplementsStore == Spec => Store!Init /\ ImplementsUserStore
<1>1. Init => DirInv /\ CopyInv /\ HoldInv
  BY DirInit, CopyInit, HoldInit
<1>2. DirInv /\ CopyInv /\ HoldInv /\ [Next]_vars => (DirInv /\ CopyInv /\ HoldInv)'
  BY DirNext, DirStutter, CopyNext, CopyStutter, HoldNext, HoldStutter
<1>3. DirInv /\ CopyInv /\ HoldInv /\ [Next]_vars => [deletedTwice' \/ Store!Next]_profile
  BY StoreStep DEF vars
<1>4. Init => Store!Init
  BY DirInit, ItemsAre DEF Store!Init, Copies
<1> QED BY <1>1, <1>2, <1>3, <1>4, PTL DEF Spec, ImplementsUserStore

-----------------------------------------------------------------------------
(* What a link was spent on: the passkey that came from it, or the request     *)
(* that has burned it and is about to write that passkey.                      *)
Spent(k, l) ==
    \/ passkey[k].from = l
    \/ k \in Requests /\ req[k].pc = "putRow" /\ req[k].arg = l

LinkInv ==
    /\ \A l, k \in Issuers : Spent(k, l) => link[l].state = "used"
    /\ \A l, k, m \in Issuers : Spent(k, l) /\ Spent(m, l) => k = m
    /\ \A r \in Requests :
        /\ req[r].pc \in {"idle", "mint"} => link[r].state = "none"
        /\ req[r].pc \in {"redeem", "burn"} => link[req[r].arg].state # "none"

\* A step of r that spends no link, and makes no link but its own.
LEMMA LinkStep ==
    ASSUME DirInv, DirInv', LinkInv, NEW r \in Requests, \A o \in Requests \ {r} : req'[o] = req[o],
           \A l, k \in Issuers : Spent(k, l)' => Spent(k, l),
           \A l \in Issuers :
             \/ link'[l].state = link[l].state
             \/ link[l].state # "none" /\ link'[l].state # "none"
                  /\ (link[l].state = "used" => link'[l].state = "used")
             \/ l = r /\ link[l].state = "none" /\ link'[l].state = "unused",
           req'[r].pc \in {"idle", "mint"} => link'[r].state = "none",
           req'[r].pc \in {"redeem", "burn"} => link'[req'[r].arg].state # "none"
    PROVE  LinkInv'
<1>1. \A l, k \in Issuers : Spent(k, l)' => link'[l].state = "used"
  BY DEF LinkInv
<1>2. \A l, k, m \in Issuers : Spent(k, l)' /\ Spent(m, l)' => k = m
  BY DEF LinkInv
<1>3. ASSUME NEW o \in Requests
      PROVE  /\ req'[o].pc \in {"idle", "mint"} => link'[o].state = "none"
             /\ req'[o].pc \in {"redeem", "burn"} => link'[req'[o].arg].state # "none"
  <2>1. CASE o = r
    BY <2>1
  <2>2. CASE o # r
    <3>1. o \in Issuers /\ (req[o].pc \in {"redeem", "burn"} => req[o].arg \in Issuers)
      BY DirNames, ReqIs DEF Sound
    <3> QED BY <2>2, <3>1 DEF LinkInv
  <2> QED BY <2>1, <2>2
<1> QED BY <1>1, <1>2, <1>3 DEF LinkInv

\* A step that leaves the links alone, and starts or burns none.
LEMMA LinkQuiet ==
    ASSUME DirInv, DirInv', LinkInv, NEW r \in Requests, \A o \in Requests \ {r} : req'[o] = req[o],
           UNCHANGED link, \A k \in Issuers : passkey'[k].from = passkey[k].from,
           req'[r].pc \notin {"idle", "mint", "redeem", "burn", "putRow"}
    PROVE  LinkInv'
<1>1. \A l, k \in Issuers : Spent(k, l)' => Spent(k, l)
  BY DEF Spent
<1> QED BY <1>1, LinkStep

LEMMA LinkFirstSteps ==
    ASSUME DirInv, DirInv', LinkInv, NEW r \in Requests, Admin(r) \/ Tenant(r)
    PROVE  LinkInv'
<1>1. UNCHANGED <<link, passkey>>
  BY DEF Admin, Tenant, Invite, Recover, SetTeam, SetStatus, SetAutoApply, SetPreferences, Mutate,
         Delete, RegisterPasskey, AddPasskey, Revoke, items
<1>2. ASSUME NEW u \in Users, NEW op \in {"invite", "recover"}, req[r] = Idle,
             Start(r, op, u, None, "mint", None)
      PROVE  LinkInv'
  <2>1. /\ \A o \in Requests \ {r} : req'[o] = req[o]
        /\ req'[r].pc = "mint"
    BY <1>2, StartIs, NamesAre
  <2>2. link[r].state = "none"
    BY <1>2, IdleIs DEF LinkInv
  <2>3. \A l, k \in Issuers : Spent(k, l)' => Spent(k, l)
    BY <1>1, <2>1 DEF Spent
  <2> QED BY <1>1, <2>1, <2>2, <2>3, LinkStep
<1>3. ASSUME NEW u \in Users, NEW op \in Ops, NEW a \in Args, NEW pc \in {"claim", "write", "list"},
             NEW c \in Copies, Start(r, op, u, a, pc, c)
      PROVE  LinkInv'
  <2>1. /\ \A o \in Requests \ {r} : req'[o] = req[o]
        /\ req'[r].pc = pc
    BY <1>3, StartIs, NamesAre
  <2> QED BY <1>1, <2>1, LinkQuiet
<1>4. ASSUME NEW l \in Issuers, RegisterPasskey(r, l) PROVE LinkInv'
  <2>1. PICK u \in Users : u = link[l].user
    BY <1>4, ItemsAre DEF RegisterPasskey, Usable
  <2>2. Start(r, "register", u, l, "redeem", None) /\ link[l].state = "unused"
    BY <1>4, <2>1 DEF RegisterPasskey, Usable
  <2>3. /\ \A o \in Requests \ {r} : req'[o] = req[o]
        /\ req'[r].pc = "redeem" /\ req'[r].arg = l
    BY <2>2, StartIs, NamesAre
  <2>4. \A m, k \in Issuers : Spent(k, m)' => Spent(k, m)
    BY <1>1, <2>3 DEF Spent
  <2> QED BY <1>1, <2>2, <2>3, <2>4, LinkStep
<1>5. ASSUME NEW u \in Users, NEW k \in Issuers, Revoke(r, u, k) PROVE LinkInv'
  BY <1>1, <1>5, RevokeIs, LinkQuiet
<1>6. ASSUME NEW u \in Users, NEW op \in {"setStatus", "setAuto", "setPrefs"}, NEW a \in Args,
             Mutate(r, op, u, a)
      PROVE  LinkInv'
  <2>1. PICK c \in Copies : c = profile[u]
    BY ItemsAre
  <2>2. Start(r, op, u, a, "write", c) /\ op \in Ops
    BY <1>6, <2>1, NamesAre DEF Mutate
  <2> QED BY <1>3, <2>2
<1>7. ASSUME NEW u \in Users, Delete(r, u) PROVE LinkInv'
  <2>1. PICK c \in Copies : c = profile[u]
    BY ItemsAre
  <2>2. Start(r, "delete", u, None, "list", c)
    BY <1>7, <2>1 DEF Delete
  <2> QED BY <1>3, <2>2, NamesAre
<1>8. ASSUME NEW u \in Users, NEW t \in Teams, SetTeam(r, u, t) PROVE LinkInv'
  <2>1. PICK c \in Copies : c = None
    BY NamesAre
  <2>2. Start(r, "setTeam", u, t, "claim", c) /\ t \in Args
    BY <1>8, <2>1, NamesAre DEF SetTeam
  <2> QED BY <1>3, <2>2, NamesAre
<1>9. CASE Admin(r)
  <2>1. PICK u \in Users :
          \/ \E e \in Emails, t \in Teams \cup {None} : Invite(r, u, e, t)
          \/ Recover(r, u)
          \/ \E t \in Teams : SetTeam(r, u, t)
          \/ \E s \in Store!Statuses : Mutate(r, "setStatus", u, s)
          \/ \E f \in Store!Flags : Mutate(r, "setAuto", u, f)
          \/ Delete(r, u)
    BY <1>9 DEF Admin, SetStatus, SetAutoApply
  <2>2. ASSUME (\E e \in Emails, t \in Teams \cup {None} : Invite(r, u, e, t)) \/ Recover(r, u)
        PROVE  LinkInv'
    BY <1>2, <2>2 DEF Invite, Recover
  <2> QED BY <2>1, <2>2, <1>6, <1>7, <1>8, NamesAre
<1>10. ASSUME NEW u \in Users, AddPasskey(r, u) PROVE LinkInv'
  <2>1. Start(r, "register", u, None, "putRow", None)
    BY <1>10 DEF AddPasskey
  <2>2. /\ \A o \in Requests \ {r} : req'[o] = req[o]
        /\ req'[r].pc = "putRow" /\ req'[r].arg = None
    BY <2>1, StartIs, NamesAre
  <2>3. \A m, k \in Issuers : Spent(k, m)' => Spent(k, m)
    BY <1>1, <2>2, DirNames DEF Spent
  <2> QED BY <1>1, <2>2, <2>3, LinkStep
<1>11. CASE Tenant(r)
  BY <1>4, <1>5, <1>6, <1>10, <1>11, NamesAre DEF Tenant, SetPreferences
<1> QED BY <1>9, <1>11

LEMMA LinkMint ==
    ASSUME DirInv, DirInv', LinkInv, NEW r \in Requests, Mint(r)
    PROVE  LinkInv'
<1>1. /\ req[r].pc = "mint" /\ UNCHANGED passkey /\ Goto(r, "done") /\ r \in Issuers
      /\ link' = [link EXCEPT ![r] = [user |-> req[r].user, state |-> "unused"]]
  BY DirNames DEF Mint
<1>2. \A o \in Requests \ {r} : req'[o] = req[o]
  BY <1>1, GotoIs DEF Steps
<1>3. req'[r].pc = "done"
  BY <1>1, GotoIs DEF Steps
<1>4. \A l \in Issuers \ {r} : link'[l] = link[l]
  BY <1>1, ItemsAre
<1>5. link'[r].state = "unused" /\ link[r].state = "none"
  BY <1>1, ItemsAre DEF LinkInv
<1>6. \A l, k \in Issuers : Spent(k, l)' => Spent(k, l)
  BY <1>1, <1>2, <1>3 DEF Spent
<1> QED BY <1>2, <1>3, <1>4, <1>5, <1>6, LinkStep

LEMMA LinkBurn ==
    ASSUME DirInv, DirInv', LinkInv, NEW r \in Requests, BurnLink(r)
    PROVE  LinkInv'
<1>1. /\ req[r].pc = "burn" /\ UNCHANGED passkey /\ req[r].arg \in Issuers /\ r \in Issuers
  BY ReqIs, DirNames DEF BurnLink, Sound
<1>2. PICK l \in Issuers : l = req[r].arg
  BY <1>1
<1>3. CASE ~NotUsed(l)
  <2>1. UNCHANGED link /\ Goto(r, "done")
    BY <1>2, <1>3 DEF BurnLink
  <2>2. /\ \A o \in Requests \ {r} : req'[o] = req[o]
        /\ req'[r].pc = "done"
    BY <2>1, GotoIs, NamesAre
  <2> QED BY <1>1, <2>1, <2>2, LinkQuiet
<1>4. CASE NotUsed(l)
  <2>1. link' = [link EXCEPT ![l].state = "used"] /\ Goto(r, "putRow")
    BY <1>2, <1>4 DEF BurnLink
  <2>2. /\ \A o \in Requests \ {r} : req'[o] = req[o]
        /\ req'[r].pc = "putRow" /\ req'[r].arg = l
    BY <1>2, <2>1, GotoIs DEF Steps
  <2>3. link'[l].state = "used" /\ \A m \in Issuers \ {l} : link'[m] = link[m]
    BY <2>1, ItemsAre DEF Links
  <2>4. \A k \in Issuers : ~Spent(k, l)
    BY <1>4 DEF LinkInv, NotUsed
  <2>5. \A m, k \in Issuers : Spent(k, m)' => Spent(k, m) \/ (k = r /\ m = l)
    BY <1>1, <2>2 DEF Spent
  <2>6. \A m, k \in Issuers : Spent(k, m)' => link'[m].state = "used"
    BY <2>3, <2>5 DEF LinkInv
  <2>7. ASSUME NEW m \in Issuers, NEW k \in Issuers, NEW n \in Issuers, Spent(k, m)', Spent(n, m)'
        PROVE  k = n
    BY <2>4, <2>5, <2>7 DEF LinkInv
  <2>8. ASSUME NEW o \in Requests
        PROVE  /\ req'[o].pc \in {"idle", "mint"} => link'[o].state = "none"
               /\ req'[o].pc \in {"redeem", "burn"} => link'[req'[o].arg].state # "none"
    <3>1. CASE o = r
      BY <2>2, <3>1
    <3>2. CASE o # r
      <4>1. o \in Issuers /\ (req[o].pc \in {"redeem", "burn"} => req[o].arg \in Issuers)
        BY DirNames, ReqIs DEF Sound
      <4>2. link[l].state # "none"
        BY <1>1, <1>2 DEF LinkInv
      <4> QED BY <2>2, <2>3, <3>2, <4>1, <4>2 DEF LinkInv
    <3> QED BY <3>1, <3>2
  <2> QED BY <2>6, <2>7, <2>8 DEF LinkInv
<1> QED BY <1>2, <1>3, <1>4

LEMMA LinkContinue ==
    ASSUME DirInv, DirInv', LinkInv, NEW r \in Requests, Continue(r) \/ Stop(r)
    PROVE  LinkInv'
<1>1. CASE ReadLink(r)
  <2>1. UNCHANGED <<link, passkey>> /\ req[r].pc = "redeem"
    BY <1>1 DEF ReadLink, items
  <2>2. PICK pc \in {"burn", "done"} : Goto(r, pc)
    BY <1>1 DEF ReadLink
  <2>3. /\ \A o \in Requests \ {r} : req'[o] = req[o]
        /\ req'[r].pc = pc /\ req'[r].arg = req[r].arg
    BY <2>2, GotoIs DEF Steps
  <2>4. \A l, k \in Issuers : Spent(k, l)' => Spent(k, l)
    BY <2>1, <2>3 DEF Spent
  <2>5. link[req[r].arg].state # "none"
    BY <2>1 DEF LinkInv
  <2> QED BY <2>1, <2>3, <2>4, <2>5, LinkStep
<1>2. CASE PutRow(r)
  <2>1. /\ req[r].pc = "putRow" /\ UNCHANGED link /\ Goto(r, "putIndex") /\ req[r].arg \in Issuers \cup {None}
        /\ r \in Issuers
        /\ passkey' = [passkey EXCEPT ![r].row = req[r].user, ![r].from = req[r].arg]
    BY <1>2, ReqIs, DirNames DEF PutRow, Sound
  <2>2. /\ \A o \in Requests \ {r} : req'[o] = req[o]
        /\ req'[r].pc = "putIndex"
    BY <2>1, GotoIs DEF Steps
  <2>3. passkey'[r].from = req[r].arg /\ \A k \in Issuers \ {r} : passkey'[k] = passkey[k]
    BY <2>1, ItemsAre DEF Keys
  <2>4. \A l, k \in Issuers : Spent(k, l)' => Spent(k, l)
    BY <2>1, <2>2, <2>3 DEF Spent
  <2> QED BY <2>1, <2>2, <2>4, LinkStep
<1>3. CASE PutIndex(r) \/ DropIndex(r) \/ DropRow(r)
  <2>1. UNCHANGED link
    BY <1>3 DEF PutIndex, DropIndex, DropRow
  <2>2. \A k \in Issuers : passkey'[k].from = passkey[k].from
    <3>1. PutIndex(r) => \A k \in Issuers : passkey'[k].from = passkey[k].from
      BY ItemsAre DEF PutIndex, Keys
    <3>2. DropIndex(r) => \A k \in Issuers : passkey'[k].from = passkey[k].from
      BY ItemsAre DEF DropIndex, Keys
    <3>3. DropRow(r) => \A k \in Issuers : passkey'[k].from = passkey[k].from
      BY ItemsAre DEF DropRow, Keys
    <3> QED BY <1>3, <3>1, <3>2, <3>3
  <2>3. req'[r].pc \in {"done", "dropRow", "write", "dropProfile", "dropIndex"}
    BY <1>3, DropIndexIs, GotoIs DEF PutIndex, DropRow, Steps
  <2>4. Kept(r)
    BY <1>3, ContinueKeeps
  <2> QED BY <2>1, <2>2, <2>3, <2>4, LinkQuiet DEF Kept
<1>4. CASE \/ ReadProfile(r) \/ PutProfile(r) \/ LoseProfile(r) \/ ClaimPointer(r) \/ ListItems(r)
           \/ DropProfile(r) \/ ReadEmailClaim(r) \/ DropEmailClaim(r) \/ ReadTeamClaim(r)
           \/ DropTeamClaim(r) \/ Stop(r)
  <2>1. UNCHANGED <<link, passkey>>
    BY <1>4 DEF ReadProfile, PutProfile, LoseProfile, ClaimPointer, ListItems, DropProfile,
                ReadEmailClaim, DropEmailClaim, ReadTeamClaim, DropTeamClaim, Stop, items
  <2>2. \A o \in Requests \ {r} : req'[o] = req[o]
    BY <1>4, ContinueKeeps, ReadProfileIs DEF Kept
  <2> DEFINE Far == {"done", "write", "read", "dropProfile", "dropIndex"} \cup Releasing
  <2>3. ReadProfile(r) \/ ListItems(r) => req'[r].pc \in Far
    BY ReadProfileIs, ListItemsIs
  <2>4. LoseProfile(r) => req'[r].pc \in Far
    BY ReqIs DEF LoseProfile, Goto, Reqs
  <2>5. ~(ReadProfile(r) \/ ListItems(r) \/ LoseProfile(r)) => \E pc \in Far : Goto(r, pc)
    BY <1>4 DEF PutProfile, ClaimPointer, DropProfile, ReadEmailClaim, DropEmailClaim, ReadTeamClaim,
                DropTeamClaim, Stop, Releasing
  <2>6. req'[r].pc \in Far
    <3>1. \A pc \in Far : Goto(r, pc) => req'[r].pc = pc
      BY GotoIs DEF Steps
    <3> QED BY <2>3, <2>4, <2>5, <3>1
  <2> QED BY <2>1, <2>2, <2>6, LinkQuiet DEF Releasing
<1> QED BY <1>1, <1>2, <1>3, <1>4, LinkMint, LinkBurn DEF Continue

LEMMA LinkNext ==
    ASSUME DirInv, DirInv', LinkInv, Next
    PROVE  LinkInv'
<1>1. ASSUME NEW l \in Issuers, Expire(l) PROVE LinkInv'
  <2>1. UNCHANGED <<passkey, req>> /\ link[l].state = "unused" /\ link'[l].state = "expired"
        /\ \A m \in Issuers \ {l} : link'[m] = link[m]
    BY <1>1, ItemsAre DEF Expire, Links
  <2>2. \A m, k \in Issuers : Spent(k, m)' <=> Spent(k, m)
    BY <2>1 DEF Spent
  <2>3. \A r \in Requests : r \in Issuers /\ (req[r].pc \in {"redeem", "burn"} => req[r].arg \in Issuers)
    BY DirNames, ReqIs DEF Sound
  <2> QED BY <2>1, <2>2, <2>3 DEF LinkInv
<1> QED BY <1>1, LinkFirstSteps, LinkContinue DEF Next

LEMMA LinkStutter ==
    ASSUME LinkInv, UNCHANGED vars
    PROVE  LinkInv'
  BY DEF vars, LinkInv, Spent

LEMMA LinkInit == ASSUME Init PROVE LinkInv
<1>1. \A r \in Requests : req[r].pc = "idle"
  BY IdleIs DEF Init
<1>2. \A k \in Issuers : passkey[k].from = None
  BY DEF Init
<1>3. \A r \in Requests : link[r].state = "none"
  BY DirNames DEF Init
<1>4. \A l, k \in Issuers : ~Spent(k, l)
  BY <1>1, <1>2, DirNames DEF Spent
<1> QED BY <1>1, <1>3, <1>4 DEF LinkInv

\* One link yields one passkey, however many registrations race for it
\* (ddbuser.go RedeemEnrollment, webauthn.go handleAuthRegisterFinish).
THEOREM LinksAreSpentOnce == Spec => []LinkMintsOnePasskey
<1>1. Init => DirInv /\ LinkInv
  BY DirInit, LinkInit
<1>2. DirInv /\ LinkInv /\ [Next]_vars => (DirInv /\ LinkInv)'
  BY DirNext, DirStutter, LinkNext, LinkStutter
<1>3. LinkInv => LinkMintsOnePasskey
  <2> SUFFICES ASSUME LinkInv, NEW l \in Issuers
               PROVE  Cardinality({k \in Issuers : passkey[k].from = l}) <= 1
    BY DEF LinkMintsOnePasskey
  <2> DEFINE Made == {k \in Issuers : passkey[k].from = l}
  <2>1. \A k, m \in Made : k = m
    BY DEF LinkInv, Spent
  <2> HIDE DEF Made
  <2>2. Made = {} => Cardinality(Made) <= 1
    BY FS_EmptySet
  <2>3. Made # {} => Cardinality(Made) <= 1
    <3> SUFFICES ASSUME Made # {} PROVE Cardinality(Made) <= 1
      OBVIOUS
    <3>1. PICK k : Made = {k}
      BY <2>1
    <3> QED BY <3>1, FS_Singleton
  <2> QED BY <2>2, <2>3 DEF Made
<1> QED BY <1>1, <1>2, <1>3, PTL DEF Spec

-----------------------------------------------------------------------------
(* What keeps a claim, for a tenant whose claims and deletions neither         *)
(* overlapped nor stopped: its profile, or a request that has still to write   *)
(* the team into the profile or to release the claim.                          *)
Open(q) == q.pc \notin {"idle", "done"}
OwesEmail(q, e) == q.pc \in {"emailRead", "emailDrop"} /\ q.copy.email = e
OwesTeam(q, t) ==
    \/ q.op = "setTeam" /\ q.pc \in {"read", "write"} /\ q.arg = t
    \/ q.pc \in Releasing /\ q.copy.team = t

EmailKept(e, u) ==
    \/ u = None \/ u \in cut
    \/ profile[u] # None /\ profile[u].email = e
    \/ \E r \in Requests : req[r].user = u /\ OwesEmail(req[r], e)
TeamKept(t, u) ==
    \/ u = None \/ u \in cut
    \/ profile[u] # None /\ profile[u].team = t
    \/ \E r \in Requests : req[r].user = u /\ OwesTeam(req[r], t)

Alone ==
    \A r, o \in Requests :
        /\ Open(req[r]) /\ Open(req[o]) /\ req[r].user = req[o].user /\ req[r].user \notin cut
        /\ req[r].op \in {"setTeam", "delete"} /\ req[o].op \in {"setTeam", "delete"}
        => r = o

\* A team is claimed for a tenant that has no other, and a deletion knows the
\* team of the profile it is about to delete.
Bound(q) ==
    Open(q) /\ q.user \notin cut =>
        /\ q.op = "setTeam" => profile[q.user] # None /\ profile[q.user].team \in {None, q.arg}
        /\ q.op = "delete" /\ profile[q.user] # None
             => q.copy # None /\ q.copy.team = profile[q.user].team

BackInv ==
    /\ \A e \in Emails : EmailKept(e, emailClaim[e])
    /\ \A t \in Teams : TeamKept(t, teamClaim[t])
    /\ Alone
    /\ \A r \in Requests : Bound(req[r])

\* What a step of r may do to the profile of w.
ProfileTurns(r, w) ==
    \/ profile'[w] = profile[w]
    \/ w \notin minted
    \/ /\ profile[w] # None /\ profile'[w] # None
       /\ profile'[w].email = profile[w].email
       /\ \/ profile'[w].team = profile[w].team
          \/ /\ Open(req[r]) /\ req[r].user = w /\ req[r].op = "setTeam"
             /\ profile'[w].team = req[r].arg
    \/ /\ Open(req[r]) /\ req[r].user = w /\ req[r].op = "delete" /\ profile'[w] = None
       /\ \/ w \in cut
          \/ /\ req'[r].user = w /\ OwesEmail(req'[r], profile[w].email)
             /\ OwesTeam(req'[r], profile[w].team)

LEMMA BoundOn ==
    ASSUME DirInv, BackInv, NEW r \in Requests, NEW o \in Requests \ {r}, req'[o] = req[o],
           cut \subseteq cut', \A w \in Users : ProfileTurns(r, w)
    PROVE  Bound(req[o])'
<1> SUFFICES ASSUME Open(req[o]), req[o].user \notin cut'
             PROVE  Bound(req[o])'
  BY DEF Bound, Open
<1>1. PICK u \in minted : u = req[o].user
  BY ReqIs DEF Open
<1>2. u \in Users /\ u \notin cut /\ Bound(req[o])
  BY <1>1, ItemsAre DEF BackInv
<1>3. CASE req[o].op \in {"setTeam", "delete"}
  <2>1. ~(Open(req[r]) /\ req[r].user = u /\ req[r].op \in {"setTeam", "delete"})
    BY <1>1, <1>2, <1>3 DEF BackInv, Alone
  <2>2. \/ profile'[u] = profile[u]
        \/ profile[u] # None /\ profile'[u] # None /\ profile'[u].team = profile[u].team
    BY <1>1, <1>2, <2>1 DEF ProfileTurns
  <2> QED BY <1>1, <1>2, <2>2 DEF Bound
<1>4. CASE req[o].op \notin {"setTeam", "delete"}
  BY <1>4 DEF Bound
<1> QED BY <1>3, <1>4

LEMMA BackStep ==
    ASSUME DirInv, DirInv', BackInv, NEW r \in Requests, \A o \in Requests \ {r} : req'[o] = req[o],
           cut \subseteq cut',
           \A e \in Emails : emailClaim'[e] \in {None, emailClaim[e]} \/ EmailKept(e, emailClaim[e])',
           \A t \in Teams : teamClaim'[t] \in {None, teamClaim[t]} \/ TeamKept(t, teamClaim[t])',
           \A w \in Users : ProfileTurns(r, w),
           \A e \in Emails : OwesEmail(req[r], e) =>
               \/ req'[r].user = req[r].user /\ OwesEmail(req'[r], e)
               \/ req[r].user \in cut' \/ emailClaim'[e] # req[r].user,
           \A t \in Teams : OwesTeam(req[r], t) =>
               \/ req'[r].user = req[r].user /\ OwesTeam(req'[r], t)
               \/ req[r].user \in cut' \/ teamClaim'[t] # req[r].user
               \/ profile'[req[r].user] # None /\ profile'[req[r].user].team = t,
           Open(req'[r]) /\ req'[r].op \in {"setTeam", "delete"} =>
               \/ Open(req[r]) /\ req'[r].user = req[r].user /\ req'[r].op = req[r].op
               \/ req'[r].user \in cut'
               \/ \A o \in Requests \ {r} : Open(req[o]) /\ req[o].op \in {"setTeam", "delete"}
                                            => req[o].user # req'[r].user,
           Bound(req[r])'
    PROVE  BackInv'
<1>1. ASSUME NEW e \in Emails PROVE EmailKept(e, emailClaim[e])'
  <2> SUFFICES ASSUME emailClaim'[e] = emailClaim[e], emailClaim[e] # None, emailClaim[e] \notin cut'
               PROVE  EmailKept(e, emailClaim[e])'
    BY DEF EmailKept
  <2>1. PICK u \in Users : u = emailClaim[e]
    BY ItemsAre DEF Holders
  <2>2. u \notin cut /\ EmailKept(e, u)
    BY <2>1 DEF BackInv
  <2>3. CASE profile[u] # None /\ profile[u].email = e
    <3>1. CASE profile'[u] # None /\ profile'[u].email = e
      BY <2>1, <3>1 DEF EmailKept
    <3>2. CASE req'[r].user = u /\ OwesEmail(req'[r], e)
      BY <2>1, <3>2 DEF EmailKept
    <3> QED BY <2>2, <2>3, <3>1, <3>2, ItemsAre DEF ProfileTurns
  <2>4. ASSUME NEW o \in Requests, req[o].user = u, OwesEmail(req[o], e)
        PROVE  EmailKept(e, emailClaim[e])'
    <3>1. CASE o # r
      BY <2>1, <2>4, <3>1 DEF EmailKept
    <3>2. CASE o = r
      BY <2>1, <2>4, <3>2 DEF EmailKept
    <3> QED BY <3>1, <3>2
  <2> QED BY <2>1, <2>2, <2>3, <2>4, DirNames DEF EmailKept
<1>2. ASSUME NEW t \in Teams PROVE TeamKept(t, teamClaim[t])'
  <2> SUFFICES ASSUME teamClaim'[t] = teamClaim[t], teamClaim[t] # None, teamClaim[t] \notin cut'
               PROVE  TeamKept(t, teamClaim[t])'
    BY DEF TeamKept
  <2>1. PICK u \in Users : u = teamClaim[t]
    BY ItemsAre DEF Holders
  <2>2. u \notin cut /\ TeamKept(t, u)
    BY <2>1 DEF BackInv
  <2>3. CASE profile[u] # None /\ profile[u].team = t
    <3>1. CASE profile'[u] # None /\ profile'[u].team = t
      BY <2>1, <3>1 DEF TeamKept
    <3>2. CASE req'[r].user = u /\ OwesTeam(req'[r], t)
      BY <2>1, <3>2 DEF TeamKept
    <3>3. CASE /\ Open(req[r]) /\ req[r].user = u /\ req[r].op = "setTeam" /\ profile'[u] # None
               /\ profile'[u].team = req[r].arg
      <4>1. Bound(req[r])
        BY DEF BackInv
      <4> QED BY <2>2, <2>3, <3>1, <3>3, <4>1, DirNames DEF Bound
    <3> QED BY <2>2, <2>3, <3>1, <3>2, <3>3, ItemsAre DEF ProfileTurns
  <2>4. ASSUME NEW o \in Requests, req[o].user = u, OwesTeam(req[o], t)
        PROVE  TeamKept(t, teamClaim[t])'
    <3>1. CASE o # r
      BY <2>1, <2>4, <3>1 DEF TeamKept
    <3>2. CASE o = r
      BY <2>1, <2>4, <3>2 DEF TeamKept
    <3> QED BY <3>1, <3>2
  <2> QED BY <2>1, <2>2, <2>3, <2>4, DirNames DEF TeamKept
<1>3. Alone'
  <2> SUFFICES ASSUME NEW o \in Requests, NEW s \in Requests, o # s, Open(req'[o]), Open(req'[s]),
                      req'[o].user = req'[s].user, req'[o].user \notin cut',
                      req'[o].op \in {"setTeam", "delete"}, req'[s].op \in {"setTeam", "delete"}
               PROVE  FALSE
    BY DEF Alone, Open
  <2>1. ASSUME NEW x \in Requests, NEW y \in Requests, Open(req[x]), Open(req[y]),
               req[x].user = req[y].user, req[x].user \notin cut,
               req[x].op \in {"setTeam", "delete"}, req[y].op \in {"setTeam", "delete"}
        PROVE  x = y
    BY <2>1 DEF BackInv, Alone
  <2>2. CASE o = r
    BY <2>1, <2>2
  <2>3. CASE s = r
    BY <2>1, <2>3
  <2>4. CASE o # r /\ s # r
    BY <2>1, <2>4
  <2> QED BY <2>2, <2>3, <2>4
<1>4. ASSUME NEW o \in Requests PROVE Bound(req[o])'
  BY BoundOn
<1> QED BY <1>1, <1>2, <1>3, <1>4 DEF BackInv

\* A step that changes no profile and no claim.
LEMMA BackQuiet ==
    ASSUME DirInv, DirInv', BackInv, NEW r \in Requests, \A o \in Requests \ {r} : req'[o] = req[o],
           UNCHANGED <<profile, emailClaim, teamClaim>>, cut \subseteq cut',
           \A e \in Emails : OwesEmail(req[r], e) =>
               \/ req'[r].user = req[r].user /\ OwesEmail(req'[r], e)
               \/ req[r].user \in cut' \/ emailClaim[e] # req[r].user,
           \A t \in Teams : OwesTeam(req[r], t) =>
               \/ req'[r].user = req[r].user /\ OwesTeam(req'[r], t)
               \/ req[r].user \in cut' \/ teamClaim[t] # req[r].user,
           Open(req'[r]) /\ req'[r].op \in {"setTeam", "delete"} =>
               \/ Open(req[r]) /\ req'[r].user = req[r].user /\ req'[r].op = req[r].op
               \/ req'[r].user \in cut'
               \/ \A o \in Requests \ {r} : Open(req[o]) /\ req[o].op \in {"setTeam", "delete"}
                                            => req[o].user # req'[r].user,
           Bound(req[r])'
    PROVE  BackInv'
<1>1. \A w \in Users : ProfileTurns(r, w)
  BY DEF ProfileTurns
<1> QED BY <1>1, BackStep

LEMMA IdleOwesNothing ==
    ASSUME NEW r \in Requests, req[r] = Idle
    PROVE  /\ \A e : ~OwesEmail(req[r], e)
           /\ \A t : ~OwesTeam(req[r], t)
  BY IdleIs DEF OwesEmail, OwesTeam, Releasing

\* The first step of an operation that neither claims a team nor deletes.
LEMMA BackStart ==
    ASSUME DirInv, DirInv', BackInv, NEW r \in Requests, \A o \in Requests \ {r} : req'[o] = req[o],
           req[r] = Idle, req'[r].op \notin {"setTeam", "delete"},
           UNCHANGED <<profile, emailClaim, teamClaim>>, cut \subseteq cut'
    PROVE  BackInv'
<1>1. Bound(req[r])'
  BY DEF Bound
<1> QED BY <1>1, IdleOwesNothing, BackQuiet

LEMMA BackSetTeam ==
    ASSUME DirInv, DirInv', BackInv, NEW r \in Requests, NEW u \in Users, NEW t \in Teams,
           SetTeam(r, u, t)
    PROVE  BackInv'
<1>1. /\ Start(r, "setTeam", u, t, "claim", None) /\ req[r] = Idle
      /\ UNCHANGED <<profile, emailClaim, teamClaim>> /\ Exists(u) /\ profile[u].team \in {None, t}
      /\ cut' = IF Meets(u, {"setTeam", "delete"}) THEN cut \cup {u} ELSE cut
  BY DEF SetTeam, items, NoteOverlap, Interferes
<1>2. /\ \A o \in Requests \ {r} : req'[o] = req[o]
      /\ req'[r].pc = "claim" /\ req'[r].op = "setTeam" /\ req'[r].user = u /\ req'[r].arg = t
  BY <1>1, StartIs, NamesAre
<1>3. \/ u \in cut'
      \/ \A o \in Requests \ {r} : Open(req[o]) /\ req[o].op \in {"setTeam", "delete"}
                                   => req[o].user # u
  BY <1>1 DEF Meets, Active, Open
<1>4. Bound(req[r])' /\ cut \subseteq cut'
  BY <1>1, <1>2 DEF Bound, Exists
<1> QED BY <1>1, <1>2, <1>3, <1>4, IdleOwesNothing, BackQuiet

LEMMA BackDelete ==
    ASSUME DirInv, DirInv', BackInv, NEW r \in Requests, NEW u \in Users, Delete(r, u)
    PROVE  BackInv'
<1>1. PICK c \in Copies : c = profile[u]
  BY ItemsAre
<1>2. /\ Start(r, "delete", u, None, "list", c) /\ req[r] = Idle
      /\ UNCHANGED <<profile, emailClaim, teamClaim>>
      /\ cut' = IF Meets(u, {"setTeam", "register", "delete"}) THEN cut \cup {u} ELSE cut
  BY <1>1 DEF Delete, items, NoteOverlap, Interferes
<1>3. /\ \A o \in Requests \ {r} : req'[o] = req[o]
      /\ req'[r].pc = "list" /\ req'[r].op = "delete" /\ req'[r].user = u /\ req'[r].copy = c
  BY <1>2, StartIs, NamesAre
<1>4. \/ u \in cut'
      \/ \A o \in Requests \ {r} : Open(req[o]) /\ req[o].op \in {"setTeam", "delete"}
                                   => req[o].user # u
  BY <1>2 DEF Meets, Active, Open
<1>5. Bound(req[r])' /\ cut \subseteq cut'
  BY <1>1, <1>2, <1>3 DEF Bound
<1> QED BY <1>2, <1>3, <1>4, <1>5, IdleOwesNothing, BackQuiet

LEMMA BackInvite ==
    ASSUME DirInv, DirInv', BackInv, NEW r \in Requests, NEW u \in Users, NEW e \in Emails,
           NEW t \in Teams \cup {None}, Invite(r, u, e, t)
    PROVE  BackInv'
<1>1. /\ Start(r, "invite", u, None, "mint", None) /\ u \notin minted /\ req[r] = Idle
      /\ profile' = [profile EXCEPT ![u] = Store!NewProfile(e, t)]
      /\ emailClaim' = [emailClaim EXCEPT ![e] = u]
      /\ teamClaim' = [x \in Teams |-> IF x = t THEN u ELSE teamClaim[x]]
      /\ UNCHANGED cut
  BY DEF Invite, CreateUser
<1>2. /\ \A o \in Requests \ {r} : req'[o] = req[o]
      /\ req'[r].pc = "mint" /\ req'[r].op = "invite"
  BY <1>1, StartIs, NamesAre
<1>3. /\ \A x \in Emails : emailClaim'[x] = IF x = e THEN u ELSE emailClaim[x]
      /\ \A x \in Teams : teamClaim'[x] = IF x = t THEN u ELSE teamClaim[x]
      /\ \A w \in Users : profile'[w] = IF w = u THEN Store!NewProfile(e, t) ELSE profile[w]
  BY <1>1, ItemsAre
<1>4. profile'[u] # None /\ profile'[u].email = e /\ profile'[u].team = t
  <2>1. Store!NewProfile(e, t) \in Store!Profiles
    BY DEF Store!NewProfile, Store!Profiles, Store!Statuses, Store!Flags
  <2> QED BY <1>3, <2>1, DirNames DEF Store!NewProfile
<1>5. /\ \A x \in Emails : emailClaim'[x] \in {None, emailClaim[x]} \/ EmailKept(x, emailClaim[x])'
      /\ \A x \in Teams : teamClaim'[x] \in {None, teamClaim[x]} \/ TeamKept(x, teamClaim[x])'
  BY <1>3, <1>4 DEF EmailKept, TeamKept
<1>6. \A w \in Users : ProfileTurns(r, w)
  BY <1>1, <1>3 DEF ProfileTurns
<1>7. Bound(req[r])'
  BY <1>2 DEF Bound
<1> QED BY <1>1, <1>2, <1>5, <1>6, <1>7, IdleOwesNothing, BackStep

LEMMA BackFirstSteps ==
    ASSUME DirInv, DirInv', BackInv, NEW r \in Requests, Admin(r) \/ Tenant(r)
    PROVE  BackInv'
<1>1. ASSUME NEW u \in Users, NEW op \in {"setStatus", "setAuto", "setPrefs"}, NEW a \in Args,
             Mutate(r, op, u, a)
      PROVE  BackInv'
  <2>1. PICK c \in Copies : c = profile[u]
    BY ItemsAre
  <2>2. /\ Start(r, op, u, a, "write", c) /\ op \in Ops /\ req[r] = Idle
        /\ UNCHANGED <<profile, emailClaim, teamClaim, cut>>
    BY <1>1, <2>1, NamesAre DEF Mutate, items
  <2>3. /\ \A o \in Requests \ {r} : req'[o] = req[o]
        /\ req'[r].op = op
    BY <2>2, StartIs, NamesAre
  <2> QED BY <2>2, <2>3, BackStart
<1>2. ASSUME NEW u \in Users, Recover(r, u) PROVE BackInv'
  <2>1. /\ Start(r, "recover", u, None, "mint", None) /\ req[r] = Idle
        /\ UNCHANGED <<profile, emailClaim, teamClaim, cut>>
    BY <1>2 DEF Recover, items
  <2>2. /\ \A o \in Requests \ {r} : req'[o] = req[o]
        /\ req'[r].op = "recover"
    BY <2>1, StartIs, NamesAre
  <2> QED BY <2>1, <2>2, BackStart
<1>3. ASSUME NEW l \in Issuers, RegisterPasskey(r, l) PROVE BackInv'
  <2>1. PICK u \in Users : u = link[l].user
    BY <1>3, ItemsAre DEF RegisterPasskey, Usable
  <2>2. /\ Start(r, "register", u, l, "redeem", None) /\ req[r] = Idle /\ cut \subseteq cut'
        /\ UNCHANGED <<profile, emailClaim, teamClaim>>
    BY <1>3, <2>1 DEF RegisterPasskey, items, NoteOverlap
  <2>3. /\ \A o \in Requests \ {r} : req'[o] = req[o]
        /\ req'[r].op = "register"
    BY <2>2, StartIs, NamesAre
  <2> QED BY <2>2, <2>3, BackStart
<1>4. ASSUME NEW u \in Users, NEW k \in Issuers, Revoke(r, u, k) PROVE BackInv'
  <2>1. req[r] = Idle /\ cut \subseteq cut' /\ UNCHANGED <<profile, emailClaim, teamClaim>>
    BY <1>4 DEF Revoke, items, NoteOverlap
  <2> QED BY <1>4, <2>1, RevokeIs, BackStart
<1>5. CASE Admin(r)
  <2>1. PICK u \in Users :
          \/ \E e \in Emails, t \in Teams \cup {None} : Invite(r, u, e, t)
          \/ Recover(r, u)
          \/ \E t \in Teams : SetTeam(r, u, t)
          \/ \E s \in Store!Statuses : Mutate(r, "setStatus", u, s)
          \/ \E f \in Store!Flags : Mutate(r, "setAuto", u, f)
          \/ Delete(r, u)
    BY <1>5 DEF Admin, SetStatus, SetAutoApply
  <2> QED BY <2>1, <1>1, <1>2, BackInvite, BackSetTeam, BackDelete, NamesAre
<1>6. ASSUME NEW u \in Users, AddPasskey(r, u) PROVE BackInv'
  <2>1. /\ Start(r, "register", u, None, "putRow", None) /\ req[r] = Idle /\ cut \subseteq cut'
        /\ UNCHANGED <<profile, emailClaim, teamClaim>>
    BY <1>6 DEF AddPasskey, items, NoteOverlap
  <2>2. /\ \A o \in Requests \ {r} : req'[o] = req[o]
        /\ req'[r].op = "register"
    BY <2>1, StartIs, NamesAre
  <2> QED BY <2>1, <2>2, BackStart
<1>7. CASE Tenant(r)
  BY <1>1, <1>3, <1>4, <1>6, <1>7, NamesAre DEF Tenant, SetPreferences
<1> QED BY <1>5, <1>7

\* A step of a request under way that leaves the profiles and claims alone.
LEMMA BackKept ==
    ASSUME DirInv, DirInv', BackInv, NEW r \in Requests, Continue(r) \/ Stop(r),
           \A o \in Requests \ {r} : req'[o] = req[o], req'[r].op = req[r].op,
           req'[r].user = req[r].user, req'[r].copy = req[r].copy \/ req[r].op # "delete",
           req'[r].arg = req[r].arg \/ req[r].op # "setTeam",
           UNCHANGED <<profile, emailClaim, teamClaim>>, cut \subseteq cut',
           \A e \in Emails : OwesEmail(req[r], e) =>
               OwesEmail(req'[r], e) \/ req[r].user \in cut' \/ emailClaim[e] # req[r].user,
           \A t \in Teams : OwesTeam(req[r], t) =>
               OwesTeam(req'[r], t) \/ req[r].user \in cut' \/ teamClaim[t] # req[r].user
    PROVE  BackInv'
<1>1. Open(req[r])
  BY ContinueIsOn DEF Open
<1>2. Bound(req[r])'
  BY <1>1 DEF Bound, BackInv
<1> QED BY <1>1, <1>2, BackQuiet

LEMMA BackElsewhere ==
    ASSUME DirInv, DirInv', BackInv, NEW r \in Requests,
           \/ Mint(r) \/ ReadLink(r) \/ BurnLink(r) \/ PutRow(r) \/ PutIndex(r)
           \/ ListItems(r) \/ DropIndex(r) \/ DropRow(r)
    PROVE  BackInv'
<1>1. Kept(r) /\ Continue(r)
  BY ContinueKeeps DEF Continue
<1>2. UNCHANGED <<profile, emailClaim, teamClaim, cut>>
  BY DEF Mint, ReadLink, BurnLink, PutRow, PutIndex, ListItems, DropIndex, DropRow, items
<1>3. req[r].pc \in {"mint", "redeem", "burn", "putRow", "putIndex", "list", "dropIndex", "dropRow"}
  BY DEF Mint, ReadLink, BurnLink, PutRow, PutIndex, ListItems, DropIndex, DropRow
<1>4. req[r].op # "setTeam"
  BY <1>3, ReqIs DEF Sound
<1>5. /\ \A e \in Emails : ~OwesEmail(req[r], e)
      /\ \A t \in Teams : ~OwesTeam(req[r], t)
  BY <1>3 DEF OwesEmail, OwesTeam, Releasing
<1> QED BY <1>1, <1>2, <1>4, <1>5, BackKept DEF Kept

LEMMA BackReadProfile ==
    ASSUME DirInv, DirInv', BackInv, NEW r \in Requests, ReadProfile(r)
    PROVE  BackInv'
<1>1. req[r].pc = "read" /\ UNCHANGED <<profile, emailClaim, teamClaim, cut>>
  BY DEF ReadProfile, items
<1>2. req[r].op # "delete" /\ Bound(req[r])
  BY <1>1, ReqIs DEF Sound, Writers, BackInv
<1>3. /\ \A e \in Emails : ~OwesEmail(req[r], e)
      /\ \A t \in Teams : OwesTeam(req[r], t) => OwesTeam(req'[r], t) \/ req[r].user \in cut
  BY <1>1, <1>2, ReadProfileIs DEF OwesEmail, OwesTeam, Releasing, Bound, Open, Exists
<1> QED BY <1>1, <1>2, <1>3, ReadProfileIs, BackKept DEF Continue

LEMMA BackLoseProfile ==
    ASSUME DirInv, DirInv', BackInv, NEW r \in Requests, LoseProfile(r)
    PROVE  BackInv'
<1>1. /\ req[r].pc = "write" /\ UNCHANGED <<profile, emailClaim, teamClaim>> /\ Kept(r)
  BY ContinueKeeps DEF LoseProfile, items
<1>2. /\ req'[r].arg = req[r].arg /\ cut \subseteq cut'
      /\ req'[r].pc = "read" \/ req[r].user \in cut'
  BY ReqIs DEF LoseProfile, Goto, Reqs
<1>3. /\ \A e \in Emails : ~OwesEmail(req[r], e)
      /\ \A t \in Teams : OwesTeam(req[r], t) => OwesTeam(req'[r], t) \/ req[r].user \in cut'
  BY <1>1, <1>2 DEF OwesEmail, OwesTeam, Releasing, Kept
<1> QED BY <1>1, <1>2, <1>3, BackKept DEF Continue, Kept

LEMMA BackStop ==
    ASSUME DirInv, DirInv', BackInv, NEW r \in Requests, Stop(r)
    PROVE  BackInv'
<1>1. /\ UNCHANGED <<profile, emailClaim, teamClaim>> /\ Kept(r) /\ cut \subseteq cut'
      /\ req[r].user \in cut'
  BY ContinueKeeps DEF Stop, items
<1>2. req'[r].arg = req[r].arg
  BY GotoIs, NamesAre DEF Stop
<1> QED BY <1>1, <1>2, BackKept DEF Kept

LEMMA BackReadClaim ==
    ASSUME DirInv, DirInv', BackInv, NEW r \in Requests, ReadEmailClaim(r) \/ ReadTeamClaim(r)
    PROVE  BackInv'
<1>1. /\ UNCHANGED <<profile, emailClaim, teamClaim, cut>> /\ Kept(r) /\ Continue(r)
  BY ContinueKeeps DEF ReadEmailClaim, ReadTeamClaim, items, Continue
<1>2. CASE ReadEmailClaim(r)
  <2>1. PICK pc \in {"emailDrop", "teamRead"} :
          Goto(r, pc) /\ (pc = "emailDrop" <=> emailClaim[req[r].copy.email] = req[r].user)
    BY <1>2 DEF ReadEmailClaim
  <2>2. req'[r].pc = pc /\ req'[r].arg = req[r].arg
    BY <2>1, GotoIs DEF Steps, Releasing
  <2>3. req[r].pc = "emailRead" /\ req[r].op = "delete"
    BY <1>2, ReqIs DEF ReadEmailClaim, Sound, Releasing
  <2>4. \A e \in Emails : OwesEmail(req[r], e) => OwesEmail(req'[r], e) \/ emailClaim[e] # req[r].user
    BY <1>1, <2>1, <2>2 DEF OwesEmail, Kept
  <2>5. \A t \in Teams : OwesTeam(req[r], t) => OwesTeam(req'[r], t)
    BY <1>1, <2>2, <2>3 DEF OwesTeam, Kept, Releasing
  <2> QED BY <1>1, <2>2, <2>4, <2>5, BackKept DEF Kept
<1>3. CASE ReadTeamClaim(r)
  <2>1. PICK pc \in {"teamDrop", "done"} :
          Goto(r, pc) /\ (pc = "teamDrop" <=> req[r].copy.team # None /\ teamClaim[req[r].copy.team] = req[r].user)
    BY <1>3 DEF ReadTeamClaim
  <2>2. req'[r].pc = pc /\ req'[r].arg = req[r].arg
    BY <2>1, GotoIs DEF Steps, Releasing
  <2>3. req[r].pc = "teamRead" /\ req[r].op = "delete"
    BY <1>3, ReqIs DEF ReadTeamClaim, Sound, Releasing
  <2>4. \A e \in Emails : ~OwesEmail(req[r], e)
    BY <2>3 DEF OwesEmail
  <2>5. \A t \in Teams : OwesTeam(req[r], t) => OwesTeam(req'[r], t) \/ teamClaim[t] # req[r].user
    BY <1>1, <2>1, <2>2, <2>3, DirNames DEF OwesTeam, Kept, Releasing
  <2> QED BY <1>1, <2>2, <2>4, <2>5, BackKept DEF Kept
<1> QED BY <1>2, <1>3

LEMMA BackDropClaim ==
    ASSUME DirInv, DirInv', BackInv, NEW r \in Requests, DropEmailClaim(r) \/ DropTeamClaim(r)
    PROVE  BackInv'
<1>1. /\ UNCHANGED <<profile, cut>> /\ Kept(r) /\ Open(req[r]) /\ req[r].op = "delete"
  BY ContinueKeeps, ReqIs DEF DropEmailClaim, DropTeamClaim, Open, Sound, Releasing
<1>2. Bound(req[r])'
  BY <1>1 DEF Bound, BackInv, Kept
<1>3. \A w \in Users : ProfileTurns(r, w)
  BY <1>1 DEF ProfileTurns
<1>4. CASE DropEmailClaim(r)
  <2>1. /\ req[r].pc = "emailDrop" /\ UNCHANGED teamClaim /\ Goto(r, "teamRead")
        /\ emailClaim' = [emailClaim EXCEPT ![req[r].copy.email] = None]
    BY <1>4 DEF DropEmailClaim
  <2>2. PICK e \in Emails : e = req[r].copy.email
    BY <2>1, ReqIs DEF Sound, Releasing, Store!Profiles
  <2>3. \A x \in Emails : emailClaim'[x] = IF x = e THEN None ELSE emailClaim[x]
    BY <2>1, <2>2, ItemsAre
  <2>4. req'[r].pc = "teamRead"
    BY <2>1, GotoIs DEF Steps, Releasing
  <2>5. req[r].user # None
    BY <1>1, ReqIs, DirNames DEF Open
  <2>6. \A x \in Emails : OwesEmail(req[r], x) => emailClaim'[x] # req[r].user
    BY <2>2, <2>3, <2>5 DEF OwesEmail
  <2>7. \A t \in Teams : OwesTeam(req[r], t) => OwesTeam(req'[r], t)
    BY <1>1, <2>1, <2>4 DEF OwesTeam, Kept, Releasing
  <2> QED BY <1>1, <1>2, <1>3, <2>1, <2>3, <2>6, <2>7, BackStep DEF Kept
<1>5. CASE DropTeamClaim(r)
  <2>1. /\ req[r].pc = "teamDrop" /\ UNCHANGED emailClaim
        /\ teamClaim' = [teamClaim EXCEPT ![req[r].copy.team] = None]
    BY <1>5 DEF DropTeamClaim
  <2>2. PICK t \in Teams : t = req[r].copy.team
    BY <2>1, ReqIs DEF Sound
  <2>3. \A x \in Teams : teamClaim'[x] = IF x = t THEN None ELSE teamClaim[x]
    BY <2>1, <2>2, ItemsAre
  <2>5. req[r].user # None
    BY <1>1, ReqIs, DirNames DEF Open
  <2>6. \A x \in Emails : ~OwesEmail(req[r], x)
    BY <2>1 DEF OwesEmail
  <2>7. \A x \in Teams : OwesTeam(req[r], x) => teamClaim'[x] # req[r].user
    BY <1>1, <2>1, <2>2, <2>3, <2>5 DEF OwesTeam
  <2> QED BY <1>1, <1>2, <1>3, <2>1, <2>3, <2>6, <2>7, BackStep DEF Kept
<1> QED BY <1>4, <1>5

LEMMA BackClaimPointer ==
    ASSUME DirInv, DirInv', BackInv, NEW r \in Requests, ClaimPointer(r)
    PROVE  BackInv'
<1>1. PICK u \in Users, t \in Teams : u = req[r].user /\ t = req[r].arg
  <2>1. req[r].pc = "claim"
    BY DEF ClaimPointer
  <2> QED BY <2>1, ReqIs DEF Sound
<1>2. /\ req[r].pc = "claim" /\ Kept(r) /\ UNCHANGED <<profile, emailClaim, cut>>
      /\ req'[r].arg = t /\ Open(req[r])
  BY <1>1, ContinueKeeps, GotoIs DEF ClaimPointer, Steps, Open
<1>3. Bound(req[r])'
  BY <1>1, <1>2 DEF Bound, BackInv, Kept
<1>4. /\ \A x \in Emails : ~OwesEmail(req[r], x)
      /\ \A x \in Teams : ~OwesTeam(req[r], x)
  BY <1>2 DEF OwesEmail, OwesTeam, Releasing
<1>5. \A w \in Users : ProfileTurns(r, w)
  BY <1>2 DEF ProfileTurns
<1>6. CASE Claimable(t, u)
  <2>1. teamClaim' = [teamClaim EXCEPT ![t] = u] /\ Goto(r, "read") /\ req[r].op = "setTeam"
    BY <1>1, <1>2, <1>6, ReqIs DEF ClaimPointer, Sound
  <2>2. OwesTeam(req'[r], t) /\ req'[r].user = u
    BY <1>1, <1>2, <2>1, GotoIs DEF OwesTeam, Kept, Steps
  <2>3. \A x \in Teams : teamClaim'[x] = IF x = t THEN u ELSE teamClaim[x]
    BY <2>1, ItemsAre
  <2>4. \A x \in Teams : teamClaim'[x] \in {None, teamClaim[x]} \/ TeamKept(x, teamClaim[x])'
    BY <2>2, <2>3 DEF TeamKept
  <2> QED BY <1>2, <1>3, <1>4, <1>5, <2>4, BackStep DEF Kept
<1>7. CASE ~Claimable(t, u)
  <2>1. UNCHANGED teamClaim
    BY <1>1, <1>7 DEF ClaimPointer
  <2> QED BY <1>2, <1>3, <1>4, <1>5, <2>1, BackStep DEF Kept
<1> QED BY <1>6, <1>7

LEMMA BackPutProfile ==
    ASSUME DirInv, DirInv', CopyInv, BackInv, NEW r \in Requests, PutProfile(r)
    PROVE  BackInv'
<1>1. PICK u \in Users : u = req[r].user
  BY WrittenIs
<1>2. /\ req[r].pc = "write" /\ Kept(r) /\ Goto(r, "done") /\ Open(req[r])
      /\ UNCHANGED <<emailClaim, teamClaim, cut>>
  BY ContinueKeeps DEF PutProfile, Open
<1>3. /\ Exists(u) /\ \A w \in Users \ {u} : profile'[w] = profile[w]
      /\ profile'[u] # None /\ profile'[u].email = profile[u].email
      /\ profile'[u].team = IF req[r].op = "setTeam" THEN req[r].arg ELSE profile[u].team
  BY <1>1, WrittenIs
<1>4. \A w \in Users : ProfileTurns(r, w)
  BY <1>1, <1>2, <1>3 DEF ProfileTurns, Exists
<1>5. ~Open(req'[r]) /\ Bound(req[r])'
  BY <1>2, GotoIs DEF Steps, Open, Bound
<1>6. \A x \in Emails : ~OwesEmail(req[r], x)
  BY <1>2 DEF OwesEmail
<1>7. \A x \in Teams : OwesTeam(req[r], x) => profile'[u].team = x
  BY <1>2, <1>3 DEF OwesTeam, Releasing
<1> QED BY <1>1, <1>2, <1>3, <1>4, <1>5, <1>6, <1>7, BackStep DEF Kept

\* The profile goes, and the deletion owes the claims it named.
LEMMA BackDropProfile ==
    ASSUME DirInv, DirInv', CopyInv, BackInv, NEW r \in Requests, DropProfile(r)
    PROVE  BackInv'
<1>1. /\ req[r].pc = "dropProfile" /\ Kept(r) /\ UNCHANGED <<emailClaim, teamClaim, cut>>
      /\ profile' = [profile EXCEPT ![req[r].user] = None] /\ Open(req[r]) /\ req[r].op = "delete"
  BY ContinueKeeps, ReqIs DEF DropProfile, Open, Sound
<1>2. PICK u \in Users : u = req[r].user
  BY <1>1, ReqIs
<1>3. \A w \in Users : profile'[w] = IF w = u THEN None ELSE profile[w]
  BY <1>1, <1>2, ItemsAre
<1>4. ASSUME u \notin cut, profile[u] # None
      PROVE  OwesEmail(req'[r], profile[u].email) /\ OwesTeam(req'[r], profile[u].team)
  <2>1. req[r].copy # None /\ req[r].copy.team = profile[u].team
    BY <1>1, <1>2, <1>4 DEF BackInv, Bound
  <2>2. req[r].copy.email = profile[u].email
    BY <1>2, <1>4, <2>1 DEF CopyInv, CopyHolds
  <2>3. req'[r].pc = "emailRead"
    BY <2>1, GotoIs DEF DropProfile, Steps, Releasing
  <2> QED BY <1>1, <2>1, <2>2, <2>3 DEF OwesEmail, OwesTeam, Kept, Releasing
<1>5. \A w \in Users : ProfileTurns(r, w)
  BY <1>1, <1>2, <1>3, <1>4 DEF ProfileTurns, Kept
<1>6. Bound(req[r])'
  BY <1>1, <1>2, <1>3 DEF Bound, Kept
<1>7. /\ \A x \in Emails : ~OwesEmail(req[r], x)
      /\ \A x \in Teams : ~OwesTeam(req[r], x)
  BY <1>1 DEF OwesEmail, OwesTeam, Releasing
<1> QED BY <1>1, <1>5, <1>6, <1>7, BackStep DEF Kept

LEMMA BackNext ==
    ASSUME DirInv, DirInv', CopyInv, BackInv, Next
    PROVE  BackInv'
<1>1. ASSUME NEW r \in Requests, Continue(r) PROVE BackInv'
  BY <1>1, BackElsewhere, BackReadProfile, BackLoseProfile, BackReadClaim, BackDropClaim,
     BackClaimPointer, BackPutProfile, BackDropProfile DEF Continue
<1>2. ASSUME NEW l \in Issuers, Expire(l) PROVE BackInv'
  BY <1>2 DEF Expire, BackInv, EmailKept, TeamKept, Alone, Bound
<1> QED BY <1>1, <1>2, BackFirstSteps, BackStop DEF Next

LEMMA BackStutter ==
    ASSUME BackInv, UNCHANGED vars
    PROVE  BackInv'
  BY DEF vars, BackInv, EmailKept, TeamKept, Alone, Bound

LEMMA BackInit == ASSUME Init PROVE BackInv
<1>1. PICK u \in Users, e \in Emails, t \in Teams \cup {None} :
        /\ profile = [w \in Users |-> IF w = u THEN Store!NewProfile(e, t) ELSE None]
        /\ emailClaim = [x \in Emails |-> IF x = e THEN u ELSE None]
        /\ teamClaim = [x \in Teams |-> IF x = t THEN u ELSE None]
        /\ req = [r \in Requests |-> Idle]
  BY DEF Init
<1>2. \A r \in Requests : ~Open(req[r])
  BY <1>1, IdleIs DEF Open
<1>3. profile[u] # None /\ profile[u].email = e /\ profile[u].team = t
  <2>1. Store!NewProfile(e, t) \in Store!Profiles
    BY DEF Store!NewProfile, Store!Profiles, Store!Statuses, Store!Flags
  <2> QED BY <1>1, <2>1, DirNames DEF Store!NewProfile
<1>4. /\ \A x \in Emails : EmailKept(x, emailClaim[x])
      /\ \A x \in Teams : TeamKept(x, teamClaim[x])
  BY <1>1, <1>3 DEF EmailKept, TeamKept
<1> QED BY <1>2, <1>4 DEF BackInv, Alone, Bound

-----------------------------------------------------------------------------
(* Which passkeys a deletion has still to find, for a tenant whose             *)
(* registrations and deletions neither overlapped nor stopped.                 *)
Registering == {"redeem", "burn", "putRow", "putIndex"}

\* The passkeys a deletion or a revocation has listed and not yet removed.
Left(q) == q.keys \cup IF q.pc = "dropRow" THEN {q.arg} ELSE {}

\* The passkey k made by a request is its tenant's, row before index, and the
\* tenant is there while it is being made.
Maker(k) ==
    LET q == req[k]
    IN  /\ passkey[k].row \in {None, q.user} /\ passkey[k].index \in {None, q.user}
        /\ passkey[k].row # None \/ passkey[k].index # None
             => q.op = "register" /\ q.pc \in {"putIndex", "done"}
        /\ q.pc = "putIndex" /\ q.user \notin cut => passkey[k].row = q.user
        /\ q.pc \in Registering /\ q.user \notin cut => profile[q.user] # None

\* A deletion or revocation removes finished passkeys only, and a deletion that
\* has listed its tenant's rows knows every one that is left.
Sweeper(q) ==
    Open(q) /\ q.user \notin cut /\ q.op \in {"delete", "revoke"} =>
        /\ \A k \in Left(q) : k \in Requests => req[k].pc = "done"
        /\ q.pc = "dropRow" => passkey[q.arg].index # q.user
        /\ q.op = "delete" =>
            /\ q.pc # "list" => \A k \in Issuers : passkey[k].row = q.user => k \in Left(q)
            /\ q.pc \in {"dropProfile"} \cup Releasing => Left(q) = {}
            /\ \A k \in Requests : Open(req[k]) /\ req[k].op = "register" => req[k].user # q.user

IndexFollows(k) ==
    \/ passkey[k].index = None \/ passkey[k].index \in cut
    \/ passkey[k].row = passkey[k].index

KeyInv ==
    /\ \A k \in Issuers : /\ IndexFollows(k)
                          /\ passkey[k].row \in minted \cup {None}
                          /\ passkey[k].index \in minted \cup {None}
    /\ \A k \in Requests : Maker(k)
    /\ \A u \in minted \ cut, k \in Issuers : profile[u] = None => passkey[k].row # u
    /\ \A r \in Requests : Sweeper(req[r])

\* What a step of r may add to a passkey: the row or the index of its own.
RowTurns(r, k) ==
    \/ passkey'[k].row \in {None, passkey[k].row}
    \/ k = r /\ passkey'[r].row = req[r].user /\ req[r].op = "register" /\ req[r].pc \in Registering
IndexTurns(r, k) ==
    \/ passkey'[k].index \in {None, passkey[k].index}
    \/ k = r /\ passkey'[r].index = req[r].user /\ Open(req[r])

LEMMA SweeperOn ==
    ASSUME DirInv, KeyInv, NEW r \in Requests, NEW o \in Requests \ {r},
           \A x \in Requests \ {r} : req'[x] = req[x], cut \subseteq cut', req[r].pc # "done",
           \A k \in Issuers : RowTurns(r, k) /\ IndexTurns(r, k),
           Open(req'[r]) /\ req'[r].op = "register" =>
               \/ Open(req[r]) /\ req'[r].user = req[r].user /\ req'[r].op = req[r].op
               \/ req'[r].user \in cut'
               \/ \A x \in Requests \ {r} : Open(req[x]) /\ req[x].op = "delete"
                                            => req[x].user # req'[r].user
    PROVE  Sweeper(req[o])'
<1> SUFFICES ASSUME Open(req[o]), req[o].user \notin cut', req[o].op \in {"delete", "revoke"}
             PROVE  Sweeper(req[o])'
  BY DEF Sweeper, Open
<1>1. PICK u \in minted : u = req[o].user
  BY ReqIs DEF Open
<1>2. u \notin cut /\ Sweeper(req[o]) /\ u # None /\ req'[o] = req[o]
  BY <1>1, ItemsAre, DirNames DEF KeyInv
<1>3. Left(req'[o]) = Left(req[o]) /\ r \notin Left(req[o])
  BY <1>1, <1>2 DEF Sweeper
<1>4. \A k \in Left(req[o]) : k \in Requests => req'[k].pc = "done"
  BY <1>1, <1>2, <1>3 DEF Sweeper
<1>5. req[o].pc = "dropRow" => passkey'[req[o].arg].index # u
  <2> SUFFICES ASSUME req[o].pc = "dropRow" PROVE passkey'[req[o].arg].index # u
    OBVIOUS
  <2>1. req[o].arg \in Issuers /\ req[o].arg \in Left(req[o])
    BY ReqIs DEF Sound, Left
  <2>2. req[o].arg # r /\ passkey[req[o].arg].index # u
    BY <1>1, <1>2, <1>3, <2>1 DEF Sweeper
  <2> QED BY <1>2, <2>1, <2>2 DEF IndexTurns
<1>6. CASE req[o].op = "delete"
  <2>1. \A k \in Requests : Open(req[k]) /\ req[k].op = "register" => req[k].user # u
    BY <1>1, <1>2, <1>6 DEF Sweeper
  <2>2. ASSUME NEW k \in Issuers, passkey'[k].row = u, req[o].pc # "list" PROVE k \in Left(req[o])
    <3>1. CASE passkey'[k].row = passkey[k].row
      BY <1>1, <1>2, <1>6, <2>2, <3>1 DEF Sweeper
    <3>2. CASE k = r /\ req[r].user = u /\ req[r].op = "register" /\ req[r].pc \in Registering
      BY <2>1, <3>2 DEF Registering, Open
    <3> QED BY <1>2, <2>2, <3>1, <3>2 DEF RowTurns
  <2>3. ASSUME NEW k \in Requests, Open(req'[k]), req'[k].op = "register" PROVE req'[k].user # u
    <3>1. CASE k = r
      BY <1>1, <1>6, <2>1, <2>3, <3>1
    <3>2. CASE k # r
      BY <2>1, <2>3, <3>2
    <3> QED BY <3>1, <3>2
  <2>4. req[o].pc \in {"dropProfile"} \cup Releasing => Left(req[o]) = {}
    BY <1>1, <1>2, <1>6 DEF Sweeper
  <2> QED BY <1>1, <1>2, <1>3, <1>4, <1>5, <2>2, <2>3, <2>4 DEF Sweeper
<1>7. CASE req[o].op # "delete"
  BY <1>1, <1>2, <1>3, <1>4, <1>5, <1>7 DEF Sweeper
<1> QED BY <1>6, <1>7

\* Who a step leaves without a profile.
ProfileGoes(w) ==
    profile'[w] = None =>
        \/ w \in minted /\ profile[w] = None
        \/ w \in cut'
        \/ /\ \A k \in Issuers : passkey'[k].row # w
           /\ \A o \in Requests : req'[o].pc \in Registering => req'[o].user # w

LEMMA KeyStep ==
    ASSUME DirInv, DirInv', KeyInv, NEW r \in Requests, \A o \in Requests \ {r} : req'[o] = req[o],
           cut \subseteq cut', minted \subseteq minted', req[r].pc # "done",
           \A k \in Issuers : RowTurns(r, k) /\ IndexTurns(r, k) /\ IndexFollows(k)',
           \A o \in Requests \ {r} :
               req[o].pc = "putIndex" /\ req[o].user \notin cut => passkey'[o].row = passkey[o].row,
           \A w \in minted' : ProfileGoes(w),
           Open(req'[r]) /\ req'[r].op = "register" =>
               \/ Open(req[r]) /\ req'[r].user = req[r].user /\ req'[r].op = req[r].op
               \/ req'[r].user \in cut'
               \/ \A x \in Requests \ {r} : Open(req[x]) /\ req[x].op = "delete"
                                            => req[x].user # req'[r].user,
           Maker(r)', Sweeper(req[r])'
    PROVE  KeyInv'
<1>1. ASSUME NEW k \in Issuers
      PROVE  passkey'[k].row \in minted' \cup {None} /\ passkey'[k].index \in minted' \cup {None}
  <2>1. req[r].pc \in Registering \/ Open(req[r]) => req[r].user \in minted
    BY ReqIs DEF Registering, Open
  <2> QED BY <2>1 DEF KeyInv, RowTurns, IndexTurns
<1>2. ASSUME NEW o \in Requests PROVE Maker(o)'
  <2>1. CASE o = r
    BY <2>1
  <2>2. CASE o # r
    <3>1. Maker(o) /\ req'[o] = req[o] /\ o \in Issuers
      BY <2>2, DirNames DEF KeyInv
    <3>2. /\ passkey'[o].row \in {None, passkey[o].row}
          /\ passkey'[o].index \in {None, passkey[o].index}
      BY <2>2, <3>1 DEF RowTurns, IndexTurns
    <3>3. req[o].pc \in Registering /\ req[o].user \notin cut' => profile'[req[o].user] # None
      <4> SUFFICES ASSUME req[o].pc \in Registering, req[o].user \notin cut'
                   PROVE  profile'[req[o].user] # None
        OBVIOUS
      <4>1. PICK w \in minted : w = req[o].user
        BY ReqIs DEF Registering
      <4>2. w \notin cut /\ profile[w] # None
        BY <3>1, <4>1 DEF Maker
      <4> QED BY <3>1, <4>1, <4>2 DEF ProfileGoes
    <3>4. req[o].pc = "putIndex" /\ req[o].user \notin cut' => passkey'[o].row = req[o].user
      BY <2>2, <3>1 DEF Maker
    <3> QED BY <3>1, <3>2, <3>3, <3>4 DEF Maker
  <2> QED BY <2>1, <2>2
<1>3. ASSUME NEW u \in minted' \ cut', NEW k \in Issuers, profile'[u] = None, passkey'[k].row = u
      PROVE  FALSE
  <2>1. u \in minted /\ profile[u] = None /\ u \notin cut
    BY <1>3 DEF ProfileGoes
  <2>2. passkey[k].row # u /\ u # None
    BY <2>1, ItemsAre, DirNames DEF KeyInv
  <2>3. req[r].user = u /\ req[r].pc \in Registering
    BY <1>3, <2>2 DEF RowTurns
  <2> QED BY <2>1, <2>3 DEF KeyInv, Maker
<1>4. ASSUME NEW o \in Requests PROVE Sweeper(req[o])'
  BY SweeperOn
<1> QED BY <1>1, <1>2, <1>3, <1>4 DEF KeyInv

\* A step that changes no passkey.
LEMMA KeyQuiet ==
    ASSUME DirInv, DirInv', KeyInv, NEW r \in Requests, \A o \in Requests \ {r} : req'[o] = req[o],
           UNCHANGED passkey, cut \subseteq cut', minted \subseteq minted', req[r].pc # "done",
           \A w \in minted' : ProfileGoes(w),
           Open(req'[r]) /\ req'[r].op = "register" =>
               \/ Open(req[r]) /\ req'[r].user = req[r].user /\ req'[r].op = req[r].op
               \/ req'[r].user \in cut'
               \/ \A x \in Requests \ {r} : Open(req[x]) /\ req[x].op = "delete"
                                            => req[x].user # req'[r].user,
           Maker(r)', Sweeper(req[r])'
    PROVE  KeyInv'
<1>1. \A k \in Issuers : RowTurns(r, k) /\ IndexTurns(r, k) /\ IndexFollows(k)'
  BY DEF RowTurns, IndexTurns, IndexFollows, KeyInv
<1> QED BY <1>1, KeyStep

LEMMA ProfileStays ==
    ASSUME UNCHANGED <<profile, minted>>
    PROVE  \A w \in minted' : ProfileGoes(w)
  BY DEF ProfileGoes

\* A request that has not begun has made no passkey.
LEMMA IdleMadeNone ==
    ASSUME KeyInv, NEW r \in Requests, req[r] = Idle
    PROVE  passkey[r].row = None /\ passkey[r].index = None /\ req[r].pc = "idle"
  BY IdleIs DEF KeyInv, Maker

\* The first step of an operation that has to do with no passkey.
LEMMA KeyStart ==
    ASSUME DirInv, DirInv', KeyInv, NEW r \in Requests, \A o \in Requests \ {r} : req'[o] = req[o],
           req[r] = Idle, req'[r].op \notin {"register", "delete", "revoke"},
           req'[r].pc \notin Registering,
           UNCHANGED passkey, cut \subseteq cut', minted \subseteq minted',
           \A w \in minted' : ProfileGoes(w)
    PROVE  KeyInv'
<1>1. Maker(r)' /\ Sweeper(req[r])'
  BY IdleMadeNone DEF Maker, Sweeper, Registering
<1> QED BY <1>1, IdleMadeNone, KeyQuiet

LEMMA KeyRegister ==
    ASSUME DirInv, DirInv', KeyInv, NEW r \in Requests, NEW l \in Issuers, RegisterPasskey(r, l)
    PROVE  KeyInv'
<1>1. PICK u \in minted : u = link[l].user
  BY ItemsAre DEF RegisterPasskey, Usable
<1>2. u \in Users
  BY ItemsAre
<1>3. /\ Start(r, "register", u, l, "redeem", None) /\ req[r] = Idle /\ profile[u] # None
      /\ cut' = IF Meets(u, {"delete"}) THEN cut \cup {u} ELSE cut
      /\ UNCHANGED <<profile, passkey, minted>>
  BY <1>1 DEF RegisterPasskey, items, NoteOverlap, Interferes, Exists
<1>4. /\ \A o \in Requests \ {r} : req'[o] = req[o]
      /\ req'[r].pc = "redeem" /\ req'[r].op = "register" /\ req'[r].user = u
  BY <1>2, <1>3, StartIs, NamesAre
<1>5. \/ u \in cut'
      \/ \A x \in Requests \ {r} : Open(req[x]) /\ req[x].op = "delete" => req[x].user # u
  BY <1>3 DEF Meets, Active, Open
<1>6. Maker(r)' /\ Sweeper(req[r])'
  BY <1>3, <1>4, IdleMadeNone DEF Maker, Sweeper
<1>7. cut \subseteq cut'
  BY <1>3
<1> QED BY <1>3, <1>4, <1>5, <1>6, <1>7, IdleMadeNone, ProfileStays, KeyQuiet

LEMMA KeyAdd ==
    ASSUME DirInv, DirInv', KeyInv, NEW r \in Requests, NEW u \in Users, AddPasskey(r, u)
    PROVE  KeyInv'
<1>1. /\ Start(r, "register", u, None, "putRow", None) /\ req[r] = Idle /\ profile[u] # None
      /\ cut' = IF Meets(u, {"delete"}) THEN cut \cup {u} ELSE cut
      /\ UNCHANGED <<profile, passkey, minted>>
  BY DEF AddPasskey, items, NoteOverlap, Interferes, Exists
<1>2. /\ \A o \in Requests \ {r} : req'[o] = req[o]
      /\ req'[r].pc = "putRow" /\ req'[r].op = "register" /\ req'[r].user = u
  BY <1>1, StartIs, NamesAre
<1>3. \/ u \in cut'
      \/ \A x \in Requests \ {r} : Open(req[x]) /\ req[x].op = "delete" => req[x].user # u
  BY <1>1 DEF Meets, Active, Open
<1>4. Maker(r)' /\ Sweeper(req[r])'
  BY <1>1, <1>2, IdleMadeNone DEF Maker, Sweeper
<1>5. cut \subseteq cut'
  BY <1>1
<1> QED BY <1>1, <1>2, <1>3, <1>4, <1>5, IdleMadeNone, ProfileStays, KeyQuiet

LEMMA KeyRevoke ==
    ASSUME DirInv, DirInv', KeyInv, NEW r \in Requests, NEW u \in Users, NEW k \in Issuers,
           Revoke(r, u, k)
    PROVE  KeyInv'
<1>1. /\ req[r] = Idle /\ passkey[k].row = u
      /\ cut' = IF Meets(u, {"register"}) THEN cut \cup {u} ELSE cut
      /\ UNCHANGED <<profile, passkey, minted>>
  BY DEF Revoke, items, NoteOverlap, Interferes
<1>2. /\ \A o \in Requests \ {r} : req'[o] = req[o]
      /\ req'[r].pc = "dropIndex" /\ req'[r].op = "revoke" /\ req'[r].user = u /\ req'[r].keys = {k}
  BY RevokeIs
<1>3. Maker(r)'
  BY <1>1, <1>2, IdleMadeNone DEF Maker, Registering
<1>4. u \notin cut' => (k \in Requests => req'[k].pc = "done")
  <2> SUFFICES ASSUME u \notin cut', k \in Requests PROVE req'[k].pc = "done"
    OBVIOUS
  <2>1. u # None /\ Maker(k)
    BY DirNames DEF KeyInv
  <2>2. req[k].user = u /\ req[k].op = "register" /\ req[k].pc \in {"putIndex", "done"} /\ k # r
    BY <1>1, <2>1, IdleMadeNone DEF Maker
  <2>3. ~Open(req[k])
    BY <1>1, <2>2 DEF Meets, Active, Open
  <2> QED BY <1>2, <2>2, <2>3 DEF Open
<1>5. Sweeper(req[r])'
  BY <1>2, <1>4 DEF Sweeper, Left
<1> QED BY <1>1, <1>2, <1>3, <1>5, IdleMadeNone, ProfileStays, KeyQuiet

LEMMA KeyDelete ==
    ASSUME DirInv, DirInv', KeyInv, NEW r \in Requests, NEW u \in Users, Delete(r, u)
    PROVE  KeyInv'
<1>1. PICK c \in Copies : c = profile[u]
  BY ItemsAre
<1>2. /\ Start(r, "delete", u, None, "list", c) /\ req[r] = Idle
      /\ cut' = IF Meets(u, {"setTeam", "register", "delete"}) THEN cut \cup {u} ELSE cut
      /\ UNCHANGED <<profile, passkey, minted>>
  BY <1>1 DEF Delete, items, NoteOverlap, Interferes
<1>3. /\ \A o \in Requests \ {r} : req'[o] = req[o]
      /\ req'[r].pc = "list" /\ req'[r].op = "delete" /\ req'[r].user = u /\ req'[r].keys = {}
  BY <1>2, StartIs, NamesAre
<1>4. Maker(r)'
  BY <1>2, <1>3, IdleMadeNone DEF Maker, Registering
<1>5. u \notin cut' => \A k \in Requests : Open(req'[k]) /\ req'[k].op = "register" => req'[k].user # u
  BY <1>2, <1>3 DEF Meets, Active, Open
<1>6. Sweeper(req[r])'
  BY <1>3, <1>5 DEF Sweeper, Left, Releasing, Open
<1> QED BY <1>2, <1>3, <1>4, <1>6, IdleMadeNone, ProfileStays, KeyQuiet

LEMMA KeyFirstSteps ==
    ASSUME DirInv, DirInv', KeyInv, NEW r \in Requests, Admin(r) \/ Tenant(r)
    PROVE  KeyInv'
<1>1. ASSUME NEW u \in Users, NEW op \in {"setStatus", "setAuto", "setPrefs"}, NEW a \in Args,
             Mutate(r, op, u, a)
      PROVE  KeyInv'
  <2>1. PICK c \in Copies : c = profile[u]
    BY ItemsAre
  <2>2. /\ Start(r, op, u, a, "write", c) /\ op \in Ops /\ req[r] = Idle
        /\ UNCHANGED <<profile, passkey, minted, cut>>
    BY <1>1, <2>1, NamesAre DEF Mutate, items
  <2>3. /\ \A o \in Requests \ {r} : req'[o] = req[o]
        /\ req'[r].op = op /\ req'[r].pc = "write"
    BY <2>2, StartIs, NamesAre
  <2> QED BY <2>2, <2>3, ProfileStays, KeyStart DEF Registering
<1>2. ASSUME NEW u \in Users, Recover(r, u) PROVE KeyInv'
  <2>1. /\ Start(r, "recover", u, None, "mint", None) /\ req[r] = Idle
        /\ UNCHANGED <<profile, passkey, minted, cut>>
    BY <1>2 DEF Recover, items
  <2>2. /\ \A o \in Requests \ {r} : req'[o] = req[o]
        /\ req'[r].op = "recover" /\ req'[r].pc = "mint"
    BY <2>1, StartIs, NamesAre
  <2> QED BY <2>1, <2>2, ProfileStays, KeyStart DEF Registering
<1>3. ASSUME NEW u \in Users, NEW t \in Teams, SetTeam(r, u, t) PROVE KeyInv'
  <2>1. /\ Start(r, "setTeam", u, t, "claim", None) /\ req[r] = Idle /\ cut \subseteq cut'
        /\ UNCHANGED <<profile, passkey, minted>>
    BY <1>3 DEF SetTeam, items, NoteOverlap
  <2>2. /\ \A o \in Requests \ {r} : req'[o] = req[o]
        /\ req'[r].op = "setTeam" /\ req'[r].pc = "claim"
    BY <2>1, StartIs, NamesAre
  <2> QED BY <2>1, <2>2, ProfileStays, KeyStart DEF Registering
<1>4. ASSUME NEW u \in Users, NEW e \in Emails, NEW t \in Teams \cup {None}, Invite(r, u, e, t)
      PROVE  KeyInv'
  <2>1. /\ Start(r, "invite", u, None, "mint", None) /\ u \notin minted /\ req[r] = Idle
        /\ profile' = [profile EXCEPT ![u] = Store!NewProfile(e, t)] /\ minted' = minted \cup {u}
        /\ UNCHANGED <<passkey, cut>>
    BY <1>4 DEF Invite, CreateUser
  <2>2. /\ \A o \in Requests \ {r} : req'[o] = req[o]
        /\ req'[r].op = "invite" /\ req'[r].pc = "mint"
    BY <2>1, StartIs, NamesAre
  <2>3. Store!NewProfile(e, t) # None
    BY DirNames DEF Store!NewProfile, Store!Profiles, Store!Statuses, Store!Flags
  <2>4. \A w \in minted' : ProfileGoes(w)
    BY <2>1, <2>3, ItemsAre DEF ProfileGoes
  <2> QED BY <2>1, <2>2, <2>4, KeyStart DEF Registering
<1>5. CASE Admin(r)
  <2>1. PICK u \in Users :
          \/ \E e \in Emails, t \in Teams \cup {None} : Invite(r, u, e, t)
          \/ Recover(r, u)
          \/ \E t \in Teams : SetTeam(r, u, t)
          \/ \E s \in Store!Statuses : Mutate(r, "setStatus", u, s)
          \/ \E f \in Store!Flags : Mutate(r, "setAuto", u, f)
          \/ Delete(r, u)
    BY <1>5 DEF Admin, SetStatus, SetAutoApply
  <2> QED BY <2>1, <1>1, <1>2, <1>3, <1>4, KeyDelete, NamesAre
<1>6. CASE Tenant(r)
  BY <1>1, <1>6, KeyRegister, KeyAdd, KeyRevoke, NamesAre DEF Tenant, SetPreferences
<1> QED BY <1>5, <1>6

\* A step of a request under way that changes no passkey and lists none.
LEMMA KeyKept ==
    ASSUME DirInv, DirInv', KeyInv, NEW r \in Requests, Continue(r) \/ Stop(r),
           \A o \in Requests \ {r} : req'[o] = req[o], req'[r].op = req[r].op,
           req'[r].user = req[r].user, req'[r].keys = req[r].keys,
           UNCHANGED <<passkey, minted>>, cut \subseteq cut', \A w \in minted : ProfileGoes(w),
           \/ req'[r].pc = "done"
           \/ /\ req[r].pc \in {"redeem", "burn"} /\ req'[r].pc \in {"burn", "putRow"}
              /\ UNCHANGED profile
           \/ req[r].pc \in {"mint", "read", "write", "claim"} /\ req'[r].pc \in {"read", "write"}
           \/ /\ req[r].pc \in {"dropProfile"} \cup Releasing /\ req'[r].pc \in Releasing
    PROVE  KeyInv'
<1>1. Open(req[r]) /\ req[r].pc # "done"
  BY ContinueIsOn DEF Open
<1>2. Maker(r)'
  BY <1>1 DEF KeyInv, Maker, Registering, Releasing, Open
<1>3. Sweeper(req[r])'
  <2> SUFFICES ASSUME Open(req'[r]), req[r].user \notin cut', req[r].op \in {"delete", "revoke"}
               PROVE  Sweeper(req[r])'
    BY DEF Sweeper
  <2>1. req[r].pc \notin {"dropRow", "list"} /\ req'[r].pc # "dropRow"
    BY DEF Releasing, Open
  <2>2. Left(req'[r]) = Left(req[r]) /\ Sweeper(req[r]) /\ req[r].user \notin cut
    BY <2>1 DEF Left, KeyInv
  <2>3. \A k \in Left(req[r]) : k \in Requests => req'[k].pc = "done"
    BY <1>1, <2>2 DEF Sweeper
  <2>4. req'[r].pc \in {"dropProfile"} \cup Releasing => req[r].pc \in {"dropProfile"} \cup Releasing
    BY DEF Releasing, Open
  <2>5. CASE req[r].op = "delete"
    <3>1. \A k \in Requests : Open(req'[k]) /\ req'[k].op = "register" => req'[k].user # req[r].user
      BY <1>1, <2>2, <2>5 DEF Sweeper
    <3>2. \A k \in Issuers : passkey[k].row = req[r].user => k \in Left(req[r])
      BY <1>1, <2>1, <2>2, <2>5 DEF Sweeper
    <3>3. req[r].pc \in {"dropProfile"} \cup Releasing => Left(req[r]) = {}
      BY <1>1, <2>2, <2>5 DEF Sweeper
    <3> QED BY <2>1, <2>2, <2>3, <2>4, <3>1, <3>2, <3>3 DEF Sweeper
  <2>6. CASE req[r].op # "delete"
    BY <2>1, <2>2, <2>3, <2>6 DEF Sweeper
  <2> QED BY <2>5, <2>6
<1> QED BY <1>1, <1>2, <1>3, KeyQuiet

LEMMA KeyEasySteps ==
    ASSUME DirInv, DirInv', KeyInv, NEW r \in Requests,
           \/ Mint(r) \/ ReadLink(r) \/ BurnLink(r) \/ ClaimPointer(r) \/ ReadEmailClaim(r)
           \/ DropEmailClaim(r) \/ ReadTeamClaim(r) \/ DropTeamClaim(r) \/ Stop(r)
    PROVE  KeyInv'
<1>1. Kept(r) /\ (Continue(r) \/ Stop(r))
  BY ContinueKeeps DEF Continue
<1>2. UNCHANGED <<profile, passkey, minted>> /\ cut \subseteq cut'
  BY DEF Mint, ReadLink, BurnLink, ClaimPointer, ReadEmailClaim, DropEmailClaim, ReadTeamClaim,
         DropTeamClaim, Stop, items
<1>3. PICK pc \in {"done", "burn", "putRow", "read"} \cup Releasing :
        /\ Goto(r, pc)
        /\ \/ pc = "done"
           \/ req[r].pc \in {"redeem", "burn"} /\ pc \in {"burn", "putRow"}
           \/ req[r].pc = "claim" /\ pc = "read"
           \/ req[r].pc \in Releasing /\ pc \in Releasing
  BY DEF Mint, ReadLink, BurnLink, ClaimPointer, ReadEmailClaim, DropEmailClaim, ReadTeamClaim,
         DropTeamClaim, Stop, Releasing
<1>4. req'[r].pc = pc /\ req'[r].keys = req[r].keys
  BY <1>3, GotoIs DEF Steps
<1> QED BY <1>1, <1>2, <1>3, <1>4, ProfileStays, KeyKept DEF Kept

LEMMA KeyProfileSteps ==
    ASSUME DirInv, DirInv', CopyInv, KeyInv, NEW r \in Requests,
           ReadProfile(r) \/ PutProfile(r) \/ LoseProfile(r)
    PROVE  KeyInv'
<1>1. CASE ReadProfile(r)
  <2>1. req[r].pc = "read" /\ UNCHANGED <<profile, passkey, minted, cut>>
    BY <1>1 DEF ReadProfile, items
  <2>2. req'[r].pc \in {"write", "done"}
    BY <1>1, ReadProfileIs
  <2> QED BY <1>1, <2>1, <2>2, ReadProfileIs, ProfileStays, KeyKept DEF Continue
<1>2. CASE PutProfile(r)
  <2>1. /\ Kept(r) /\ Goto(r, "done") /\ UNCHANGED <<passkey, minted, cut>>
    BY <1>2, ContinueKeeps DEF PutProfile
  <2>2. req'[r].pc = "done" /\ req'[r].keys = req[r].keys
    BY <2>1, GotoIs, NamesAre
  <2>3. PICK u \in Users : u = req[r].user
    BY <1>2, WrittenIs
  <2>4. \A w \in minted : ProfileGoes(w)
    BY <1>2, <2>3, WrittenIs, ItemsAre DEF ProfileGoes
  <2> QED BY <1>2, <2>1, <2>2, <2>4, KeyKept DEF Kept, Continue
<1>3. CASE LoseProfile(r)
  <2>1. /\ Kept(r) /\ UNCHANGED <<profile, passkey, minted>> /\ cut \subseteq cut'
        /\ req[r].pc = "write"
    BY <1>3, ContinueKeeps DEF LoseProfile, items
  <2>2. req'[r].pc \in {"read", "done"} /\ req'[r].keys = req[r].keys
    BY <1>3, ReqIs DEF LoseProfile, Goto, Reqs
  <2> QED BY <1>3, <2>1, <2>2, ProfileStays, KeyKept DEF Kept, Continue
<1> QED BY <1>1, <1>2, <1>3

\* The profile goes after the last of the tenant's passkeys, and nobody is
\* making another.
LEMMA KeyDropProfile ==
    ASSUME DirInv, DirInv', KeyInv, NEW r \in Requests, DropProfile(r)
    PROVE  KeyInv'
<1>1. /\ req[r].pc = "dropProfile" /\ Kept(r) /\ UNCHANGED <<passkey, minted, cut>>
      /\ profile' = [profile EXCEPT ![req[r].user] = None] /\ Open(req[r]) /\ req[r].op = "delete"
  BY ContinueKeeps, ReqIs DEF DropProfile, Open, Sound
<1>2. PICK u \in Users : u = req[r].user
  BY <1>1, ReqIs
<1>3. \A w \in Users : profile'[w] = IF w = u THEN None ELSE profile[w]
  BY <1>1, <1>2, ItemsAre
<1>4. PICK pc \in {"emailRead", "done"} : Goto(r, pc)
  BY DEF DropProfile
<1>5. req'[r].pc = pc /\ req'[r].keys = req[r].keys
  BY <1>4, GotoIs DEF Steps, Releasing
<1>6. u \notin cut => /\ \A k \in Issuers : passkey[k].row # u
                      /\ \A o \in Requests : req'[o].pc \in Registering => req'[o].user # u
  <2> SUFFICES ASSUME u \notin cut
               PROVE  /\ \A k \in Issuers : passkey[k].row # u
                      /\ \A o \in Requests : req'[o].pc \in Registering => req'[o].user # u
    OBVIOUS
  <2>1. /\ Left(req[r]) = {}
        /\ \A k \in Issuers : passkey[k].row = u => k \in Left(req[r])
        /\ \A k \in Requests : Open(req[k]) /\ req[k].op = "register" => req[k].user # u
    BY <1>1, <1>2 DEF KeyInv, Sweeper
  <2>2. ASSUME NEW o \in Requests, req'[o].pc \in Registering PROVE req'[o].user # u
    <3>1. o # r
      BY <1>5, <2>2 DEF Registering
    <3>2. Open(req[o]) /\ req[o].op = "register" /\ req'[o] = req[o]
      BY <1>1, <2>2, <3>1, ReqIs DEF Kept, Registering, Open, Sound
    <3> QED BY <2>1, <3>2
  <2> QED BY <2>1, <2>2
<1>7. \A w \in minted : ProfileGoes(w)
  BY <1>1, <1>3, <1>6, ItemsAre DEF ProfileGoes
<1> QED BY <1>1, <1>5, <1>7, KeyKept DEF Kept, Continue, Releasing

LEMMA KeyListItems ==
    ASSUME DirInv, DirInv', KeyInv, NEW r \in Requests, ListItems(r)
    PROVE  KeyInv'
<1>1. req[r].pc = "list" /\ UNCHANGED <<profile, passkey, minted, cut>> /\ req[r].op = "delete"
  BY ReqIs DEF ListItems, items, Sound
<1>2. /\ \A o \in Requests \ {r} : req'[o] = req[o]
      /\ req'[r].op = req[r].op /\ req'[r].user = req[r].user
      /\ req'[r].keys = {k \in Issuers : passkey[k].row = req[r].user}
      /\ req'[r].pc \in {"dropProfile", "dropIndex"}
      /\ req'[r].pc = "dropProfile" => req'[r].keys = {}
  BY ListItemsIs
<1>3. Maker(r)'
  <2>1. passkey[r].row = None /\ passkey[r].index = None
    BY <1>1 DEF KeyInv, Maker
  <2> QED BY <1>1, <1>2, <2>1 DEF Maker, Registering
<1>4. Left(req'[r]) = req'[r].keys
  BY <1>2 DEF Left
<1>5. Sweeper(req[r])'
  <2> SUFFICES ASSUME req[r].user \notin cut PROVE Sweeper(req[r])'
    BY <1>1, <1>2 DEF Sweeper
  <2>1. \A k \in Requests : Open(req[k]) /\ req[k].op = "register" => req[k].user # req[r].user
    BY <1>1 DEF KeyInv, Sweeper, Open
  <2>2. req[r].user # None
    BY <1>1, ReqIs, DirNames
  <2>3. ASSUME NEW k \in req'[r].keys, k \in Requests PROVE req'[k].pc = "done"
    <3>1. passkey[k].row = req[r].user /\ Maker(k)
      BY <1>2, <2>3 DEF KeyInv
    <3>2. req[k].user = req[r].user /\ req[k].op = "register" /\ req[k].pc \in {"putIndex", "done"}
      BY <2>2, <3>1 DEF Maker
    <3>3. req[k].pc = "done"
      BY <2>1, <2>3, <3>2 DEF Open
    <3> QED BY <1>1, <1>2, <2>3, <3>3
  <2>4. \A k \in Requests : Open(req'[k]) /\ req'[k].op = "register" => req'[k].user # req[r].user
    BY <1>1, <1>2, <2>1
  <2> QED BY <1>1, <1>2, <1>4, <2>3, <2>4 DEF Sweeper, Releasing
<1> QED BY <1>1, <1>2, <1>3, <1>5, ProfileStays, KeyQuiet

LEMMA KeyPutRow ==
    ASSUME DirInv, DirInv', KeyInv, NEW r \in Requests, PutRow(r)
    PROVE  KeyInv'
<1>1. /\ req[r].pc = "putRow" /\ req[r].op = "register" /\ Kept(r) /\ r \in Issuers
      /\ UNCHANGED <<profile, minted, cut>> /\ Goto(r, "putIndex")
      /\ passkey' = [passkey EXCEPT ![r].row = req[r].user, ![r].from = req[r].arg]
  BY ContinueKeeps, ReqIs, DirNames DEF PutRow, Sound
<1>2. req'[r].pc = "putIndex"
  BY <1>1, GotoIs DEF Steps
<1>3. /\ \A k \in Issuers \ {r} : passkey'[k] = passkey[k]
      /\ passkey'[r].row = req[r].user /\ passkey'[r].index = passkey[r].index
  BY <1>1, ItemsAre DEF Keys
<1>4. passkey[r].index = None /\ (req[r].user \notin cut => profile[req[r].user] # None)
  BY <1>1 DEF KeyInv, Maker, Registering
<1>5. ASSUME NEW k \in Issuers PROVE RowTurns(r, k) /\ IndexTurns(r, k) /\ IndexFollows(k)'
  <2>1. CASE k = r
    <3>1. passkey'[r].index = None
      BY <1>3, <1>4
    <3> QED BY <1>1, <1>3, <2>1, <3>1 DEF RowTurns, IndexTurns, IndexFollows, Registering
  <2>2. CASE k # r
    <3>1. passkey'[k] = passkey[k] /\ IndexFollows(k)
      BY <1>3, <2>2 DEF KeyInv
    <3>2. cut' = cut
      BY <1>1
    <3>3. RowTurns(r, k) /\ IndexTurns(r, k)
      BY <3>1 DEF RowTurns, IndexTurns
    <3>4. IndexFollows(k)'
      BY <3>1, <3>2 DEF IndexFollows
    <3> QED BY <3>3, <3>4
  <2> QED BY <2>1, <2>2
<1>6. Maker(r)' /\ Sweeper(req[r])'
  BY <1>1, <1>2, <1>3, <1>4 DEF Maker, Sweeper, Kept
<1>7. Open(req[r]) /\ req[r].pc # "done"
  BY <1>1 DEF Open
<1>8. \A o \in Requests \ {r} : passkey'[o].row = passkey[o].row
  BY <1>3, DirNames
<1> QED BY <1>1, <1>5, <1>6, <1>7, <1>8, ProfileStays, KeyStep DEF Kept

LEMMA KeyPutIndex ==
    ASSUME DirInv, DirInv', KeyInv, NEW r \in Requests, PutIndex(r)
    PROVE  KeyInv'
<1>1. /\ req[r].pc = "putIndex" /\ req[r].op = "register" /\ Kept(r) /\ r \in Issuers
      /\ UNCHANGED <<profile, minted, cut>> /\ Goto(r, "done")
      /\ passkey' = [passkey EXCEPT ![r].index = req[r].user]
  BY ContinueKeeps, ReqIs, DirNames DEF PutIndex, Sound
<1>2. req'[r].pc = "done"
  BY <1>1, GotoIs DEF Steps
<1>3. /\ \A k \in Issuers \ {r} : passkey'[k] = passkey[k]
      /\ passkey'[r].index = req[r].user /\ passkey'[r].row = passkey[r].row
  BY <1>1, ItemsAre DEF Keys
<1>4. /\ passkey[r].row \in {None, req[r].user}
      /\ req[r].user \notin cut => passkey[r].row = req[r].user
  BY <1>1 DEF KeyInv, Maker
<1>5. Open(req[r]) /\ req[r].pc # "done"
  BY <1>1 DEF Open
<1>6. \A k \in Issuers : RowTurns(r, k) /\ IndexTurns(r, k) /\ IndexFollows(k)'
  BY <1>1, <1>3, <1>4, <1>5 DEF RowTurns, IndexTurns, IndexFollows, KeyInv
<1>7. Maker(r)' /\ Sweeper(req[r])'
  BY <1>1, <1>2, <1>3, <1>4 DEF Maker, Sweeper, Kept, Registering
<1>8. \A o \in Requests \ {r} : passkey'[o].row = passkey[o].row
  BY <1>3, DirNames
<1> QED BY <1>1, <1>5, <1>6, <1>7, <1>8, ProfileStays, KeyStep DEF Kept

\* The index goes before the row, so an index never outlives its row.
LEMMA KeyDropIndex ==
    ASSUME DirInv, DirInv', KeyInv, NEW r \in Requests, DropIndex(r)
    PROVE  KeyInv'
<1>1. PICK k \in req[r].keys \cap Issuers :
           /\ req' \in [Requests -> Reqs] /\ \A o \in Requests \ {r} : req'[o] = req[o]
           /\ req'[r].op = req[r].op /\ req'[r].user = req[r].user /\ req'[r].arg = k
           /\ req'[r].copy = req[r].copy /\ req'[r].keys = req[r].keys \ {k}
           /\ req'[r].pc = "dropRow" /\ req[r].pc = "dropIndex"
           /\ passkey' = [passkey EXCEPT ![k].index = None]
           /\ UNCHANGED <<profile, emailClaim, teamClaim, link, minted, cut, deletedTwice>>
  BY DropIndexIs
<1>2. /\ \A x \in Issuers : passkey'[x].row = passkey[x].row
      /\ \A x \in Issuers : passkey'[x].index = IF x = k THEN None ELSE passkey[x].index
  BY <1>1, ItemsAre DEF Keys
<1>3. \A x \in Issuers : RowTurns(r, x) /\ IndexTurns(r, x) /\ IndexFollows(x)'
  BY <1>1, <1>2 DEF RowTurns, IndexTurns, IndexFollows, KeyInv
<1>4. req[r].op \in {"delete", "revoke"} /\ Open(req[r]) /\ req[r].user # None
  BY <1>1, ReqIs, DirNames DEF Sound, Open
<1>5. Left(req'[r]) = Left(req[r])
  BY <1>1 DEF Left
<1>6. Maker(r)'
  <2>1. passkey[r].row = None /\ passkey[r].index = None /\ r \in Issuers
    BY <1>1, DirNames DEF KeyInv, Maker
  <2> QED BY <1>1, <1>2, <2>1 DEF Maker, Registering
<1>7. Sweeper(req[r])'
  <2> SUFFICES ASSUME req[r].user \notin cut PROVE Sweeper(req[r])'
    BY <1>1 DEF Sweeper
  <2>1. \A x \in Left(req[r]) : x \in Requests => req'[x].pc = "done"
    BY <1>1, <1>4 DEF KeyInv, Sweeper
  <2>2. passkey'[k].index # req[r].user
    BY <1>2, <1>4
  <2>3. CASE req[r].op = "delete"
    <3>1. /\ \A x \in Issuers : passkey[x].row = req[r].user => x \in Left(req[r])
          /\ \A x \in Requests : Open(req[x]) /\ req[x].op = "register" => req[x].user # req[r].user
      BY <1>1, <1>4, <2>3 DEF KeyInv, Sweeper
    <3>2. \A x \in Requests : Open(req'[x]) /\ req'[x].op = "register" => req'[x].user # req[r].user
      BY <1>1, <2>3, <3>1
    <3> QED BY <1>1, <1>2, <1>5, <2>1, <2>2, <3>1, <3>2 DEF Sweeper, Releasing
  <2>4. CASE req[r].op # "delete"
    BY <1>1, <1>5, <2>1, <2>2, <2>4 DEF Sweeper
  <2> QED BY <2>3, <2>4
<1>8. \A o \in Requests \ {r} : passkey'[o].row = passkey[o].row
  BY <1>2, DirNames
<1> QED BY <1>1, <1>3, <1>4, <1>6, <1>7, <1>8, ProfileStays, KeyStep

LEMMA KeyDropRow ==
    ASSUME DirInv, DirInv', KeyInv, NEW r \in Requests, DropRow(r)
    PROVE  KeyInv'
<1>1. /\ req[r].pc = "dropRow" /\ req[r].op \in {"delete", "revoke"} /\ Kept(r) /\ Open(req[r])
      /\ UNCHANGED <<profile, minted, cut>> /\ req[r].arg \in Issuers /\ req[r].user # None
  BY ContinueKeeps, ReqIs, DirNames DEF DropRow, Sound, Open
<1>2. PICK k \in Issuers, u \in Users : k = req[r].arg /\ u = req[r].user
  BY <1>1, ReqIs DEF Open
<1>3. /\ \A x \in Issuers : passkey'[x].index = passkey[x].index
      /\ \A x \in Issuers \ {k} : passkey'[x].row = passkey[x].row
      /\ passkey'[k].row = IF passkey[k].row = u THEN None ELSE passkey[k].row
  BY <1>2, ItemsAre DEF DropRow, Keys
<1>4. PICK pc \in {"write", "dropProfile", "dropIndex"} :
        /\ Goto(r, pc) /\ (pc = "write" <=> req[r].op = "revoke")
        /\ pc = "dropProfile" => req[r].keys = {}
  BY <1>1 DEF DropRow
<1>5. req'[r].pc = pc /\ req'[r].keys = req[r].keys
  BY <1>4, GotoIs DEF Steps
<1>6. Left(req'[r]) = req[r].keys /\ Left(req[r]) = req[r].keys \cup {k}
  BY <1>1, <1>2, <1>5 DEF Left
<1>7. u \notin cut => /\ passkey[k].index # u
                      /\ \A x \in Left(req[r]) : x \in Requests => req[x].pc = "done"
  BY <1>1, <1>2 DEF KeyInv, Sweeper
<1>8. \A x \in Issuers : RowTurns(r, x) /\ IndexTurns(r, x) /\ IndexFollows(x)'
  BY <1>1, <1>2, <1>3, <1>7 DEF RowTurns, IndexTurns, IndexFollows, KeyInv
<1>9. ASSUME NEW o \in Requests, req[o].pc = "putIndex", req[o].user \notin cut
      PROVE  passkey'[o].row = passkey[o].row
  <2>1. passkey[o].row = req[o].user /\ o \in Issuers
    BY <1>9, DirNames DEF KeyInv, Maker
  <2> QED BY <1>3, <1>6, <1>7, <1>9, <2>1
<1>10. Maker(r)'
  <2>1. passkey[r].row = None /\ passkey[r].index = None /\ r \in Issuers
    BY <1>1, DirNames DEF KeyInv, Maker
  <2>2. passkey'[r].row = None /\ passkey'[r].index = None
    BY <1>3, <2>1
  <2> QED BY <1>5, <2>2 DEF Maker, Registering
<1>11. Sweeper(req[r])'
  <2> SUFFICES ASSUME u \notin cut PROVE Sweeper(req[r])'
    BY <1>1, <1>2 DEF Sweeper, Kept
  <2>1. \A x \in req[r].keys : x \in Requests => req'[x].pc = "done"
    BY <1>1, <1>6, <1>7 DEF Kept
  <2>2. CASE req[r].op = "delete"
    <3>1. /\ \A x \in Issuers : passkey[x].row = u => x \in Left(req[r])
          /\ \A x \in Requests : Open(req[x]) /\ req[x].op = "register" => req[x].user # u
      BY <1>1, <1>2, <2>2 DEF KeyInv, Sweeper
    <3>2. \A x \in Requests : Open(req'[x]) /\ req'[x].op = "register" => req'[x].user # u
      BY <1>1, <2>2, <3>1 DEF Kept
    <3>3. ASSUME NEW x \in Issuers, passkey'[x].row = u PROVE x \in req[r].keys
      <4>1. x # k
        BY <1>1, <1>2, <1>3, <3>3
      <4> QED BY <1>3, <1>6, <3>1, <3>3, <4>1
    <3>4. req'[r].user = u /\ req'[r].op = "delete"
      BY <1>1, <1>2, <2>2 DEF Kept
    <3> QED BY <1>4, <1>5, <1>6, <2>1, <2>2, <3>2, <3>3, <3>4 DEF Sweeper, Releasing
  <2>3. CASE req[r].op # "delete"
    <3>1. req'[r].op # "delete"
      BY <1>1, <2>3 DEF Kept
    <3> QED BY <1>5, <1>6, <2>1, <3>1 DEF Sweeper
  <2> QED BY <2>2, <2>3
<1> QED BY <1>1, <1>8, <1>9, <1>10, <1>11, ProfileStays, KeyStep DEF Kept, Open

LEMMA KeyNext ==
    ASSUME DirInv, DirInv', CopyInv, KeyInv, Next
    PROVE  KeyInv'
<1>1. ASSUME NEW r \in Requests, Continue(r) PROVE KeyInv'
  BY <1>1, KeyEasySteps, KeyProfileSteps, KeyDropProfile, KeyListItems, KeyPutRow, KeyPutIndex,
     KeyDropIndex, KeyDropRow DEF Continue
<1>2. ASSUME NEW l \in Issuers, Expire(l) PROVE KeyInv'
  BY <1>2 DEF Expire, KeyInv, IndexFollows, Maker, Sweeper
<1> QED BY <1>1, <1>2, KeyFirstSteps, KeyEasySteps DEF Next

LEMMA KeyStutter ==
    ASSUME KeyInv, UNCHANGED vars
    PROVE  KeyInv'
  BY DEF vars, KeyInv, IndexFollows, Maker, Sweeper

LEMMA KeyInit == ASSUME Init PROVE KeyInv
<1>1. PICK u \in Users, e \in Emails, t \in Teams \cup {None} :
        /\ profile = [w \in Users |-> IF w = u THEN Store!NewProfile(e, t) ELSE None]
        /\ passkey = [k \in Issuers |-> IF k = Setup THEN [row |-> u, index |-> u, from |-> None]
                                        ELSE [row |-> None, index |-> None, from |-> None]]
        /\ req = [r \in Requests |-> Idle] /\ minted = {u}
  BY DEF Init
<1>2. \A r \in Requests : req[r].pc = "idle"
  BY <1>1, IdleIs
<1>3. \A k \in Issuers : IF k = Setup THEN passkey[k].row = u /\ passkey[k].index = u
                         ELSE passkey[k].row = None /\ passkey[k].index = None
  BY <1>1
<1>4. profile[u] # None
  BY <1>1, DirNames DEF Store!NewProfile, Store!Profiles, Store!Statuses, Store!Flags
<1>5. ASSUME NEW k \in Requests PROVE Maker(k)
  <2>1. k \in Issuers /\ k # Setup
    BY DirNames
  <2> QED BY <1>2, <1>3, <2>1 DEF Maker, Registering
<1>6. \A r \in Requests : Sweeper(req[r])
  BY <1>2 DEF Sweeper, Open
<1>7. \A k \in Issuers : /\ IndexFollows(k)
                         /\ passkey[k].row \in minted \cup {None}
                         /\ passkey[k].index \in minted \cup {None}
  BY <1>1, <1>3 DEF IndexFollows
<1>8. \A w \in minted \ cut, k \in Issuers : profile[w] = None => passkey[k].row # w
  BY <1>1, <1>4
<1> QED BY <1>5, <1>6, <1>7, <1>8 DEF KeyInv

\* When nothing is in flight, a deleted tenant whose operations neither
\* overlapped a claim or a deletion nor stopped half way has left its e-mail
\* and its team free and no passkey that still resolves to it, and every claim
\* is of a tenant whose profile names it back (ddbuser.go DeleteUser).
THEOREM DeletionLeavesNothing == Spec => []NothingIsLeftBehind
<1>1. Init => DirInv /\ CopyInv /\ BackInv /\ KeyInv
  BY DirInit, CopyInit, BackInit, KeyInit
<1>2. DirInv /\ CopyInv /\ BackInv /\ KeyInv /\ [Next]_vars => (DirInv /\ CopyInv /\ BackInv /\ KeyInv)'
  BY DirNext, DirStutter, CopyNext, CopyStutter, BackNext, BackStutter, KeyNext, KeyStutter
<1>3. DirInv /\ BackInv /\ KeyInv => NothingIsLeftBehind
  <2> SUFFICES ASSUME DirInv, BackInv, KeyInv, AtRest
               PROVE  ClaimsAreBacked /\ DeletedTenantsHoldNoPasskey
    BY DEF NothingIsLeftBehind
  <2>1. \A r \in Requests : req[r].pc \in {"idle", "done"}
    BY DEF AtRest, Active
  <2>2. \A r \in Requests : /\ \A e \in Emails : ~OwesEmail(req[r], e)
                            /\ \A t \in Teams : ~OwesTeam(req[r], t)
    BY <2>1 DEF OwesEmail, OwesTeam, Releasing
  <2>3. ClaimsAreBacked
    BY <2>2 DEF BackInv, EmailKept, TeamKept, ClaimsAreBacked, Exists
  <2>4. ASSUME NEW u \in minted \ cut, NEW k \in Issuers, ~Exists(u)
        PROVE  passkey[k].row # u /\ passkey[k].index # u
    <3>1. passkey[k].row # u
      BY <2>4 DEF KeyInv, Exists
    <3>2. u # None
      BY ItemsAre, DirNames
    <3> QED BY <3>1, <3>2 DEF KeyInv, IndexFollows
  <2> QED BY <2>3, <2>4 DEF DeletedTenantsHoldNoPasskey
<1> QED BY <1>1, <1>2, <1>3, PTL DEF Spec

-----------------------------------------------------------------------------
(* PushDevices.  A row's id is named by the call that first made it, so an id  *)
(* has one tenant and one token for good, and a call can only ever touch rows  *)
(* of its own token.  What is left is the state of a token that one call is at *)
(* work on, step by step.                                                      *)

CallStates ==
    {"idle", "collapse", "holder", "steal", "putRow", "point", "dropRow", "owner", "release", "done"}
Pairs == [user : Tenants, id : Calls]
CallRecords ==
    [op : {"none", "register", "remove", "sweep"}, pc : CallStates, user : Tenants \cup {Nobody},
     token : Tokens \cup {Nobody}, id : Calls \cup {Nobody}, extra : SUBSET (Calls \cup Pairs),
     alone : BOOLEAN]

\* An id belongs to the tenant and the token of the call it is named by.
Born(i, u, t) == i \in Calls /\ call[i].pc # "idle" /\ call[i].user = u /\ call[i].token = t

RowsOf(t) == {x \in rows : x.token = t}
RowOf(c) == [user |-> call[c].user, token |-> call[c].token, id |-> call[c].id]
Handle(c) == [user |-> call[c].user, id |-> call[c].id]

CallIsSound(c) ==
    LET q == call[c]
    IN  /\ q.pc = "idle" => q = Fresh
        /\ q.pc # "idle" =>
             /\ q.op # "none" /\ q.user \in Tenants /\ q.token \in Tokens /\ Born(q.id, q.user, q.token)
        /\ q.pc = "collapse" => \A i \in q.extra : Born(i, q.user, q.token)
        /\ q.pc = "steal" =>
             \E p \in Pairs : q.extra = {p} /\ Born(p.id, p.user, q.token)
        /\ q.pc \in {"collapse", "holder", "steal", "putRow", "point"} => q.op = "register"
        /\ q.pc \in {"dropRow", "owner", "release"} => q.op \in {"remove", "sweep"}

\* Who works on a token nothing overlapped on, works alone.
SoleWorker ==
    \A c, d \in Calls :
        Busy(c) /\ Busy(d) /\ call[c].token = call[d].token /\ c # d
          => call[c].token \in overlap /\ ~call[c].alone

\* A token between two calls, and one in the hands of a single call.
Rests(t) ==
    t \notin overlap /\ (\A c \in Calls : Busy(c) => call[c].token # t) => PointerNamesTheRow(t)

InHand(c) ==
    LET q == call[c] t == call[c].token
    IN  Busy(c) /\ t \notin overlap =>
          /\ q.pc # "collapse" /\ q.alone
          /\ q.pc \in {"holder", "steal"} => PointerNamesTheRow(t)
          /\ q.pc = "steal" => pointer[t].user # q.user /\ q.extra = {pointer[t]}
          /\ q.pc = "putRow" => RowsOf(t) \subseteq {RowOf(c)}
          /\ q.pc = "point" => RowsOf(t) = {RowOf(c)}
          /\ q.op = "remove" =>
               /\ pointer[t] = Handle(c)
               /\ RowsOf(t) \subseteq IF q.pc = "dropRow" THEN {RowOf(c)} ELSE {}
          /\ q.op = "sweep" =>
               /\ RowsOf(t) \subseteq {RowOf(c)}
               /\ q.pc \in {"owner", "release"} => pointer[t] = Handle(c)
               /\ q.pc = "dropRow" => pointer[t] = NoPointer

\* A registration nothing overlaps gathers its tenant's rows under one id.
Gathers(c) ==
    LET q == call[c]
    IN  q.op = "register" /\ q.alone =>
          /\ q.pc = "collapse" => \A x \in OfUser(q.user, q.token) : x.id = q.id \/ x.id \in q.extra
          /\ q.pc \in {"holder", "steal", "putRow"} => \A x \in OfUser(q.user, q.token) : x.id = q.id
          /\ q.pc = "point" => OfUser(q.user, q.token) = {RowOf(c)}

PushInv ==
    /\ PushTypeOK
    /\ call \in [Calls -> CallRecords]
    /\ \A x \in rows : Born(x.id, x.user, x.token)
    /\ \A t \in Tokens : pointer[t] # NoPointer => Born(pointer[t].id, pointer[t].user, t)
    /\ \A c \in Calls : CallIsSound(c) /\ InHand(c) /\ Gathers(c)
    /\ SoleWorker
    /\ \A t \in Tokens : Rests(t)

LEMMA CallIsTyped ==
    ASSUME PushInv, NEW c \in Calls
    PROVE  /\ call[c] \in CallRecords /\ CallIsSound(c) /\ InHand(c) /\ Gathers(c)
           /\ Busy(c) => call[c].pc \notin {"idle", "done"} /\ call[c].token \in Tokens
                         /\ call[c].user \in Tenants /\ call[c].id \in Calls
                         /\ Born(call[c].id, call[c].user, call[c].token)
  BY DEF PushInv, CallIsSound, Busy, Born

LEMMA RowIsTyped ==
    ASSUME PushInv, NEW x \in rows
    PROVE  /\ x \in [user : Tenants, token : Tokens, id : Calls]
           /\ x.user \in Tenants /\ x.token \in Tokens /\ x.id \in Calls
           /\ Born(x.id, x.user, x.token)
           /\ x = [user |-> x.user, token |-> x.token, id |-> x.id]
  BY DEF PushInv, PushTypeOK

LEMMA PointerIsTyped ==
    ASSUME PushInv, NEW t \in Tokens
    PROVE  /\ pointer[t] \in {NoPointer} \cup Pairs /\ NoPointer.user = Nobody
           /\ NoPointer.user \notin Tenants
           /\ pointer[t] # NoPointer =>
                /\ pointer[t] \in Pairs /\ pointer[t].user \in Tenants /\ pointer[t].id \in Calls
                /\ Born(pointer[t].id, pointer[t].user, t)
  BY PushAssumption DEF PushInv, PushTypeOK, NoPointer, Pairs

\* An id tells its tenant and its token.
LEMMA OneOrigin ==
    ASSUME NEW i, NEW u, NEW t, NEW v, NEW s, Born(i, u, t), Born(i, v, s)
    PROVE  u = v /\ t = s
  BY DEF Born

LEMMA InitPush == PushInit => PushInv
<1> SUFFICES ASSUME PushInit PROVE PushInv
  OBVIOUS
<1>1. Fresh \in CallRecords /\ Fresh.pc = "idle" /\ Fresh.op = "none"
  BY DEF Fresh, CallRecords, CallStates
<1>2. /\ call \in [Calls -> CallRecords] /\ \A c \in Calls : call[c] = Fresh
      /\ rows = {} /\ overlap = {} /\ \A t \in Tokens : pointer[t] = NoPointer
  BY <1>1 DEF PushInit
<1>3. PushTypeOK
  BY DEF PushInit, PushTypeOK
<1>4. \A c \in Calls : CallIsSound(c) /\ InHand(c) /\ Gathers(c) /\ ~Busy(c)
  BY <1>1, <1>2 DEF CallIsSound, InHand, Gathers, Busy
<1>5. \A t \in Tokens : Rests(t)
  BY <1>2 DEF Rests, PointerNamesTheRow
<1> QED BY <1>2, <1>3, <1>4, <1>5 DEF PushInv, SoleWorker

\* A call's step disturbs its own token only; of that it has to say how it
\* leaves it.
LEMMA OneCallSteps ==
    ASSUME PushInv, NEW c \in Calls, Busy(c),
           call' \in [Calls -> CallRecords], \A d \in Calls \ {c} : call'[d] = call[d],
           call'[c].op = call[c].op, call'[c].user = call[c].user, call'[c].token = call[c].token,
           call'[c].id = call[c].id, call'[c].alone = call[c].alone, call'[c].pc # "idle",
           PushTypeOK', overlap \subseteq overlap', overlap' \subseteq overlap \cup {call[c].token},
           \A x : x.token # call[c].token => (x \in rows' <=> x \in rows),
           \A t \in Tokens \ {call[c].token} : pointer'[t] = pointer[t],
           \A x \in rows' : x \in rows \/ x = RowOf(c),
           pointer'[call[c].token] \in {pointer[call[c].token], NoPointer, Handle(c)},
           CallIsSound(c)', InHand(c)', Gathers(c)',
           ~Busy(c)' => Rests(call[c].token)'
    PROVE  PushInv'
<1> DEFINE k == call[c].token
<1>1. /\ k \in Tokens /\ call[c].user \in Tenants /\ call[c].id \in Calls
      /\ Born(call[c].id, call[c].user, k)
  BY CallIsTyped
<1>2. ASSUME NEW i, NEW u, NEW t, Born(i, u, t) PROVE Born(i, u, t)'
  BY <1>2 DEF Born
<1>3. \A x \in rows' : Born(x.id, x.user, x.token)'
  BY <1>1, <1>2, RowIsTyped DEF RowOf
<1>4. ASSUME NEW t \in Tokens, pointer'[t] # NoPointer
      PROVE  Born(pointer[t].id, pointer[t].user, t)'
  <2>1. CASE pointer'[t] = pointer[t]
    BY <1>2, <1>4, <2>1, PointerIsTyped
  <2>2. CASE t = k /\ pointer'[t] = Handle(c)
    BY <1>1, <1>2, <2>2 DEF Handle
  <2> QED BY <1>4, <2>1, <2>2
<1>5. ASSUME NEW d \in Calls \ {c} PROVE CallIsSound(d)'
  <2>1. CallIsSound(d) /\ call'[d] = call[d]
    BY CallIsTyped
  <2> QED BY <1>2, <2>1 DEF CallIsSound
<1>6. SoleWorker'
  BY DEF PushInv, SoleWorker, Busy
<1>7. ASSUME NEW t \in Tokens \ {k} PROVE RowsOf(t)' = RowsOf(t) /\ pointer'[t] = pointer[t]
  BY DEF RowsOf
<1>8. ASSUME NEW d \in Calls \ {c} PROVE InHand(d)' /\ Gathers(d)'
  <2>1. call'[d] = call[d] /\ InHand(d) /\ Gathers(d) /\ Handle(d)' = Handle(d) /\ RowOf(d)' = RowOf(d)
    BY CallIsTyped DEF Handle, RowOf
  <2>2. CASE ~Busy(d)
    BY <2>1, <2>2, CallIsTyped DEF InHand, Gathers, Busy
  <2>3. CASE Busy(d) /\ call[d].token = k
    <3>1. k \in overlap /\ ~call[d].alone
      BY <2>3 DEF PushInv, SoleWorker
    <3> QED BY <2>1, <2>3, <3>1 DEF InHand, Gathers
  <2>4. CASE Busy(d) /\ call[d].token # k
    <3>1. call[d].token \in Tokens
      BY <2>4, CallIsTyped
    <3>2. /\ RowsOf(call[d].token)' = RowsOf(call[d].token)
          /\ pointer'[call[d].token] = pointer[call[d].token]
      <4>1. PICK t \in Tokens \ {k} : t = call[d].token
        BY <2>4, <3>1
      <4> QED BY <1>7, <2>1, <4>1
    <3>3. OfUser(call[d].user, call[d].token)' = OfUser(call[d].user, call[d].token)
      BY <2>1, <2>4 DEF OfUser
    <3>4. PointerNamesTheRow(call[d].token)' <=> PointerNamesTheRow(call[d].token)
      BY <2>1, <3>2 DEF PointerNamesTheRow, RowsOf
    <3>5. InHand(d)'
      BY <2>1, <2>4, <3>2, <3>4 DEF InHand, Busy
    <3>6. Gathers(d)'
      BY <2>1, <3>3 DEF Gathers
    <3> QED BY <3>5, <3>6
  <2> QED BY <2>2, <2>3, <2>4
<1>9. ASSUME NEW t \in Tokens PROVE Rests(t)'
  <2>1. CASE t = k
    BY <2>1 DEF Rests, Busy
  <2>2. CASE t # k
    <3>1. PointerNamesTheRow(t)' <=> PointerNamesTheRow(t)
      BY <1>7, <2>2 DEF PointerNamesTheRow, RowsOf
    <3>2. (\A d \in Calls : Busy(d) => call[d].token # t)'
            => \A d \in Calls : Busy(d) => call[d].token # t
      BY <2>2 DEF Busy
    <3> QED BY <2>2, <3>1, <3>2 DEF Rests, PushInv
  <2> QED BY <2>1, <2>2
<1>10. \A d \in Calls : (CallIsSound(d) /\ InHand(d) /\ Gathers(d))'
  BY <1>5, <1>8
<1> QED BY <1>3, <1>4, <1>6, <1>9, <1>10 DEF PushInv

\* A token at rest has at most the row its pointer names.
LEMMA RestNamesOne ==
    ASSUME PushInv, NEW t \in Tokens, PointerNamesTheRow(t), NEW x \in rows, x.token = t
    PROVE  /\ pointer[t] = [user |-> x.user, id |-> x.id] /\ RowsOf(t) = {x}
           /\ pointer[t] # NoPointer
<1>1. RowsOf(t) = {[user |-> pointer[t].user, token |-> t, id |-> pointer[t].id]}
  BY DEF PointerNamesTheRow, RowsOf
<1>2. x = [user |-> pointer[t].user, token |-> t, id |-> pointer[t].id]
  BY <1>1 DEF RowsOf
<1>3. x.user = pointer[t].user /\ x.id = pointer[t].id /\ x.user \in Tenants
  BY <1>2, RowIsTyped
<1>4. pointer[t] # NoPointer /\ pointer[t] \in Pairs
  BY <1>3, PointerIsTyped
<1>5. pointer[t] = [user |-> x.user, id |-> x.id]
  BY <1>3, <1>4 DEF Pairs
<1> QED BY <1>1, <1>2, <1>4, <1>5

LEMMA BeginKeeps ==
    ASSUME PushInv, NEW c \in Calls, NEW op \in {"register", "remove", "sweep"},
           NEW u \in Tenants, NEW t \in Tokens, NEW id \in Calls,
           NEW extra \in SUBSET (Calls \cup Pairs),
           NEW pc \in {"collapse", "holder", "dropRow", "owner"},
           Begin(c, op, u, t, id, extra, pc),
           id = c \/ Born(id, u, t),
           op = "register" <=> pc \in {"collapse", "holder"},
           pc = "collapse" => \A i \in extra : Born(i, u, t),
           pc = "collapse" => ~PointerNamesTheRow(t),
           pc = "collapse" => \A x \in OfUser(u, t) : x.id = id \/ x.id \in extra,
           pc = "holder" => \A x \in OfUser(u, t) : x.id = id,
           op \in {"remove", "sweep"} => [user |-> u, token |-> t, id |-> id] \in rows,
           op = "remove" <=> pc = "dropRow"
    PROVE  PushInv'
<1> DEFINE met == {d \in Calls : Busy(d) /\ call[d].token = t}
<1>1. PICK a \in BOOLEAN : a = (met = {})
  OBVIOUS
<1> DEFINE x == [op |-> op, pc |-> pc, user |-> u, token |-> t, id |-> id, extra |-> extra,
                 alone |-> a]
<1>2. /\ call[c] = Fresh
      /\ call' = [d \in Calls |-> IF d = c THEN x
                    ELSE IF d \in met THEN [call[d] EXCEPT !.alone = FALSE] ELSE call[d]]
      /\ overlap' = IF met = {} THEN overlap ELSE overlap \cup {t}
      /\ rows' = rows /\ pointer' = pointer
  BY <1>1 DEF Begin
<1>3. /\ x \in CallRecords /\ x.op = op /\ x.pc = pc /\ x.user = u /\ x.token = t /\ x.id = id
      /\ x.extra = extra /\ x.alone = a
  BY DEF CallRecords, CallStates
<1> HIDE DEF x
<1>4. call'[c] = x /\ Fresh.pc = "idle"
  BY <1>2 DEF Fresh
<1>5. ASSUME NEW d \in Calls \ {c}
      PROVE  /\ call'[d] \in CallRecords /\ call'[d].op = call[d].op /\ call'[d].pc = call[d].pc
             /\ call'[d].user = call[d].user /\ call'[d].token = call[d].token
             /\ call'[d].id = call[d].id /\ call'[d].extra = call[d].extra
             /\ d \in met => call'[d].alone = FALSE
             /\ d \notin met => call'[d] = call[d]
  <2>1. call[d] \in CallRecords
    BY DEF PushInv
  <2>2. CASE d \in met
    <3>1. call'[d] = [call[d] EXCEPT !.alone = FALSE]
      BY <1>2, <2>2
    <3> QED BY <2>1, <2>2, <3>1 DEF CallRecords
  <2>3. CASE d \notin met
    BY <1>2, <2>1, <2>3
  <2> QED BY <2>2, <2>3
<1>6. call' \in [Calls -> CallRecords] /\ PushTypeOK'
  <2>1. \A d \in Calls : call'[d] \in CallRecords
    BY <1>3, <1>4, <1>5
  <2> QED BY <1>2, <2>1 DEF PushInv, PushTypeOK
<1>7. ASSUME NEW i, NEW v, NEW s, Born(i, v, s) PROVE Born(i, v, s)'
  <2>1. i # c
    BY <1>2, <1>4, <1>7 DEF Born
  <2> QED BY <1>5, <1>7, <2>1 DEF Born
<1>8. Born(id, u, t)'
  <2>1. CASE id = c
    BY <1>3, <1>4, <2>1 DEF Born
  <2> QED BY <1>7, <2>1
<1>9. (\A r \in rows : Born(r.id, r.user, r.token))'
  BY <1>2, <1>7, RowIsTyped
<1>10. (\A s \in Tokens : pointer[s] # NoPointer => Born(pointer[s].id, pointer[s].user, s))'
  BY <1>2, <1>7, PointerIsTyped
<1>11. ASSUME NEW d \in Calls PROVE CallIsSound(d)'
  <2>1. CASE d = c
    BY <1>3, <1>4, <1>7, <1>8, <2>1 DEF CallIsSound
  <2>2. CASE d # c
    <3>1. CallIsSound(d)
      BY CallIsTyped
    <3>2. call[d].pc = "idle" => d \notin met
      BY DEF Busy
    <3> QED BY <1>5, <1>7, <2>2, <3>1, <3>2 DEF CallIsSound
  <2> QED BY <2>1, <2>2
<1>12. ~Busy(c) /\ Busy(c)' /\ (t \notin overlap' => met = {} /\ t \notin overlap)
  BY <1>2, <1>3, <1>4 DEF Busy
<1>13. SoleWorker'
  <2>1. SUFFICES ASSUME NEW d \in Calls, NEW e \in Calls, Busy(d)', Busy(e)',
                        call'[d].token = call'[e].token, d # e
                 PROVE  call'[d].token \in overlap' /\ ~call'[d].alone
    BY DEF SoleWorker
  <2>2. CASE d = c
    <3>1. e \in met
      BY <1>3, <1>4, <1>5, <2>1, <2>2 DEF Busy
    <3> QED BY <1>1, <1>2, <1>3, <1>4, <2>2, <3>1
  <2>3. CASE e = c
    <3>1. d \in met
      BY <1>3, <1>4, <1>5, <2>1, <2>3 DEF Busy
    <3>2. call'[d].token = t /\ ~call'[d].alone
      BY <1>3, <1>4, <1>5, <2>1, <2>3, <3>1
    <3> QED BY <1>2, <3>1, <3>2
  <2>4. CASE d # c /\ e # c
    <3>1. Busy(d) /\ Busy(e) /\ call[d].token = call[e].token
      BY <1>5, <2>1, <2>4 DEF Busy
    <3>2. call[d].token \in overlap /\ ~call[d].alone
      BY <2>1, <3>1 DEF PushInv, SoleWorker
    <3> QED BY <1>2, <1>5, <2>4, <3>2
  <2> QED BY <2>2, <2>3, <2>4
<1>14. ASSUME NEW s \in Tokens PROVE PointerNamesTheRow(s)' <=> PointerNamesTheRow(s)
  BY <1>2 DEF PointerNamesTheRow
<1>15. ASSUME NEW s \in Tokens PROVE Rests(s)'
  <2>1. CASE s = t
    BY <1>3, <1>4, <1>12, <2>1 DEF Rests
  <2>2. CASE s # t
    <3>1. (\A d \in Calls : Busy(d) => call[d].token # s)'
            => \A d \in Calls : Busy(d) => call[d].token # s
      BY <1>5, <1>12 DEF Busy
    <3> QED BY <1>2, <1>14, <2>2, <3>1 DEF Rests, PushInv
  <2> QED BY <2>1, <2>2
<1>16. ASSUME NEW d \in Calls \ {c} PROVE InHand(d)' /\ Gathers(d)'
  <2>1. InHand(d) /\ Gathers(d)
    BY CallIsTyped
  <2>2. CASE d \in met
    <3>1. call'[d].token = t /\ t \in overlap' /\ ~call'[d].alone
      BY <1>2, <1>5, <2>2
    <3> QED BY <3>1 DEF InHand, Gathers
  <2>3. CASE d \notin met
    <3>1. call'[d] = call[d] /\ Handle(d)' = Handle(d) /\ RowOf(d)' = RowOf(d)
      BY <1>5, <2>3 DEF Handle, RowOf
    <3>2. Gathers(d)'
      BY <1>2, <2>1, <3>1 DEF Gathers, OfUser
    <3>3. CASE ~Busy(d)
      BY <3>1, <3>2, <3>3 DEF InHand, Busy
    <3>4. CASE Busy(d)
      <4>1. PointerNamesTheRow(call[d].token)' <=> PointerNamesTheRow(call[d].token)
        BY <1>2, <3>1 DEF PointerNamesTheRow
      <4>2. RowsOf(call[d].token)' = RowsOf(call[d].token) /\ overlap \subseteq overlap'
        BY <1>2, <3>1 DEF RowsOf
      <4>3. InHand(d)'
        BY <1>2, <2>1, <3>1, <3>4, <4>1, <4>2 DEF InHand
      <4> QED BY <3>2, <4>3
    <3> QED BY <3>3, <3>4
  <2> QED BY <2>2, <2>3
<1>17. Gathers(c)'
  <2>1. OfUser(u, t)' = OfUser(u, t)
    BY <1>2 DEF OfUser
  <2> QED BY <1>3, <1>4, <2>1 DEF Gathers
<1>18. InHand(c)'
  <2>1. SUFFICES ASSUME t \notin overlap' PROVE InHand(c)'
    BY <1>3, <1>4 DEF InHand
  <2>2. PointerNamesTheRow(t) /\ PointerNamesTheRow(t)'
    BY <1>12, <1>14, <2>1 DEF PushInv, Rests
  <2> a
    BY <1>1, <1>12, <2>1
  <2>3. CASE op = "register"
    BY <1>3, <1>4, <2>2, <2>3 DEF InHand
  <2>4. CASE op # "register"
    <3>1. PICK r \in rows : r = [user |-> u, token |-> t, id |-> id]
      BY <2>4
    <3>2. pointer[t] = [user |-> u, id |-> id] /\ RowsOf(t) = {r}
      BY <2>2, <3>1, RestNamesOne
    <3>3. RowsOf(t)' = {RowOf(c)'} /\ pointer'[t] = Handle(c)'
      BY <1>2, <1>3, <1>4, <3>1, <3>2 DEF RowsOf, RowOf, Handle
    <3> QED BY <1>3, <1>4, <2>4, <3>3 DEF InHand
  <2> QED BY <2>3, <2>4
<1>19. \A d \in Calls : (CallIsSound(d) /\ InHand(d) /\ Gathers(d))'
  BY <1>11, <1>16, <1>17, <1>18
<1> QED BY <1>6, <1>9, <1>10, <1>13, <1>15, <1>19 DEF PushInv

LEMMA RegisterKeeps ==
    ASSUME PushInv, NEW c \in Calls, NEW u \in Tenants, NEW t \in Tokens, Register(c, u, t)
    PROVE  PushInv'
<1> DEFINE own == {x.id : x \in OfUser(u, t)}
<1>1. /\ \A x \in OfUser(u, t) : x \in rows /\ x.user = u /\ x.token = t /\ x.id \in own
      /\ \A i \in own : i \in Calls /\ Born(i, u, t)
  BY RowIsTyped DEF OfUser
<1>2. CASE own = {}
  <2>1. Begin(c, "register", u, t, c, {}, "holder")
    BY <1>2 DEF Register
  <2>2. \A x \in OfUser(u, t) : x.id = c
    BY <1>1, <1>2
  <2> QED BY <2>1, <2>2, BeginKeeps
<1>3. CASE own # {}
  <2>1. PICK id \in own : Begin(c, "register", u, t, id, own \ {id},
                                IF own = {id} THEN "holder" ELSE "collapse")
    BY <1>3 DEF Register
  <2>2. id \in Calls /\ Born(id, u, t)
    BY <1>1
  <2>3. CASE own = {id}
    <3>1. Begin(c, "register", u, t, id, {}, "holder")
      BY <2>1, <2>3
    <3>2. \A x \in OfUser(u, t) : x.id = id
      BY <1>1, <2>3
    <3> QED BY <2>2, <3>1, <3>2, BeginKeeps
  <2>4. CASE own # {id}
    <3>1. PICK extra \in SUBSET (Calls \cup Pairs) : extra = own \ {id}
      BY <1>1
    <3>2. Begin(c, "register", u, t, id, extra, "collapse")
      BY <2>1, <2>4, <3>1
    <3>3. \A i \in extra : Born(i, u, t)
      BY <1>1, <3>1
    <3>4. \A x \in OfUser(u, t) : x.id = id \/ x.id \in extra
      BY <1>1, <3>1
    <3>5. ~PointerNamesTheRow(t)
      <4>1. SUFFICES ASSUME PointerNamesTheRow(t) PROVE FALSE
        OBVIOUS
      <4>2. PICK x \in OfUser(u, t), y \in OfUser(u, t) : x.id # y.id
        BY <2>4
      <4>3. RowsOf(t) = {x} /\ RowsOf(t) = {y}
        BY <1>1, <4>1, RestNamesOne
      <4> QED BY <4>2, <4>3
    <3> QED BY <2>2, <3>2, <3>3, <3>4, <3>5, BeginKeeps
  <2> QED BY <2>3, <2>4
<1> QED BY <1>2, <1>3

LEMMA RemoveKeeps ==
    ASSUME PushInv, NEW c \in Calls, NEW x \in rows, Remove(c, x) \/ Sweep(c, x)
    PROVE  PushInv'
<1>1. PICK u \in Tenants, t \in Tokens, i \in Calls : u = x.user /\ t = x.token /\ i = x.id
  BY RowIsTyped
<1>2. Born(i, u, t) /\ [user |-> u, token |-> t, id |-> i] \in rows
  BY <1>1, RowIsTyped
<1>3. CASE Remove(c, x)
  <2>1. Begin(c, "remove", u, t, i, {}, "dropRow")
    BY <1>1, <1>3 DEF Remove
  <2> QED BY <1>2, <2>1, BeginKeeps
<1>4. CASE Sweep(c, x)
  <2>1. Begin(c, "sweep", u, t, i, {}, "owner")
    BY <1>1, <1>4 DEF Sweep
  <2> QED BY <1>2, <2>1, BeginKeeps
<1> QED BY <1>3, <1>4

Takes(c, pc, extra) == call' = [call EXCEPT ![c].pc = pc, ![c].extra = extra]

\* A call whose record changes in its next step and what it still has to do.
LEMMA CallUpdates ==
    ASSUME PushInv, NEW c \in Calls, Busy(c), NEW pc \in CallStates \ {"idle"},
           NEW extra \in SUBSET (Calls \cup Pairs)
    PROVE  /\ Takes(c, pc, extra) =>
                /\ call' \in [Calls -> CallRecords] /\ \A d \in Calls \ {c} : call'[d] = call[d]
                /\ call'[c].op = call[c].op /\ call'[c].user = call[c].user
                /\ call'[c].token = call[c].token /\ call'[c].id = call[c].id
                /\ call'[c].alone = call[c].alone /\ call'[c].pc = pc /\ call'[c].extra = extra
           /\ CallGoto(c, pc) =>
                /\ call' \in [Calls -> CallRecords] /\ \A d \in Calls \ {c} : call'[d] = call[d]
                /\ call'[c].op = call[c].op /\ call'[c].user = call[c].user
                /\ call'[c].token = call[c].token /\ call'[c].id = call[c].id
                /\ call'[c].alone = call[c].alone /\ call'[c].pc = pc
                /\ call'[c].extra = call[c].extra
<1>1. call \in [Calls -> CallRecords] /\ call[c] \in CallRecords
  BY DEF PushInv
<1>2. ASSUME Takes(c, pc, extra)
      PROVE  /\ call' \in [Calls -> CallRecords] /\ \A d \in Calls \ {c} : call'[d] = call[d]
             /\ call'[c].op = call[c].op /\ call'[c].user = call[c].user
             /\ call'[c].token = call[c].token /\ call'[c].id = call[c].id
             /\ call'[c].alone = call[c].alone /\ call'[c].pc = pc /\ call'[c].extra = extra
  <2> DEFINE y == [call[c] EXCEPT !.pc = pc, !.extra = extra]
  <2>1. /\ y \in CallRecords /\ y.op = call[c].op /\ y.user = call[c].user
        /\ y.token = call[c].token /\ y.id = call[c].id
        /\ y.alone = call[c].alone /\ y.pc = pc /\ y.extra = extra
    BY <1>1 DEF CallRecords
  <2>2. call' = [call EXCEPT ![c] = y]
    BY <1>1, <1>2 DEF Takes
  <2> HIDE DEF y
  <2> QED BY <1>1, <2>1, <2>2
<1>3. ASSUME CallGoto(c, pc)
      PROVE  /\ call' \in [Calls -> CallRecords] /\ \A d \in Calls \ {c} : call'[d] = call[d]
             /\ call'[c].op = call[c].op /\ call'[c].user = call[c].user
             /\ call'[c].token = call[c].token /\ call'[c].id = call[c].id
             /\ call'[c].alone = call[c].alone /\ call'[c].pc = pc
             /\ call'[c].extra = call[c].extra
  <2> DEFINE y == [call[c] EXCEPT !.pc = pc]
  <2>1. /\ y \in CallRecords /\ y.op = call[c].op /\ y.user = call[c].user
        /\ y.token = call[c].token /\ y.id = call[c].id
        /\ y.alone = call[c].alone /\ y.pc = pc /\ y.extra = call[c].extra
    BY <1>1 DEF CallRecords
  <2>2. call' = [call EXCEPT ![c] = y]
    BY <1>1, <1>3 DEF CallGoto
  <2> HIDE DEF y
  <2> QED BY <1>1, <2>1, <2>2
<1> QED BY <1>2, <1>3

\* The same of a call that only reads: rows and pointers stay.
LEMMA ReadStep ==
    ASSUME PushInv, NEW c \in Calls, Busy(c), rows' = rows, pointer' = pointer, overlap' = overlap,
           call' \in [Calls -> CallRecords], \A d \in Calls \ {c} : call'[d] = call[d],
           call'[c].op = call[c].op, call'[c].user = call[c].user, call'[c].token = call[c].token,
           call'[c].id = call[c].id, call'[c].alone = call[c].alone, call'[c].pc # "idle",
           CallIsSound(c)', InHand(c)', Gathers(c)', ~Busy(c)' => Rests(call[c].token)'
    PROVE  PushInv'
<1>1. PushTypeOK'
  BY DEF PushInv, PushTypeOK
<1> QED BY <1>1, OneCallSteps

\* The origin of an id does not change under a busy call.
LEMMA BornStays ==
    ASSUME NEW c \in Calls, Busy(c), \A d \in Calls \ {c} : call'[d] = call[d],
           call'[c].user = call[c].user, call'[c].token = call[c].token, call'[c].pc # "idle",
           NEW i, NEW u, NEW t, Born(i, u, t)
    PROVE  Born(i, u, t)'
  BY DEF Born

LEMMA CollapseKeeps ==
    ASSUME PushInv, NEW c \in Calls, Collapse(c)
    PROVE  PushInv'
<1>1. PICK i \in call[c].extra :
        /\ call[c].pc = "collapse"
        /\ rows' = {x \in rows : ~(x.user = call[c].user /\ x.id = i)}
        /\ call' = [call EXCEPT ![c].extra = @ \ {i},
                                ![c].pc = IF call[c].extra = {i} THEN "holder" ELSE @]
        /\ pointer' = pointer /\ overlap' = overlap
  BY DEF Collapse
<1>2. /\ Busy(c) /\ call[c].token \in Tokens /\ CallIsSound(c) /\ InHand(c) /\ Gathers(c)
      /\ call[c] \in CallRecords /\ call[c].op = "register" /\ Born(i, call[c].user, call[c].token)
      /\ call[c].token \in overlap
  BY <1>1, CallIsTyped DEF Busy, CallIsSound, InHand
<1>3. PICK extra \in SUBSET (Calls \cup Pairs), pc \in CallStates \ {"idle"} :
        extra = call[c].extra \ {i} /\ pc = IF call[c].extra = {i} THEN "holder" ELSE call[c].pc
  <2>1. call[c].extra \ {i} \in SUBSET (Calls \cup Pairs)
    BY <1>2 DEF CallRecords
  <2> QED BY <1>1, <2>1 DEF CallStates
<1>4. Takes(c, pc, extra)
  BY <1>1, <1>3 DEF Takes
<1>5. /\ call' \in [Calls -> CallRecords] /\ \A d \in Calls \ {c} : call'[d] = call[d]
      /\ call'[c].op = call[c].op /\ call'[c].user = call[c].user
      /\ call'[c].token = call[c].token /\ call'[c].id = call[c].id
      /\ call'[c].alone = call[c].alone /\ call'[c].pc = pc /\ call'[c].extra = extra
  BY <1>2, <1>4, CallUpdates
<1>6. pc \in {"collapse", "holder"} /\ (pc = "holder" => extra = {})
  BY <1>1, <1>3
<1>7. \A x : x.token # call[c].token => (x \in rows' <=> x \in rows)
  BY <1>1, <1>2, RowIsTyped, OneOrigin
<1>8. CallIsSound(c)'
  <2>1. \A j \in extra : Born(j, call[c].user, call[c].token)'
    BY <1>1, <1>2, <1>3, <1>5, <1>6, BornStays DEF CallIsSound
  <2>2. Born(call[c].id, call[c].user, call[c].token)'
    BY <1>2, <1>5, <1>6, BornStays, CallIsTyped
  <2> QED BY <1>2, <1>5, <1>6, <2>1, <2>2, CallIsTyped DEF CallIsSound
<1>9. InHand(c)'
  BY <1>1, <1>2, <1>5 DEF InHand
<1>10. Gathers(c)'
  <2>1. \A x \in OfUser(call[c].user, call[c].token)' :
          x \in OfUser(call[c].user, call[c].token) /\ x.id # i
    BY <1>1, <1>5 DEF OfUser
  <2> QED BY <1>1, <1>2, <1>3, <1>5, <1>6, <2>1 DEF Gathers
<1>11. PushTypeOK'
  BY <1>1, <1>5 DEF PushInv, PushTypeOK
<1>12. Busy(c)'
  BY <1>5, <1>6 DEF Busy
<1> QED BY <1>1, <1>2, <1>5, <1>6, <1>7, <1>8, <1>9, <1>10, <1>11, <1>12, OneCallSteps

LEMMA ReadHolderKeeps ==
    ASSUME PushInv, NEW c \in Calls, ReadHolder(c)
    PROVE  PushInv'
<1> DEFINE p == pointer[call[c].token]
<1>1. /\ call[c].pc = "holder" /\ rows' = rows /\ pointer' = pointer /\ overlap' = overlap
      /\ IF p = NoPointer \/ p.user = call[c].user
         THEN CallGoto(c, "putRow")
         ELSE call' = [call EXCEPT ![c].pc = "steal", ![c].extra = {p}]
  BY DEF ReadHolder
<1>2. /\ Busy(c) /\ call[c].token \in Tokens /\ CallIsSound(c) /\ InHand(c) /\ Gathers(c)
      /\ call[c].op = "register" /\ call[c].user \in Tenants /\ call[c].id \in Calls
      /\ Born(call[c].id, call[c].user, call[c].token)
  BY <1>1, CallIsTyped DEF Busy, CallIsSound
<1>3. p # NoPointer => p \in Pairs /\ Born(p.id, p.user, call[c].token)
  BY <1>2, PointerIsTyped
<1>4. OfUser(call[c].user, call[c].token) = OfUser(call[c].user, call[c].token)'
        \/ call'[c].user # call[c].user \/ call'[c].token # call[c].token
  BY <1>1 DEF OfUser
<1>5. CASE p = NoPointer \/ p.user = call[c].user
  <2>1. CallGoto(c, "putRow")
    BY <1>1, <1>5
  <2>2. /\ call' \in [Calls -> CallRecords] /\ \A d \in Calls \ {c} : call'[d] = call[d]
        /\ call'[c].op = call[c].op /\ call'[c].user = call[c].user
        /\ call'[c].token = call[c].token /\ call'[c].id = call[c].id
        /\ call'[c].alone = call[c].alone /\ call'[c].pc = "putRow"
    BY <1>2, <2>1, CallUpdates DEF CallStates
  <2>3. CallIsSound(c)'
    <3>1. Born(call[c].id, call[c].user, call[c].token)'
      BY <1>2, <2>2, BornStays
    <3> QED BY <1>2, <2>2, <3>1 DEF CallIsSound
  <2>4. Gathers(c)'
    BY <1>1, <1>2, <1>4, <2>2 DEF Gathers
  <2>5. InHand(c)'
    <3>1. SUFFICES ASSUME call[c].token \notin overlap
                   PROVE  RowsOf(call[c].token) \subseteq {RowOf(c)}
      BY <1>1, <1>2, <2>2 DEF InHand, RowsOf, RowOf
    <3>2. PointerNamesTheRow(call[c].token)
      BY <1>1, <1>2, <3>1 DEF InHand
    <3>3. ASSUME NEW x \in RowsOf(call[c].token) PROVE x = RowOf(c)
      <4>1. PICK t \in Tokens : t = call[c].token
        BY <1>2
      <4>2. x \in rows /\ x.token = t
        BY <3>3, <4>1 DEF RowsOf
      <4>3. /\ p = [user |-> x.user, id |-> x.id] /\ p # NoPointer
            /\ x = [user |-> x.user, token |-> t, id |-> x.id]
            /\ RowsOf(t) = {x}
        BY <3>2, <4>1, <4>2, RestNamesOne, RowIsTyped
      <4>4. x.user = call[c].user
        BY <1>5, <4>3
      <4>5. call'[c].op = "register" /\ x \in OfUser(call[c].user, call[c].token)
        BY <1>2, <2>2, <4>1, <4>2, <4>4 DEF OfUser
      <4>6. x.id = call[c].id
        <5>1. call[c].alone
          BY <1>2, <3>1 DEF InHand
        <5> QED BY <1>1, <1>2, <4>5, <5>1 DEF Gathers
      <4> QED BY <4>1, <4>3, <4>4, <4>6 DEF RowOf
    <3> QED BY <3>3
  <2> QED BY <1>1, <1>2, <2>2, <2>3, <2>4, <2>5, ReadStep DEF Busy
<1>6. CASE ~(p = NoPointer \/ p.user = call[c].user)
  <2>1. PICK extra \in SUBSET (Calls \cup Pairs), h \in Pairs : extra = {p} /\ h = p
    BY <1>3, <1>6
  <2>2. Takes(c, "steal", extra)
    BY <1>1, <1>6, <2>1 DEF Takes
  <2>3. /\ call' \in [Calls -> CallRecords] /\ \A d \in Calls \ {c} : call'[d] = call[d]
        /\ call'[c].op = call[c].op /\ call'[c].user = call[c].user
        /\ call'[c].token = call[c].token /\ call'[c].id = call[c].id
        /\ call'[c].alone = call[c].alone /\ call'[c].pc = "steal" /\ call'[c].extra = extra
    BY <1>2, <2>2, CallUpdates DEF CallStates
  <2>4. CallIsSound(c)'
    <3>1. Born(call[c].id, call[c].user, call[c].token)' /\ Born(h.id, h.user, call[c].token)'
      BY <1>2, <1>3, <1>6, <2>1, <2>3, BornStays
    <3> QED BY <1>2, <2>1, <2>3, <3>1 DEF CallIsSound
  <2>5. Gathers(c)'
    BY <1>1, <1>2, <1>4, <2>3 DEF Gathers
  <2>6. InHand(c)'
    <3>1. call[c].token \notin overlap => PointerNamesTheRow(call[c].token)
      BY <1>1, <1>2 DEF InHand
    <3>2. PointerNamesTheRow(call[c].token)' <=> PointerNamesTheRow(call[c].token)
      BY <1>1, <2>3 DEF PointerNamesTheRow
    <3>3. call[c].token \notin overlap => call[c].alone
      BY <1>2 DEF InHand
    <3> QED BY <1>1, <1>2, <1>6, <2>1, <2>3, <3>1, <3>2, <3>3 DEF InHand
  <2> QED BY <1>1, <1>2, <2>3, <2>4, <2>5, <2>6, ReadStep DEF Busy
<1> QED BY <1>5, <1>6

LEMMA StealKeeps ==
    ASSUME PushInv, NEW c \in Calls, Steal(c)
    PROVE  PushInv'
<1>1. /\ call[c].pc = "steal" /\ pointer' = pointer /\ overlap' = overlap
      /\ rows' = {x \in rows : [user |-> x.user, id |-> x.id] \notin call[c].extra}
      /\ Takes(c, "putRow", {})
  BY DEF Steal, Takes
<1>2. /\ Busy(c) /\ call[c].token \in Tokens /\ CallIsSound(c) /\ InHand(c) /\ Gathers(c)
      /\ call[c].op = "register" /\ Born(call[c].id, call[c].user, call[c].token)
  BY <1>1, CallIsTyped DEF Busy, CallIsSound
<1>3. PICK p \in Pairs : call[c].extra = {p} /\ Born(p.id, p.user, call[c].token)
  BY <1>1, <1>2 DEF CallIsSound
<1>4. /\ call' \in [Calls -> CallRecords] /\ \A d \in Calls \ {c} : call'[d] = call[d]
      /\ call'[c].op = call[c].op /\ call'[c].user = call[c].user
      /\ call'[c].token = call[c].token /\ call'[c].id = call[c].id
      /\ call'[c].alone = call[c].alone /\ call'[c].pc = "putRow" /\ call'[c].extra = {}
  <2>1. "putRow" \in CallStates \ {"idle"}
    BY DEF CallStates
  <2> QED BY <1>1, <1>2, <2>1, CallUpdates
<1>5. ASSUME NEW x \in rows, x \notin rows' PROVE x.token = call[c].token
  <2>1. [user |-> x.user, id |-> x.id] = p
    BY <1>1, <1>3, <1>5
  <2>2. x.user = p.user /\ x.id = p.id
    BY <2>1
  <2> QED BY <1>3, <2>2, RowIsTyped, OneOrigin
<1>6. rows' \subseteq rows
  BY <1>1
<1>7. CallIsSound(c)'
  <2>1. Born(call[c].id, call[c].user, call[c].token)'
    BY <1>2, <1>4, BornStays
  <2> QED BY <1>2, <1>4, <2>1, CallIsTyped DEF CallIsSound
<1>8. Gathers(c)'
  <2>1. OfUser(call[c].user, call[c].token)' \subseteq OfUser(call[c].user, call[c].token)
    BY <1>4, <1>6 DEF OfUser
  <2> QED BY <1>1, <1>2, <1>4, <2>1 DEF Gathers
<1>9. InHand(c)'
  <2>1. SUFFICES ASSUME call[c].token \notin overlap, NEW x \in rows', x.token = call[c].token
                 PROVE  FALSE
    BY <1>1, <1>2, <1>4 DEF InHand, RowsOf
  <2>2. PICK t \in Tokens : t = call[c].token
    BY <1>2
  <2>3. PointerNamesTheRow(t) /\ call[c].extra = {pointer[t]}
    BY <1>1, <1>2, <2>1, <2>2 DEF InHand
  <2>4. pointer[t] = [user |-> x.user, id |-> x.id]
    BY <1>6, <2>1, <2>2, <2>3, RestNamesOne
  <2> QED BY <1>1, <2>1, <2>3, <2>4
<1>10. PushTypeOK'
  BY <1>1, <1>4, <1>6 DEF PushInv, PushTypeOK
<1> QED BY <1>1, <1>2, <1>4, <1>5, <1>6, <1>7, <1>8, <1>9, <1>10, OneCallSteps DEF Busy

\* Deleting a row by its tenant and its id: it is one of the call's token.
LEMMA DropsOwnRow ==
    ASSUME PushInv, NEW c \in Calls, Busy(c), NEW x \in rows,
           x.user = call[c].user, x.id = call[c].id
    PROVE  x.token = call[c].token /\ x = RowOf(c)
<1>1. Born(call[c].id, call[c].user, call[c].token)
  BY CallIsTyped
<1>2. x.token = call[c].token
  BY <1>1, RowIsTyped, OneOrigin
<1> QED BY <1>2, RowIsTyped DEF RowOf

LEMMA PutDeviceRowKeeps ==
    ASSUME PushInv, NEW c \in Calls, PutDeviceRow(c)
    PROVE  PushInv'
<1>1. /\ call[c].pc = "putRow" /\ pointer' = pointer /\ overlap' = overlap
      /\ rows' = {x \in rows : ~(x.user = call[c].user /\ x.id = call[c].id)} \cup {RowOf(c)}
      /\ CallGoto(c, "point")
  BY DEF PutDeviceRow, RowOf
<1>2. /\ Busy(c) /\ call[c].token \in Tokens /\ CallIsSound(c) /\ InHand(c) /\ Gathers(c)
      /\ call[c].op = "register" /\ Born(call[c].id, call[c].user, call[c].token)
      /\ call[c].user \in Tenants /\ call[c].id \in Calls
  BY <1>1, CallIsTyped DEF Busy, CallIsSound
<1>3. /\ call' \in [Calls -> CallRecords] /\ \A d \in Calls \ {c} : call'[d] = call[d]
      /\ call'[c].op = call[c].op /\ call'[c].user = call[c].user
      /\ call'[c].token = call[c].token /\ call'[c].id = call[c].id
      /\ call'[c].alone = call[c].alone /\ call'[c].pc = "point"
  BY <1>1, <1>2, CallUpdates DEF CallStates
<1>4. RowOf(c)' = RowOf(c) /\ RowOf(c) \in [user : Tenants, token : Tokens, id : Calls]
      /\ RowOf(c).token = call[c].token /\ RowOf(c).user = call[c].user
  BY <1>2, <1>3 DEF RowOf
<1>5. \A x : x.token # call[c].token => (x \in rows' <=> x \in rows)
  BY <1>1, <1>2, <1>4, DropsOwnRow
<1>6. CallIsSound(c)'
  <2>1. Born(call[c].id, call[c].user, call[c].token)'
    BY <1>2, <1>3, BornStays
  <2> QED BY <1>2, <1>3, <2>1 DEF CallIsSound
<1>7. Gathers(c)'
  <2>1. SUFFICES ASSUME call[c].alone
                 PROVE  OfUser(call[c].user, call[c].token)' = {RowOf(c)}
    BY <1>2, <1>3, <1>4 DEF Gathers
  <2>2. \A x \in OfUser(call[c].user, call[c].token) : x.id = call[c].id
    BY <1>1, <1>2, <2>1 DEF Gathers
  <2> QED BY <1>1, <1>3, <1>4, <2>2 DEF OfUser
<1>8. InHand(c)'
  <2>1. SUFFICES ASSUME call[c].token \notin overlap
                 PROVE  RowsOf(call[c].token)' = {RowOf(c)}
    BY <1>1, <1>2, <1>3, <1>4 DEF InHand
  <2>2. RowsOf(call[c].token) \subseteq {RowOf(c)}
    BY <1>1, <1>2, <2>1 DEF InHand
  <2> QED BY <1>1, <1>3, <1>4, <2>2 DEF RowsOf
<1>9. PushTypeOK'
  BY <1>1, <1>3, <1>4 DEF PushInv, PushTypeOK
<1> QED BY <1>1, <1>2, <1>3, <1>5, <1>6, <1>7, <1>8, <1>9, OneCallSteps DEF Busy

LEMMA HandleIsPair ==
    ASSUME PushInv, NEW c \in Calls, Busy(c)
    PROVE  Handle(c) \in Pairs /\ Handle(c).user = call[c].user /\ Handle(c).id = call[c].id
  BY CallIsTyped DEF Handle, Pairs

\* A step that leaves the rows alone and may move the token's pointer.
LEMMA PointStep ==
    ASSUME PushInv, NEW c \in Calls, Busy(c), rows' = rows, overlap' = overlap,
           NEW p, p \in {NoPointer, Handle(c)}, pointer' = [pointer EXCEPT ![call[c].token] = p],
           NEW pc \in CallStates \ {"idle"}, CallGoto(c, pc),
           pc \in {"dropRow", "done"}, pc = "dropRow" => call[c].op = "sweep" /\ p = NoPointer,
           pc = "done" /\ call[c].token \notin overlap => PointerNamesTheRow(call[c].token)',
           call[c].pc \in {"point", "release"}
    PROVE  PushInv'
<1>1. /\ call' \in [Calls -> CallRecords] /\ \A d \in Calls \ {c} : call'[d] = call[d]
      /\ call'[c].op = call[c].op /\ call'[c].user = call[c].user
      /\ call'[c].token = call[c].token /\ call'[c].id = call[c].id
      /\ call'[c].alone = call[c].alone /\ call'[c].pc = pc
  BY CallUpdates
<1>2. /\ call[c].token \in Tokens /\ CallIsSound(c) /\ InHand(c)
      /\ Born(call[c].id, call[c].user, call[c].token)
  BY CallIsTyped
<1>3. p \in {NoPointer} \cup Pairs /\ pointer \in [Tokens -> {NoPointer} \cup Pairs]
  BY HandleIsPair DEF PushInv, PushTypeOK, Pairs
<1>4. /\ pointer'[call[c].token] = p
      /\ \A t \in Tokens \ {call[c].token} : pointer'[t] = pointer[t]
  BY <1>2, <1>3
<1>5. PushTypeOK'
  BY <1>1, <1>2, <1>3 DEF PushInv, PushTypeOK, Pairs
<1>6. CallIsSound(c)'
  <2>1. Born(call[c].id, call[c].user, call[c].token)'
    BY <1>1, <1>2, BornStays
  <2> QED BY <1>1, <1>2, <2>1, CallIsTyped DEF CallIsSound
<1>7. Gathers(c)'
  BY <1>1 DEF Gathers
<1>8. InHand(c)'
  <2>1. CASE pc = "done"
    BY <1>1, <2>1 DEF InHand, Busy
  <2>2. CASE pc = "dropRow"
    <3>1. call[c].pc = "release"
      BY <1>2, <2>2 DEF CallIsSound
    <3>2. call[c].token \notin overlap => call[c].alone /\ RowsOf(call[c].token) \subseteq {RowOf(c)}
      BY <1>2, <2>2 DEF InHand
    <3>3. RowsOf(call[c].token)' = RowsOf(call[c].token) /\ RowOf(c)' = RowOf(c)
      BY <1>1 DEF RowsOf, RowOf
    <3> QED BY <1>1, <1>4, <2>2, <3>2, <3>3 DEF InHand
  <2> QED BY <2>1, <2>2
<1>9. ~Busy(c)' => Rests(call[c].token)'
  BY <1>1 DEF Rests, Busy
<1> QED BY <1>1, <1>2, <1>4, <1>5, <1>6, <1>7, <1>8, <1>9, OneCallSteps

LEMMA PutPointerKeeps ==
    ASSUME PushInv, NEW c \in Calls, PutPointer(c)
    PROVE  PushInv'
<1>1. /\ call[c].pc = "point" /\ rows' = rows /\ overlap' = overlap /\ CallGoto(c, "done")
      /\ pointer' = [pointer EXCEPT ![call[c].token] = Handle(c)]
  BY DEF PutPointer, Handle
<1>2. Busy(c) /\ call[c].token \in Tokens /\ InHand(c) /\ Handle(c) \in Pairs
  BY <1>1, CallIsTyped, HandleIsPair DEF Busy
<1>3. ASSUME call[c].token \notin overlap PROVE PointerNamesTheRow(call[c].token)'
  <2>1. RowsOf(call[c].token) = {RowOf(c)}
    BY <1>1, <1>2, <1>3 DEF InHand
  <2>2. pointer'[call[c].token] = Handle(c)
    BY <1>1, <1>2 DEF PushInv, PushTypeOK
  <2>3. call'[c].token = call[c].token
    BY <1>1, <1>2, CallUpdates DEF CallStates
  <2> QED BY <1>1, <1>2, <2>1, <2>2, <2>3, HandleIsPair DEF PointerNamesTheRow, RowsOf, RowOf
<1>4. "done" \in CallStates \ {"idle"}
  BY DEF CallStates
<1> QED BY <1>1, <1>2, <1>3, <1>4, PointStep

LEMMA ReleaseKeeps ==
    ASSUME PushInv, NEW c \in Calls, Release(c)
    PROVE  PushInv'
<1>1. /\ call[c].pc = "release" /\ rows' = rows /\ overlap' = overlap
      /\ CallGoto(c, AfterRelease(c)) /\ pointer' = [pointer EXCEPT ![call[c].token] = NoPointer]
  BY DEF Release
<1>2. /\ Busy(c) /\ call[c].token \in Tokens /\ InHand(c) /\ CallIsSound(c)
      /\ call[c].op \in {"remove", "sweep"}
  BY <1>1, CallIsTyped DEF Busy, CallIsSound
<1>3. PICK pc \in CallStates \ {"idle"} : pc = AfterRelease(c)
  BY DEF AfterRelease, CallStates
<1>4. pc \in {"dropRow", "done"} /\ (pc = "dropRow" <=> call[c].op = "sweep")
  BY <1>2, <1>3 DEF AfterRelease
<1>5. ASSUME pc = "done", call[c].token \notin overlap
      PROVE  PointerNamesTheRow(call[c].token)'
  <2>1. RowsOf(call[c].token) = {}
    BY <1>1, <1>2, <1>4, <1>5 DEF InHand
  <2>2. pointer'[call[c].token] = NoPointer
    BY <1>1, <1>2 DEF PushInv, PushTypeOK
  <2>3. call'[c].token = call[c].token
    BY <1>1, <1>2, <1>3, CallUpdates
  <2> QED BY <1>1, <2>1, <2>2, <2>3 DEF PointerNamesTheRow, RowsOf
<1> QED BY <1>1, <1>2, <1>3, <1>4, <1>5, PointStep

LEMMA DropDeviceRowKeeps ==
    ASSUME PushInv, NEW c \in Calls, DropDeviceRow(c)
    PROVE  PushInv'
<1>1. /\ call[c].pc = "dropRow" /\ pointer' = pointer /\ overlap' = overlap
      /\ rows' = {x \in rows : ~(x.user = call[c].user /\ x.id = call[c].id)}
      /\ CallGoto(c, IF call[c].op = "remove" THEN "owner" ELSE "done")
  BY DEF DropDeviceRow
<1>2. /\ Busy(c) /\ call[c].token \in Tokens /\ CallIsSound(c) /\ InHand(c)
      /\ call[c].op \in {"remove", "sweep"} /\ Born(call[c].id, call[c].user, call[c].token)
  BY <1>1, CallIsTyped DEF Busy, CallIsSound
<1>3. PICK pc \in CallStates \ {"idle"} : pc = IF call[c].op = "remove" THEN "owner" ELSE "done"
  BY DEF CallStates
<1>4. /\ call' \in [Calls -> CallRecords] /\ \A d \in Calls \ {c} : call'[d] = call[d]
      /\ call'[c].op = call[c].op /\ call'[c].user = call[c].user
      /\ call'[c].token = call[c].token /\ call'[c].id = call[c].id
      /\ call'[c].alone = call[c].alone /\ call'[c].pc = pc
  BY <1>1, <1>2, <1>3, CallUpdates
<1>5. \A x : x.token # call[c].token => (x \in rows' <=> x \in rows)
  BY <1>1, <1>2, DropsOwnRow
<1>6. ASSUME call[c].token \notin overlap PROVE RowsOf(call[c].token)' = {}
  <2>1. RowsOf(call[c].token) \subseteq {RowOf(c)}
    BY <1>1, <1>2, <1>6 DEF InHand
  <2>2. RowOf(c).user = call[c].user /\ RowOf(c).id = call[c].id
    BY DEF RowOf
  <2> QED BY <1>1, <1>4, <2>1, <2>2 DEF RowsOf
<1>7. CallIsSound(c)'
  <2>1. Born(call[c].id, call[c].user, call[c].token)'
    BY <1>2, <1>4, BornStays
  <2> QED BY <1>2, <1>3, <1>4, <2>1, CallIsTyped DEF CallIsSound
<1>8. Gathers(c)'
  BY <1>2, <1>4 DEF Gathers
<1>9. InHand(c)'
  <2>1. Handle(c)' = Handle(c)
    BY <1>4 DEF Handle
  <2>2. call[c].token \notin overlap => call[c].alone /\ (call[c].op = "remove" => pointer[call[c].token] = Handle(c))
    BY <1>2 DEF InHand
  <2> QED BY <1>1, <1>2, <1>3, <1>4, <1>6, <2>1, <2>2 DEF InHand, Busy
<1>10. ~Busy(c)' => Rests(call[c].token)'
  <2>1. SUFFICES ASSUME ~Busy(c)', call[c].token \notin overlap
                 PROVE  PointerNamesTheRow(call[c].token)'
    BY <1>1, <1>4 DEF Rests
  <2>2. call[c].op = "sweep"
    BY <1>2, <1>3, <1>4, <2>1 DEF Busy
  <2>3. pointer[call[c].token] = NoPointer
    BY <1>1, <1>2, <2>1, <2>2 DEF InHand
  <2> QED BY <1>1, <1>4, <1>6, <2>1, <2>3 DEF PointerNamesTheRow, RowsOf
<1>11. PushTypeOK'
  BY <1>1, <1>4 DEF PushInv, PushTypeOK
<1> QED BY <1>1, <1>2, <1>3, <1>4, <1>5, <1>7, <1>8, <1>9, <1>10, <1>11, OneCallSteps

LEMMA ReadOwnerKeeps ==
    ASSUME PushInv, NEW c \in Calls, ReadOwner(c)
    PROVE  PushInv'
<1>1. /\ call[c].pc = "owner" /\ rows' = rows /\ pointer' = pointer /\ overlap' = overlap
      /\ CallGoto(c, IF pointer[call[c].token].user = call[c].user THEN "release"
                     ELSE AfterRelease(c))
  BY DEF ReadOwner
<1>2. /\ Busy(c) /\ call[c].token \in Tokens /\ CallIsSound(c) /\ InHand(c)
      /\ call[c].op \in {"remove", "sweep"} /\ Born(call[c].id, call[c].user, call[c].token)
  BY <1>1, CallIsTyped DEF Busy, CallIsSound
<1>3. PICK pc \in CallStates \ {"idle"} :
        pc = IF pointer[call[c].token].user = call[c].user THEN "release" ELSE AfterRelease(c)
  BY DEF AfterRelease, CallStates
<1>4. /\ call' \in [Calls -> CallRecords] /\ \A d \in Calls \ {c} : call'[d] = call[d]
      /\ call'[c].op = call[c].op /\ call'[c].user = call[c].user
      /\ call'[c].token = call[c].token /\ call'[c].id = call[c].id
      /\ call'[c].alone = call[c].alone /\ call'[c].pc = pc
  BY <1>1, <1>2, <1>3, CallUpdates
<1>5. pc \in {"release", "dropRow", "done"}
  BY <1>3 DEF AfterRelease
<1>6. ASSUME call[c].token \notin overlap
      PROVE  pc = "release" /\ pointer[call[c].token] = Handle(c)
  <2>1. pointer[call[c].token] = Handle(c)
    BY <1>1, <1>2, <1>6 DEF InHand
  <2> QED BY <1>2, <1>3, <2>1, HandleIsPair
<1>7. CallIsSound(c)'
  <2>1. Born(call[c].id, call[c].user, call[c].token)'
    BY <1>2, <1>4, <1>5, BornStays
  <2> QED BY <1>2, <1>4, <1>5, <2>1, CallIsTyped DEF CallIsSound
<1>8. Gathers(c)'
  BY <1>2, <1>4 DEF Gathers
<1>9. InHand(c)'
  <2>1. /\ Handle(c)' = Handle(c) /\ RowOf(c)' = RowOf(c)
        /\ RowsOf(call[c].token)' = RowsOf(call[c].token)
    BY <1>1, <1>4 DEF Handle, RowOf, RowsOf
  <2> QED BY <1>1, <1>2, <1>4, <1>6, <2>1 DEF InHand
<1>10. ~Busy(c)' => Rests(call[c].token)'
  BY <1>1, <1>4, <1>6 DEF Rests, Busy
<1> QED BY <1>1, <1>2, <1>4, <1>5, <1>7, <1>8, <1>9, <1>10, ReadStep

LEMMA CallStopsKeeps ==
    ASSUME PushInv, NEW c \in Calls, CallStops(c)
    PROVE  PushInv'
<1>1. /\ Busy(c) /\ rows' = rows /\ pointer' = pointer /\ overlap' = overlap \cup {call[c].token}
      /\ CallGoto(c, "done")
  BY DEF CallStops
<1>2. /\ call[c].token \in Tokens /\ CallIsSound(c)
      /\ Born(call[c].id, call[c].user, call[c].token)
  BY <1>1, CallIsTyped
<1>3. /\ call' \in [Calls -> CallRecords] /\ \A d \in Calls \ {c} : call'[d] = call[d]
      /\ call'[c].op = call[c].op /\ call'[c].user = call[c].user
      /\ call'[c].token = call[c].token /\ call'[c].id = call[c].id
      /\ call'[c].alone = call[c].alone /\ call'[c].pc = "done"
  BY <1>1, CallUpdates DEF CallStates
<1>4. CallIsSound(c)'
  <2>1. Born(call[c].id, call[c].user, call[c].token)'
    BY <1>1, <1>2, <1>3, BornStays
  <2> QED BY <1>1, <1>2, <1>3, <2>1, CallIsTyped DEF CallIsSound, Busy
<1>5. InHand(c)' /\ Gathers(c)' /\ Rests(call[c].token)'
  BY <1>1, <1>3 DEF InHand, Gathers, Rests
<1>6. PushTypeOK'
  BY <1>1, <1>2, <1>3 DEF PushInv, PushTypeOK
<1> QED BY <1>1, <1>2, <1>3, <1>4, <1>5, <1>6, OneCallSteps

LEMMA PushStutters == PushInv /\ UNCHANGED pushVars => PushInv'
<1> SUFFICES ASSUME PushInv, UNCHANGED pushVars PROVE PushInv'
  OBVIOUS
<1>1. rows' = rows /\ pointer' = pointer /\ call' = call /\ overlap' = overlap
  BY DEF pushVars
<1>2. ASSUME NEW c \in Calls PROVE (CallIsSound(c) /\ InHand(c) /\ Gathers(c))'
  <2>1. CallIsSound(c)'
    BY <1>1 DEF PushInv, CallIsSound, Born
  <2>2. InHand(c)'
    BY <1>1 DEF PushInv, InHand, Busy, PointerNamesTheRow, RowsOf, RowOf, Handle
  <2>3. Gathers(c)'
    BY <1>1 DEF PushInv, Gathers, Busy, RowsOf, RowOf, OfUser
  <2> QED BY <2>1, <2>2, <2>3
<1>3. (\A t \in Tokens : Rests(t))' /\ SoleWorker' /\ PushTypeOK'
  BY <1>1 DEF PushInv, Rests, SoleWorker, PushTypeOK, Busy, PointerNamesTheRow
<1> QED BY <1>1, <1>2, <1>3 DEF PushInv, Born

LEMMA StepPush == PushInv /\ [PushNext]_pushVars => PushInv'
<1> SUFFICES ASSUME PushInv, [PushNext]_pushVars PROVE PushInv'
  OBVIOUS
<1>1. CASE UNCHANGED pushVars
  BY <1>1, PushStutters
<1>2. ASSUME NEW c \in Calls,
             \/ \E u \in Tenants, t \in Tokens : Register(c, u, t)
             \/ \E x \in rows : Remove(c, x) \/ Sweep(c, x)
      PROVE  PushInv'
  BY <1>2, RegisterKeeps, RemoveKeeps
<1>3. ASSUME NEW c \in Calls,
             \/ Collapse(c) \/ ReadHolder(c) \/ Steal(c) \/ PutDeviceRow(c) \/ PutPointer(c)
             \/ DropDeviceRow(c) \/ ReadOwner(c) \/ Release(c) \/ CallStops(c)
      PROVE  PushInv'
  BY <1>3, CollapseKeeps, ReadHolderKeeps, StealKeeps, PutDeviceRowKeeps, PutPointerKeeps,
     DropDeviceRowKeeps, ReadOwnerKeeps, ReleaseKeeps, CallStopsKeeps
<1> QED BY <1>1, <1>2, <1>3 DEF PushNext

\* The registration that has just pointed at its row was not overlapped.
LEMMA RelaunchIsClean ==
    ASSUME PushInv, [PushNext]_pushVars, NEW c \in Calls
    PROVE  RelaunchHeals(c)
<1> SUFFICES ASSUME call[c].pc = "point", call[c].alone, pointer' # pointer
             PROVE  OfUser(call[c].user, call[c].token)' = {RowOf(c)}
  BY DEF RelaunchHeals, RowOf
<1>1. Busy(c) /\ CallIsSound(c) /\ Gathers(c)
  BY CallIsTyped DEF Busy
<1>2. OfUser(call[c].user, call[c].token) = {RowOf(c)}
  BY <1>1 DEF Gathers, CallIsSound
<1>3. PICK d \in Calls : PutPointer(d) \/ Release(d)
  <2>1. \A d \in Calls, u \in Tenants, t \in Tokens : ~Register(d, u, t)
    BY DEF Register, Begin
  <2>2. \A d \in Calls, x \in rows : ~Remove(d, x) /\ ~Sweep(d, x)
    BY DEF Remove, Sweep, Begin
  <2>3. \A d \in Calls : ~Collapse(d) /\ ~ReadHolder(d) /\ ~Steal(d) /\ ~PutDeviceRow(d)
    BY DEF Collapse, ReadHolder, Steal, PutDeviceRow
  <2>4. \A d \in Calls : ~DropDeviceRow(d) /\ ~ReadOwner(d) /\ ~CallStops(d)
    BY DEF DropDeviceRow, ReadOwner, CallStops
  <2> QED BY <2>1, <2>2, <2>3, <2>4 DEF PushNext, pushVars
<1>4. PICK pc : CallGoto(d, pc) /\ rows' = rows
  BY <1>3 DEF PutPointer, Release
<1>5. call'[c].user = call[c].user /\ call'[c].token = call[c].token
  <2>1. call[c] \in CallRecords /\ call[d] \in CallRecords /\ call \in [Calls -> CallRecords]
    BY DEF PushInv
  <2>2. CASE d = c
    <3>1. call'[c] = [call[c] EXCEPT !.pc = pc]
      BY <1>4, <2>1, <2>2 DEF CallGoto
    <3> QED BY <2>1, <3>1 DEF CallRecords
  <2>3. CASE d # c
    BY <1>4, <2>1, <2>3 DEF CallGoto
  <2> QED BY <2>2, <2>3
<1> QED BY <1>2, <1>4, <1>5 DEF OfUser

(* Every reachable state of the push registrations is well typed               *)
(* (pushdevice.go).                                                            *)
THEOREM PushTypeCorrect == PushSpec => []PushTypeOK
<1>1. PushInv => PushTypeOK
  BY DEF PushInv
<1> QED BY <1>1, InitPush, StepPush, PTL DEF PushSpec

(* A token is delivered to once, for the tenant its pointer names, unless two  *)
(* calls for it overlapped or one stopped half way; and a registration nothing *)
(* overlaps leaves its tenant one row whatever happened before: for any        *)
(* tenants, tokens and calls (PutPushDevice, releasePushToken).                *)
THEOREM TokensAreHeldOnce == PushSpec => OneRowPerToken
<1>1. PushInv => \A t \in Tokens \ overlap :
                    (\A c \in Calls : Busy(c) => call[c].token # t) => PointerNamesTheRow(t)
  BY DEF PushInv, Rests
<1>2. PushInv /\ [PushNext]_pushVars => [\A c \in Calls : RelaunchHeals(c)]_pushVars
  BY RelaunchIsClean
<1> QED BY <1>1, <1>2, InitPush, StepPush, PTL DEF PushSpec, OneRowPerToken

-----------------------------------------------------------------------------
(* The two side by side, as they are checked.                                  *)

(* Whatever the requests and the registrations do in turn, the directory's     *)
(* items and the registrations are well typed, for any users and devices       *)
(* (internal/lineupapi).                                                     *)
THEOREM TenantsTypeCorrect == AllSpec => []AllTypeOK
<1>1. AllInit => Init /\ PushInit
  BY DEF AllInit
<1>2. [AllNext]_<<vars, pushVars, part>> => [Next]_vars /\ [PushNext]_pushVars
  BY DEF AllNext
<1>3. TypeOK /\ PushTypeOK => AllTypeOK
  BY DEF AllTypeOK
<1> QED BY <1>1, <1>2, <1>3, DirectoryTypeCorrect, PushTypeCorrect, PTL DEF AllSpec, Spec, PushSpec
=============================================================================
