----------------------------- MODULE MCTenants ------------------------------
(* Small instances of Directory and PushDevices.  The two share no item: a    *)
(* run takes one of them, so that their states add up and do not multiply.    *)
EXTENDS Directory, PushDevices, TLC

VARIABLE part

AllInit == part \in {"directory", "push"} /\ Init /\ PushInit

AllNext ==
    /\ UNCHANGED part
    /\ \/ part = "directory" /\ Next /\ UNCHANGED pushVars
       \/ part = "push" /\ PushNext /\ UNCHANGED vars

AllSpec == AllInit /\ [][AllNext]_<<vars, pushVars, part>>

AllTypeOK == TypeOK /\ PushTypeOK

Symmetry ==
    Permutations(Requests) \cup Permutations(Users) \cup Permutations(Teams)
        \cup Permutations(Emails)
=============================================================================
