-------------------------- MODULE TenantConnection --------------------------
(***************************************************************************)
(* What a tenant's connection record promises whoever reads it, with no    *)
(* versions, reads or races: credentials change only when the tenant       *)
(* submits new ones, and a status is a verdict on the credentials beside   *)
(* it (the ConnectionStore contract, internal/lineupapi/credentials.go).   *)
(***************************************************************************)
CONSTANTS
    Submitted,  \* the credentials a tenant may submit
    Initial,    \* the credentials connected at the start, if any are
    Nothing     \* no credentials

VARIABLES
    creds,      \* the sealed credentials on the record
    status,     \* ConnStatus, "none" when there is no record
    proven      \* credentials that logged in and controlled their team

Init ==
    /\ proven = {Initial}
    /\ \/ creds = Nothing /\ status = "none"
       \/ creds = Initial /\ status = "verified"

\* POST /v1/connect: credentials arrive unverified, and only this way.
Submit ==
    /\ creds' \in Submitted
    /\ status' = "pending"
    /\ UNCHANGED proven

\* A login with some credentials succeeds and their team is proven.
Prove ==
    /\ proven' \in {proven \cup {c} : c \in Submitted \cup {Initial}}
    /\ UNCHANGED <<creds, status>>

\* The record is marked verified: its own credentials have been proven.
Verify ==
    /\ creds \in proven
    /\ status' = "verified"
    /\ UNCHANGED <<creds, proven>>

\* A check that did not verify the stored credentials.
Fail ==
    /\ status' \in {"needs_reconnect", "interrupted", "check_failed"}
    /\ UNCHANGED <<creds, proven>>

Next == Submit \/ Prove \/ Verify \/ Fail

Spec == Init /\ [][Next]_<<creds, status, proven>>
=============================================================================
