-------------------------- MODULE MCBackupRequest --------------------------
(* Instances of BackupRequest for TLC. *)
EXTENDS BackupRequestProperties, TLC

CONSTANTS a1, a2, photo

(* Requests for one photo, made for the first account. *)
SameAsset == [r \in Requests |-> photo]
FirstOwner == [r \in Requests |-> a1]
Interchangeable == Permutations(Requests)

(* Of two requests, one has no photo. *)
OneUnsupported ==
    [r \in Requests |-> IF r = CHOOSE q \in Requests : TRUE THEN NoAsset ELSE photo]

Host(foreground, allowed, routing, destination, viewing) ==
    [foreground |-> foreground, allowed |-> allowed, routing |-> routing,
     destination |-> destination, viewing |-> viewing]
Ready == Host(TRUE, TRUE, TRUE, a1, a1)

HostsRouting    == {Ready, Host(TRUE, TRUE, FALSE, a1, a1)}
HostsForeground == {Ready, Host(FALSE, TRUE, TRUE, a1, a1)}

(* Each of the surroundings away at a time, or another account. *)
HostsEach ==
    HostsRouting \cup HostsForeground \cup
    {Host(TRUE, FALSE, TRUE, a1, a1), Host(TRUE, TRUE, TRUE, a2, a1),
     Host(TRUE, TRUE, TRUE, a1, a2), Host(TRUE, TRUE, TRUE, a1, NoAccount)}
=============================================================================
