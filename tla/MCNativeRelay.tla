--------------------------- MODULE MCNativeRelay ---------------------------
(* Instances of NativeRelay for TLC. *)
EXTENDS NativeRelayProperties, TLC

CONSTANTS u1, u2, m1, m2

(* Each identity has an email of its own. *)
OwnEmail == u1 :> m1 @@ u2 :> m2
OneEmail == u1 :> m1
=============================================================================
