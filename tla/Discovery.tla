----------------------------- MODULE Discovery -----------------------------
(***************************************************************************)
(* How a client of the jailbreak build finds the daemon's port             *)
(* (IPCClient.m, GSDiscovery.c).  Where the direct look-ups are denied, it  *)
(* asks over XPC and waits a bounded time; the reply may come later, while  *)
(* the caller leaves or when it has long gone.  The attempt they share is   *)
(* freed by the last of the two, and the send right in a reply is copied    *)
(* only for a caller that still takes it.                                   *)
(*                                                                         *)
(* rights counts the send rights for the daemon that the process holds.     *)
(***************************************************************************)
EXTENDS Integers, FiniteSets

CONSTANT Attempts        \* bound: attempts whose memory exists at a time

ASSUME AttemptsAssumption == IsFiniteSet(Attempts)

VARIABLES attempt, rights

discoveryVars == <<attempt, rights>>

(* caller: waits, leaves with the port or without, or is gone.  port: a copied *)
(* send right that has not been taken (the code is success).                  *)
Attempt == [caller : {"due", "took", "failed", "gone"}, callback : {"due", "releasing", "gone"},
            refs : Nat, freed : BOOLEAN, finished : BOOLEAN, port : BOOLEAN]

(* No attempt: nobody is left and the memory is free. *)
Unused == [caller |-> "gone", callback |-> "gone", refs |-> 0, freed |-> TRUE,
           finished |-> FALSE, port |-> FALSE]

DiscoveryInit == attempt = [a \in Attempts |-> Unused] /\ rights = 0

Created == [Unused EXCEPT !.caller = "due", !.callback = "due", !.refs = 2, !.freed = FALSE]

(* The message is sent; the reply will come, an error when it is cancelled. *)
Resolve(a) ==
    /\ attempt[a] = Unused
    /\ attempt' = [attempt EXCEPT ![a] = Created]
    /\ UNCHANGED rights

(* Mutant: a reply after the time-out is used all the same. *)
Awaited_Always(a) == TRUE

Awaited(a) == ~attempt[a].finished

(* The callback, under the lock: a port, or an error of whatever kind. *)
Reply(a) ==
    /\ attempt[a].callback = "due"
    /\ \/ /\ Awaited(a)
          /\ \E ok \in BOOLEAN :
                /\ attempt' = [attempt EXCEPT ![a].callback = "releasing", ![a].finished = TRUE,
                                              ![a].port = ok]
                /\ rights' = rights + (IF ok THEN 1 ELSE 0)
       \/ /\ ~Awaited(a)
          /\ attempt' = [attempt EXCEPT ![a].callback = "releasing"]
          /\ UNCHANGED rights

(* The caller, signalled or out of time, under the lock: it takes the port, *)
(* or closes the attempt.                                                   *)
Take(a) ==
    /\ attempt[a].caller = "due"
    /\ attempt' = [attempt EXCEPT
            ![a].caller = IF attempt[a].port THEN "took" ELSE "failed",
            ![a].finished = TRUE,
            ![a].port = FALSE]
    /\ UNCHANGED rights

(* Mutant: whoever leaves first frees the attempt. *)
Released_First(record) == [record EXCEPT !.refs = 0, !.freed = TRUE]

(* GSReleaseDiscoveryAttempt *)
Released(record) ==
    IF record.refs = 1
    THEN [record EXCEPT !.refs = 0, !.freed = TRUE]
    ELSE [record EXCEPT !.refs = @ - 1]

(* What is left of an attempt that nobody holds is not told apart. *)
Settled(record) ==
    IF record = [Unused EXCEPT !.finished = record.finished]
    THEN Unused ELSE record

CallbackReleases(a) ==
    /\ attempt[a].callback = "releasing"
    /\ attempt' = [attempt EXCEPT ![a] = Settled(Released([@ EXCEPT !.callback = "gone"]))]
    /\ UNCHANGED rights

CallerReleases(a) ==
    /\ attempt[a].caller \in {"took", "failed"}
    /\ attempt' = [attempt EXCEPT ![a] = Settled(Released([@ EXCEPT !.caller = "gone"]))]
    /\ UNCHANGED rights

DiscoveryStep == \E a \in Attempts : Reply(a) \/ CallbackReleases(a)

-----------------------------------------------------------------------------
(* Copies that a caller will take, or has taken on its way out. *)
Held == {a \in Attempts : \/ attempt[a].caller = "due" /\ attempt[a].port
                          \/ attempt[a].caller = "took"}

(* An attempt is freed only when neither its caller nor its callback will   *)
(* touch it again, and then it is (GSDiscovery.c GSReleaseDiscoveryAttempt). *)
NoUseAfterFree ==
    \A a \in Attempts :
        attempt[a].freed <=> attempt[a].caller = "gone" /\ attempt[a].callback = "gone"
=============================================================================
