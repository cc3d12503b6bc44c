---------------------------- MODULE AppLifecycle ----------------------------
(***************************************************************************)
(* The life of a process of this repository.  The server (cmd/main.go) and *)
(* the one-shot commands (cmd/jobs, cmd/seed) are fx applications: what    *)
(* they are made of appends hooks to a lifecycle, fx starts the hooks in   *)
(* that order and stops the started ones in the reverse order.             *)
(*                                                                         *)
(* This module knows nothing of the work that is done between start and    *)
(* stop: a module that has requests or a job to run takes it in by         *)
(* INSTANCE and says when a hook may stop and what a kill loses.           *)
(***************************************************************************)
EXTENDS Naturals, Sequences

CONSTANTS
    Hooks,      \* the hooks, in the order in which they are appended
    Pinged      \* those whose start can fail

VARIABLES
    phase,      \* where the process is in its life
    open        \* the hooks that are started and not yet stopped

vars == <<phase, open>>

Phase == {"down", "starting", "serving", "stopping"}
Hook  == {Hooks[i] : i \in DOMAIN Hooks}

TypeOK ==
    /\ phase \in Phase
    /\ open \subseteq Hook

Init ==
    /\ phase = "down"
    /\ open  = {}

(* Every hook before the i-th is started, and none from the i-th on. *)
NextToStart(i) == open = {Hooks[k] : k \in 1 .. i - 1}

(* The last hook that is started. *)
NextToStop(i) ==
    /\ Hooks[i] \in open
    /\ \A k \in i + 1 .. Len(Hooks) : Hooks[k] \notin open

-----------------------------------------------------------------------------

(* The process is started, its settings are valid and its migrations ran;  *)
(* otherwise it exits at once, which changes nothing here.                 *)
Boot ==
    /\ phase = "down"
    /\ phase' = "starting"
    /\ UNCHANGED open

StartHook(i) ==
    /\ phase = "starting"
    /\ NextToStart(i)
    /\ open'  = open \cup {Hooks[i]}
    /\ phase' = IF i = Len(Hooks) THEN "serving" ELSE "starting"

(* A store does not answer its ping: what was started is stopped again. *)
StartFails(i) ==
    /\ phase = "starting"
    /\ NextToStart(i)
    /\ Hooks[i] \in Pinged
    /\ phase' = IF open = {} THEN "down" ELSE "stopping"
    /\ UNCHANGED open

(* SIGINT or SIGTERM. *)
Signal ==
    /\ phase = "serving"
    /\ phase' = "stopping"
    /\ UNCHANGED open

StopHook(i) ==
    /\ phase = "stopping"
    /\ NextToStop(i)
    /\ open'  = open \ {Hooks[i]}
    /\ phase' = IF open' = {} THEN "down" ELSE "stopping"

(* The process ends where it is: killed, out of time while it stops, or    *)
(* its port is taken.                                                      *)
Kill ==
    /\ phase # "down"
    /\ phase' = "down"
    /\ open'  = {}

=============================================================================
