------------------------------ MODULE MCFutex ------------------------------
(* Instances of Futex for TLC.                                             *)
EXTENDS Futex, TLC

CONSTANTS a, b, c

(* a waits with a timeout, b sleeps, c waits without a timeout.            *)
Sleeps == (a :> {}) @@ (b :> {2}) @@ (c :> {})
FutexTimes == (a :> {1}) @@ (b :> {}) @@ (c :> {0})
=============================================================================
