---------------------------- MODULE MCLifecycle -----------------------------
(***************************************************************************)
(* An instance of Lifecycle for TLC.                                       *)
(***************************************************************************)
EXTENDS Lifecycle

CONSTANTS s1, s2, t1  \* servers, and a task

TwoServers == {s1, s2}
OneTask == {t1}
=============================================================================
