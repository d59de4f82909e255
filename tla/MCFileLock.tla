----------------------------- MODULE MCFileLock -----------------------------
(* A small instance of FileLock for TLC. *)
EXTENDS FileLock, TLC

CONSTANTS u1, u2, u3

\* Two threads of one process, one of another.
UserProcess == u1 :> "p1" @@ u2 :> "p1" @@ u3 :> "p2"
=============================================================================
