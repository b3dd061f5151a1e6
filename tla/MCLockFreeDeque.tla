--------------------------- MODULE MCLockFreeDeque ---------------------------
(* The instance of LockFreeDeque that TLC checks: see MCLockFreeDeque.cfg. *)
EXTENDS LockFreeDeque
=============================================================================
