------------------------------ MODULE MCFuture ------------------------------
(* The instances of Future that TLC checks: see MCFuture.cfg and           *)
(* MCFuture_Cancel.cfg.                                                    *)
EXTENDS Future
=============================================================================
