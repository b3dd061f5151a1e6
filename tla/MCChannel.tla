------------------------------ MODULE MCChannel ------------------------------
(* The instances of Channel that TLC checks: see MCChannel.cfg and         *)
(* MCChannel_Unbuffered.cfg.                                               *)
EXTENDS Channel
=============================================================================
