-------------------------------- MODULE MCArc --------------------------------
(* The instances of Arc that TLC checks: see MCArc.cfg and                 *)
(* MCArc_UseAfterFree.cfg.                                                 *)
EXTENDS Arc
=============================================================================
