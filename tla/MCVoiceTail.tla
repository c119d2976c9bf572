--------------------------- MODULE MCVoiceTail ---------------------------
(* The instances of VoiceTail that TLC checks: the cfg files give the      *)
(* bounds, and no definition is replaced.                                  *)
EXTENDS VoiceTailInduction
=============================================================================
