------------------------------ MODULE MCSpeech ------------------------------
(* Model values for Speech: every constant is given in Speech.cfg.         *)
EXTENDS Speech
=============================================================================
