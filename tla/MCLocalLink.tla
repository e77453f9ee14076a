---------------------------- MODULE MCLocalLink ----------------------------
(* Instances of LocalLink for TLC: with Base = 4 a length is below 16, and a   *)
(* buffer of 16 bytes stands for LOCAL_MAX_RMEM = 65536.                       *)
EXTENDS LocalLink

SmallThenLarge == <<0, 8, 1>>
=============================================================================
