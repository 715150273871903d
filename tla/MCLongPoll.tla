----------------------------- MODULE MCLongPoll -----------------------------
(***************************************************************************)
(* Instances of LongPoll for TLC.                                          *)
(***************************************************************************)
EXTENDS LongPoll
=============================================================================
