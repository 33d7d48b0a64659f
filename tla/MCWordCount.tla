------------------------------ MODULE MCWordCount ------------------------------
(***************************************************************************)
(* WordCount with every sorted input of up to four lines over three words. *)
(***************************************************************************)
EXTENDS WordCount

MCWord == {"a", "b", "c"}
MCCount == {1, 2}
===============================================================================
