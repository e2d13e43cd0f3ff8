---------------------------- MODULE MCTaskToken ----------------------------
(* TaskToken with the numbers of the source.                                *)
EXTENDS TaskToken

\* Source tokens that expire during the review, soon, and too late for a record.
Sources == {3, 500, 700}
=============================================================================
