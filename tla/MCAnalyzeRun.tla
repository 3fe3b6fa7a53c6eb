---------------------------- MODULE MCAnalyzeRun ----------------------------
(* Three files, the last of them without a row in the database. *)
EXTENDS AnalyzeRun

MCFile    == 1 .. 3
MCOrder   == [f \in MCFile |-> f]
MCIndexed == {1, 2}
=============================================================================
