---------------------------- MODULE MCJobManager ----------------------------
(***************************************************************************)
(* Instances of JobManager: one job, two calls of Run, one or two requests *)
(* to cancel, and a desktop and a server that open one database.           *)
(***************************************************************************)
EXTENDS JobManager

MCOneJob == {"j1"}
MCProcs == {"desktop", "server"}
=============================================================================
