---------------------------- MODULE MCAnalyzerHost ----------------------------
(***************************************************************************)
(* AnalyzerHost with the three jobs of the repository.                     *)
(***************************************************************************)
EXTENDS AnalyzerHost

MCJob == {"genre", "mpaa", "thousands"}
MCGenreJobs == {"genre"}
MCFileCounts == 0 .. 2
===============================================================================
