--------------------------------- MODULE Job ---------------------------------
(***************************************************************************)
(* A job that the program does with a machine it knows nothing of.  Every  *)
(* job has these variables, of which it makes its own use; Machine and     *)
(* Display have the jobs.                                                  *)
(***************************************************************************)

CONSTANT Inputs    \* of each job, the machines it may meet: how they are, and what is read of them

VARIABLES
  job,
  source,    \* how things are
  code,      \* what is worked on, and what goes on beside it
  walk,      \* where the job is
  answers    \* what it has said

vars == <<job, source, code, walk, answers>>
=============================================================================
