-------------------------------- MODULE Jobs --------------------------------
(***************************************************************************)
(* The pure algorithms of the runtime system and of its libraries are      *)
(* checked by one run.  A behaviour of that run is one job: a call, or a    *)
(* few calls that may interleave, of one component on one input.           *)
(***************************************************************************)

VARIABLES
  job,    \* the input: a record whose field part names the component
  res     \* what the calls have produced so far

vars == <<job, res>>
=============================================================================
