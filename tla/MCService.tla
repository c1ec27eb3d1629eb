-------------------------------- MODULE MCService --------------------------------
(* Service on small instances: an old build one schema step in, the new one two further,
   and the jobs that the first step renames. *)
EXTENDS Service

MCLatest == <<1, 3>>

MCLegacyJobs ==
  {[stage |-> "delivering", delivery |-> "not_attempted"],
   [stage |-> "delivering", delivery |-> "attempting"],
   [stage |-> "cleaning", delivery |-> "not_attempted"]}

================================================================================
