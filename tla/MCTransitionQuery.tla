-------------------------- MODULE MCTransitionQuery --------------------------
(***************************************************************************)
(* Three pieces of evidence of one transition and one of the next, any     *)
(* number of which may be ingested before, during and after a walk, an     *)
(* aggregate request and a visit; their runs have no behavior finding, one *)
(* or several, also of one kind.  Page sizes below and above the bounds of *)
(* the server, and its own (scaled down: 1 by default, 2 at most).         *)
(***************************************************************************)
EXTENDS TransitionQuery

MCIds == 1 .. 4
MCFromOf == [e \in MCIds |-> IF e = 3 THEN 2 ELSE 1]
MCToOf == [e \in MCIds |-> IF e = 3 THEN 3 ELSE 2]
MCColumnOf ==
  [g \in Columns |-> [e \in MCIds |->
     CASE g = "runtime" /\ e % 2 = 0 -> "node20"
       [] g = "outcome" /\ e = 4 -> "CANDIDATE_REGRESSION_OBSERVED"
       [] OTHER -> "usual"]]
MCFindingsOf ==
  << << >>, <<"FILESYSTEM_PATH">>, <<"PROCESS_PATTERN">>,
     <<"FILESYSTEM_PATH", "FILESYSTEM_PATH", "PROCESS_PATTERN">> >>
MCSignerOf == [e \in MCIds |-> IF e < 3 THEN "alice" ELSE "bob"]
MCLimits == {-1, 0, 7, NoLimit}
=============================================================================
