------------------------------- MODULE MCVerify -------------------------------
(***************************************************************************)
(* A plan of three commands: build is given by depguard.yaml, the test     *)
(* script comes and goes with the developer's edits.  The project depends  *)
(* on left-pad ^1.0.0, of which 1.1.0 may be locked; one content does not  *)
(* depend on it.  The registry has served two archives as 1.0.0; another   *)
(* verification fetches one of them or the candidate into the same cache.  *)
(***************************************************************************)
EXTENDS Verify

MCNames == <<"install", "build", "test">>
MCPackage == <<"left-pad">>

Manifest == << <<"dependencies">>, MCPackage>> :> [operator |-> "^", version |-> "1.0.0"]
Locks(version) == << <<"packages">>, <<"node_modules">> \o MCPackage, <<"version">> >> :> version

Plain == [scripts |-> {}, manifest |-> Manifest, lock |-> << >>]
Tested == [scripts |-> {"test"}, manifest |-> Manifest, lock |-> Locks("1.1.0")]
Without == [scripts |-> {"test"}, manifest |-> << >>, lock |-> << >>]
MCProjects == {Plain, Tested, Without}

MCArchives == {[version |-> "1.0.0", content |-> 1], [version |-> "1.0.0", content |-> 2],
               [version |-> "2.0.0", content |-> 1]}
MCOthersFetch == {a \in MCArchives : a.content = 1}
MCLocked == MCArchives \cup {[version |-> "1.1.0", content |-> 1]}
MCRules == {"newlyAdded", "high"}
=============================================================================
