------------------------------- MODULE MCIngest -------------------------------
(***************************************************************************)
(* Instances of Ingest.  Two envelopes of one package, an upgrade and the  *)
(* downgrade back, by two signers; the first envelope is also sent with    *)
(* its JSON formatted differently, and a fourth body is inadmissible.      *)
(***************************************************************************)
EXTENDS Ingest, TLC

MCBodies == {"up", "upReformatted", "down", "tampered"}
MCBundles == {"ciA", "ciB"}
MCEnvelopeOf == [b \in MCBodies |->
  CASE b \in {"up", "upReformatted"} -> "upgrade"
    [] b = "down" -> "downgrade"
    [] OTHER -> "forged"]
MCAdmissible == {"up", "upReformatted", "down"}
MCVerifies == {<<"ciA", "up">>, <<"ciB", "upReformatted">>}

Shared(signer, from, to) ==
  [signer |-> signer, package |-> "pkg", from |-> from, to |-> to,
   environment |-> "linux", methodology |-> "v1"]
MCFacts ==
  [e \in {"upgrade", "downgrade", "forged"} |->
    IF e = "downgrade" THEN Shared("bob", "2.0.0", "1.0.0") ELSE Shared("alice", "1.0.0", "2.0.0")]

DistinctHash == [e \in {"upgrade", "downgrade", "forged"} |-> e]
CollidingHash == [e \in {"upgrade", "downgrade", "forged"} |-> "h"]

Sub(b, p) == [body |-> b, bundle |-> p]
(* Submissions of one envelope in two formattings, with every proof,
   one of them with the wrong bytes, and an inadmissible body. *)
OneEnvelope == {Sub("up", NoBundle), Sub("up", "ciA"), Sub("up", "ciB"),
                Sub("upReformatted", "ciB"), Sub("tampered", NoBundle)}
RacingSubmissions == OneEnvelope \cup {Sub("down", NoBundle)}
(* Two envelopes contending for the rows they share. *)
TwoEnvelopes == {Sub("up", NoBundle), Sub("up", "ciA"), Sub("down", NoBundle)}

Symmetry == Permutations(Requests)
=============================================================================
