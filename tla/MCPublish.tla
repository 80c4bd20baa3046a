------------------------------ MODULE MCPublish ------------------------------
(***************************************************************************)
(* A developer and a CI job publish one file, which holds an attestation,  *)
(* the same one reformatted, or one whose signature does not verify.  CI   *)
(* has a bundle over the file; the developer has none, the same one or one *)
(* over the reformatted file.                                              *)
(***************************************************************************)
EXTENDS Publish

MCPublishers == {"developer", "ci"}
MCBodies == {"signed", "reformatted", "damaged"}
MCValid == {"signed", "reformatted"}
MCEnvelopeOf == [b \in MCBodies |-> IF b = "damaged" THEN "other" ELSE "envelope"]
MCOffersOf == [p \in MCPublishers |->
  IF p = "ci" THEN {"proof"} ELSE {NoBundle, "proof", "proofReformatted"}]
Sub(b, p) == [body |-> b, bundle |-> p]
MCAccepts == {Sub("signed", NoBundle), Sub("reformatted", NoBundle),
              Sub("signed", "proof"), Sub("reformatted", "proofReformatted")}
=============================================================================
