---------------------------- MODULE MCAttestation ----------------------------
(***************************************************************************)
(* Two runs of key-generate over one pair of files, three evidence files:  *)
(* one as depguard verify writes it, one with edited PURLs, one outside    *)
(* the schema.  Foreign envelopes have a flaw of every kind, alone or with *)
(* one of two others, name another key than the one that signed, or have   *)
(* the digest or the candidate of other evidence.                          *)
(***************************************************************************)
EXTENDS Attestation

MCEvidence == {"written", "edited", "outside"}
FewFlaws == {{}} \cup {{a, b} : a \in Flaws, b \in {"changed", "predicateType"}}
              \cup {{a} : a \in Flaws}
MCCandidateOf == [written |-> "2.0.0", edited |-> "2.0.0-edited", outside |-> "2.0.0"]
MCForeign ==
  {[Sign("written", "k1") EXCEPT !.flaws = F] : F \in FewFlaws}
    \cup {[Sign(e, s) EXCEPT !.keyid = n] : e \in MCEvidence, s \in {"k1", "k2"}, n \in {"k1", "k2"}}
    \cup {[Sign("written", "k1") EXCEPT !.digest = d, !.subject = MCCandidateOf[c]] :
            d \in MCEvidence, c \in MCEvidence}
=============================================================================
