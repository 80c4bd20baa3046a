------------------------------- MODULE Publish -------------------------------
(***************************************************************************)
(* depguard publish against the Evidence Network over HTTP.  The CLI reads *)
(* an attestation file, verifies what it read, and posts it; the request   *)
(* or the reply may get lost, and the publisher then runs the command      *)
(* again.  The network is the abstract EvidenceStore, which module Ingest  *)
(* implements.  Meanwhile the file may be replaced: depguard attest        *)
(* truncates and rewrites it.                                              *)
(***************************************************************************)
EXTENDS Naturals

CONSTANTS
  Publishers,  \* who publishes the file: a developer, a CI job
  Bodies,      \* complete attestation files
  Partial,     \* a file that is being written
  Valid,       \* bodies that pass verify_envelope
  EnvelopeOf,  \* the DSSE envelope (RFC 8785 form) of a body
  Bundles,     \* Sigstore bundles
  NoBundle,
  OffersOf,    \* the --identity-proof each publisher may name, a set
  Accepts,     \* submissions the server finds nothing wrong with
  NoBody,
  NoSubmission,
  MaxWrites,   \* bound on rewritings of the file
  MaxFaults    \* bound on lost requests, lost replies and server errors

Envelopes == {EnvelopeOf[b] : b \in Bodies}
Tries == 1 .. MaxFaults + 1
Requests == Publishers \X Tries

ASSUME BodiesAssumption ==
  /\ Valid \subseteq Bodies /\ EnvelopeOf \in [Bodies -> Envelopes]
  /\ NoBody \notin Bodies /\ Partial \notin Bodies /\ NoBundle \notin Bundles
  /\ OffersOf \in [Publishers -> SUBSET (Bundles \cup {NoBundle})]
  /\ Accepts \subseteq [body : Valid, bundle : Bundles \cup {NoBundle}]
ASSUME BoundsAssumption == MaxWrites \in Nat /\ MaxFaults \in Nat

VARIABLES
  file,      \* the attestation file
  writes,    \* how often it was rewritten
  pc,        \* where each publisher's command is
  tries,     \* the command a publisher is at, counting from 1
  bundle,    \* the --identity-proof of each publisher
  bytes,     \* what the command read
  result,    \* what the last command of each publisher ended with
  faults,    \* faults so far
  submission, original, count, proof, effect, answer   \* of EvidenceStore

fileVars == <<file, writes>>
cliVars == <<pc, tries, bundle, bytes, result>>
storeVars == <<submission, original, count, proof, effect, answer>>
vars == <<fileVars, cliVars, storeVars, faults>>

Network == INSTANCE EvidenceStore

Init ==
  /\ file \in Bodies
  /\ writes = 0
  /\ pc = [p \in Publishers |-> "idle"]
  /\ tries = [p \in Publishers |-> 1]
  /\ bundle \in [Publishers -> UNION {OffersOf[p] : p \in Publishers}]
  /\ \A p \in Publishers : bundle[p] \in OffersOf[p]
  /\ bytes = [p \in Publishers |-> NoBody]
  /\ result = [p \in Publishers |-> "none"]
  /\ faults = 0
  /\ submission = [r \in Requests |-> NoSubmission]
  /\ Network!Init

Request(p) == <<p, tries[p]>>
Goto(p, part) == pc' = [pc EXCEPT ![p] = part]
Fault == faults < MaxFaults /\ faults' = faults + 1

-----------------------------------------------------------------------------
(* The file: std::fs::write truncates it and then writes it *)

Truncate ==
  /\ writes < MaxWrites
  /\ file # Partial
  /\ file' = Partial
  /\ writes' = writes + 1
  /\ UNCHANGED <<cliVars, storeVars, faults>>

Rewrite ==
  /\ file = Partial
  /\ file' \in Bodies
  /\ UNCHANGED <<writes, cliVars, storeVars, faults>>

-----------------------------------------------------------------------------
(* publish *)

Read(p) ==
  /\ pc[p] = "idle"
  /\ bytes' = [bytes EXCEPT ![p] = file]
  /\ Goto(p, "read")
  /\ UNCHANGED <<fileVars, tries, bundle, result, storeVars, faults>>

End(p, r) == Goto(p, "ended") /\ result' = [result EXCEPT ![p] = r]

(* Anything but a valid envelope is refused before the network is used. *)
Verify(p) ==
  /\ pc[p] = "read"
  /\ IF bytes[p] \in Valid
     THEN Goto(p, "verified") /\ UNCHANGED result
     ELSE End(p, "INVALID")
  /\ UNCHANGED <<fileVars, tries, bundle, bytes, storeVars, faults>>

(* publish_submission with a proof, publish_bytes without one. *)
Post_ReadsAgain(p) ==
  /\ pc[p] = "verified"
  /\ Network!Submit(Request(p), [body |-> file, bundle |-> bundle[p]])
  /\ Goto(p, "posted")
  /\ UNCHANGED <<fileVars, tries, bundle, bytes, result, faults>>
Post_RetryWithoutProof(p) ==
  /\ pc[p] = "verified"
  /\ Network!Submit(Request(p), [body |-> bytes[p], bundle |-> IF tries[p] = 1 THEN bundle[p] ELSE NoBundle])
  /\ Goto(p, "posted")
  /\ UNCHANGED <<fileVars, tries, bundle, bytes, result, faults>>
Post(p) ==
  /\ pc[p] = "verified"
  /\ Network!Submit(Request(p), [body |-> bytes[p], bundle |-> bundle[p]])
  /\ Goto(p, "posted")
  /\ UNCHANGED <<fileVars, tries, bundle, bytes, result, faults>>

(* The connection cannot be made. *)
PostFails(p) ==
  /\ pc[p] = "verified"
  /\ Fault
  /\ End(p, "error")
  /\ UNCHANGED <<fileVars, tries, bundle, bytes, storeVars>>

(* The reply is decoded as an IngestResponse.  A server that failed either
   says so in one with status REJECTED (PERSISTENCE_ERROR), or sends no JSON
   (the 408 of the timeout layer). *)
Reply_NoResult(p) ==
  /\ pc[p] = "posted"
  /\ answer[Request(p)] # "none"
  /\ Goto(p, "ended")
  /\ UNCHANGED <<fileVars, tries, bundle, bytes, result, storeVars, faults>>
Reply(p) ==
  /\ pc[p] = "posted"
  /\ \/ /\ answer[Request(p)] \in {"ACCEPTED_NEW", "ACCEPTED_DUPLICATE", "REJECTED"}
        /\ End(p, answer[Request(p)])
     \/ /\ answer[Request(p)] = "UNKNOWN"
        /\ \/ End(p, "PERSISTENCE_ERROR")
           \/ End(p, "error")
  /\ UNCHANGED <<fileVars, tries, bundle, bytes, storeVars, faults>>

(* The connection breaks, before or after the server has the request. *)
ReplyLost_Unnoticed(p) ==
  /\ pc[p] = "posted"
  /\ Fault
  /\ Goto(p, "waiting")
  /\ UNCHANGED <<fileVars, tries, bundle, bytes, result, storeVars>>
ReplyLost(p) ==
  /\ pc[p] = "posted"
  /\ Fault
  /\ End(p, "error")
  /\ UNCHANGED <<fileVars, tries, bundle, bytes, storeVars>>

Definite == {"ACCEPTED_NEW", "ACCEPTED_DUPLICATE", "REJECTED", "INVALID"}

(* The publisher runs the command again after an error. *)
Again(p) ==
  /\ pc[p] = "ended"
  /\ result[p] \notin Definite
  /\ tries[p] \in Tries \ {MaxFaults + 1}
  /\ tries' = [tries EXCEPT ![p] = @ + 1]
  /\ bytes' = [bytes EXCEPT ![p] = NoBody]
  /\ result' = [result EXCEPT ![p] = "none"]
  /\ Goto(p, "idle")
  /\ UNCHANGED <<fileVars, bundle, storeVars, faults>>

-----------------------------------------------------------------------------
(* The Evidence Network: a request it has received may take effect and is
   answered; both may happen after its publisher gave up. *)

Ingest(r) ==
  /\ submission[r] \in Accepts
  /\ Network!Store(r) \/ Network!Replay(r)
  /\ UNCHANGED <<fileVars, cliVars, faults>>

(* Another bundle is bound to the envelope (IDENTITY_PROOF_ALREADY_BOUND). *)
OtherProofBound(r) ==
  /\ submission[r] \in Accepts
  /\ submission[r].bundle # NoBundle
  /\ proof[EnvelopeOf[submission[r].body]] \notin {NoBundle, submission[r].bundle}

(* What is wrong with a submission is told with a reason; a proof is also
   refused when Cosign is missing or too slow.  Another bound bundle and a
   failing database are both PERSISTENCE_ERROR. *)
Answer(r) ==
  /\ Network!Answer(r)
  /\ CASE answer'[r] = "REJECTED" /\ submission[r] \in Accepts ->
            submission[r].bundle # NoBundle /\ Fault
       [] answer'[r] = "UNKNOWN" /\ ~OtherProofBound(r) -> Fault
       [] OTHER -> UNCHANGED faults
  /\ UNCHANGED <<fileVars, cliVars>>

-----------------------------------------------------------------------------

Command(p) ==
  \/ Read(p) \/ Verify(p) \/ Post(p) \/ Reply(p) \/ Again(p)

Next ==
  \/ \E p \in Publishers : Command(p) \/ PostFails(p) \/ ReplyLost(p)
  \/ \E r \in Requests : Ingest(r) \/ Answer(r)
  \/ Truncate \/ Rewrite

Spec == Init /\ [][Next]_vars

(* The command goes on, publishers repeat it after an error, and the server
   works on a request until it is answered (its handler has a timeout, the
   client has none). *)
FairSpec ==
  /\ Spec
  /\ \A p \in Publishers : WF_vars(Command(p))
  /\ \A r \in Requests : WF_vars(answer[r] = "none" /\ (Ingest(r) \/ Answer(r)))

-----------------------------------------------------------------------------
(* Properties *)

(* Every variable has its type; a command in progress has a request to itself. *)
TypeOK ==
  /\ file \in Bodies \cup {Partial} /\ writes \in 0 .. MaxWrites
  /\ pc \in [Publishers -> {"idle", "read", "verified", "posted", "ended"}]
  /\ tries \in [Publishers -> Tries]
  /\ bundle \in [Publishers -> Bundles \cup {NoBundle}]
  /\ bytes \in [Publishers -> Bodies \cup {Partial, NoBody}]
  /\ submission \in [Requests -> Network!AllSubmissions \cup {NoSubmission}]
  /\ faults \in 0 .. MaxFaults
  /\ \A p \in Publishers :
       /\ pc[p] = "ended" <=> result[p] # "none"
       /\ pc[p] \in {"idle", "read", "verified"} => submission[Request(p)] = NoSubmission

(* Whatever happens to the file while publish runs, only envelopes that passed
   verify_envelope leave the machine (the bytes that were verified are the
   bytes that are posted). *)
OnlyVerifiedLeaves ==
  \A r \in Requests : submission[r] # NoSubmission => submission[r].body \in Valid

(* A publisher told ACCEPTED finds its own bytes in the network, one told
   "(duplicate)" finds its envelope, and both find the identity proof they
   sent bound to it: also when the command was repeated after lost replies. *)
AcceptedIsPublished ==
  \A p \in Publishers :
    LET e == EnvelopeOf[bytes[p]] IN
    result[p] \in {"ACCEPTED_NEW", "ACCEPTED_DUPLICATE"} =>
      /\ original[e] # NoBody
      /\ result[p] = "ACCEPTED_NEW" => original[e] = bytes[p]
      /\ bundle[p] # NoBundle => proof[e] = bundle[p]

(* "network rejected attestation" with a reason of its own is final: the
   refused request never becomes evidence.  PERSISTENCE_ERROR, although it
   carries the status REJECTED too, says nothing of the kind. *)
RejectionIsFinal ==
  \A p \in Publishers : result[p] = "REJECTED" => effect[Request(p)] = "none"

(* What a publisher is told of its submission is true of the network. *)
AnswersAreTrue == AcceptedIsPublished /\ RejectionIsFinal

(* A publisher that repeats the command is told a definite result in the end,
   unless the envelope is bound to another proof: that answer does not tell
   him so. *)
PublisherIsTold ==
  \A p \in Publishers :
    (pc[p] # "idle") ~> /\ pc[p] = "ended"
                        /\ \/ result[p] \in Definite
                           \/ \E t \in Tries : OtherProofBound(<<p, t>>)
=============================================================================
