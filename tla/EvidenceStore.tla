---------------------------- MODULE EvidenceStore ----------------------------
(***************************************************************************)
(* What the Evidence Network promises its clients, with no requests in     *)
(* flight, transactions or locks: every DSSE envelope is stored once, with *)
(* the bytes of the submission that stored it; each later submission of    *)
(* the same envelope is counted; the first Sigstore bundle accepted with   *)
(* it stays bound to it.  A submission takes effect at most once, whether  *)
(* or not its client ever learns of it.                                    *)
(***************************************************************************)
EXTENDS Naturals

CONSTANTS
  Requests,      \* HTTP requests
  Envelopes,     \* DSSE envelopes up to RFC 8785 canonical form
  Bodies,        \* the byte strings clients submit
  EnvelopeOf,    \* the envelope a byte string parses to
  Bundles,       \* Sigstore bundles
  NoBundle,      \* a submission without an identity proof
  NoBody,        \* nothing stored yet
  NoSubmission   \* a request not made yet

VARIABLES
  submission,  \* what each request carries
  original,    \* the bytes kept for each envelope
  count,       \* its submission_count
  proof,       \* the bundle bound to it
  effect,      \* what each submission did to the store
  answer       \* what each client was told

vars == <<submission, original, count, proof, effect, answer>>

AllSubmissions == [body : Bodies, bundle : Bundles \cup {NoBundle}]
Effects == {"none", "new", "duplicate"}
Answers == {"none", "ACCEPTED_NEW", "ACCEPTED_DUPLICATE", "REJECTED", "UNKNOWN"}

Init ==
  /\ submission \in [Requests -> AllSubmissions \cup {NoSubmission}]
  /\ original = [e \in Envelopes |-> NoBody]
  /\ count    = [e \in Envelopes |-> 0]
  /\ proof    = [e \in Envelopes |-> NoBundle]
  /\ effect   = [r \in Requests |-> "none"]
  /\ answer   = [r \in Requests |-> "none"]

Submit(r, s) ==
  /\ submission[r] = NoSubmission
  /\ submission' = [submission EXCEPT ![r] = s]
  /\ UNCHANGED <<original, count, proof, effect, answer>>

MayTakeEffect(r) ==
  /\ submission[r] # NoSubmission
  /\ effect[r] = "none"
  /\ answer[r] \in {"none", "UNKNOWN"}

(* The envelope is new: keep these bytes and this proof, if any. *)
Store(r) ==
  /\ MayTakeEffect(r)
  /\ LET s == submission[r]
         e == EnvelopeOf[s.body] IN
     /\ original[e] = NoBody
     /\ original' = [original EXCEPT ![e] = s.body]
     /\ count'    = [count EXCEPT ![e] = 1]
     /\ proof'    = [proof EXCEPT ![e] = s.bundle]
  /\ effect' = [effect EXCEPT ![r] = "new"]
  /\ UNCHANGED <<submission, answer>>

(* The envelope is known: count the repetition; a proof is taken only when
   none is bound, and one that differs from the bound proof is refused. *)
Replay(r) ==
  /\ MayTakeEffect(r)
  /\ LET s == submission[r]
         e == EnvelopeOf[s.body] IN
     /\ original[e] # NoBody
     /\ s.bundle # NoBundle => proof[e] \in {NoBundle, s.bundle}
     /\ count' = [count EXCEPT ![e] = @ + 1]
     /\ proof' = [proof EXCEPT ![e] = IF s.bundle = NoBundle THEN @ ELSE s.bundle]
  /\ effect' = [effect EXCEPT ![r] = "duplicate"]
  /\ UNCHANGED <<submission, original, answer>>

(* An acceptance is told only of what took effect; a rejection only of what
   did not and never will.  A timeout or a server error tells nothing. *)
Answer(r) ==
  /\ submission[r] # NoSubmission
  /\ answer[r] = "none"
  /\ \/ effect[r] = "new" /\ answer' = [answer EXCEPT ![r] = "ACCEPTED_NEW"]
     \/ effect[r] = "duplicate" /\ answer' = [answer EXCEPT ![r] = "ACCEPTED_DUPLICATE"]
     \/ effect[r] = "none" /\ answer' = [answer EXCEPT ![r] = "REJECTED"]
     \/ answer' = [answer EXCEPT ![r] = "UNKNOWN"]
  /\ UNCHANGED <<submission, original, count, proof, effect>>

Next ==
  \E r \in Requests :
    \/ \E s \in AllSubmissions : Submit(r, s)
    \/ Store(r) \/ Replay(r) \/ Answer(r)

Spec == Init /\ [][Next]_vars
=============================================================================
