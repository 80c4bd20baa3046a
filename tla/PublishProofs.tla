----------------------------- MODULE PublishProofs -----------------------------
(***************************************************************************)
(* What publishers can rely on, for any number of them, any file contents, *)
(* any proofs they offer and any number of faults.                         *)
(***************************************************************************)
EXTENDS Publish, TLAPS

Told == {"ACCEPTED_NEW", "ACCEPTED_DUPLICATE", "REJECTED"}

Types ==
  /\ result \in [Publishers -> {"none", "error", "INVALID", "PERSISTENCE_ERROR"} \cup Told]
  /\ original \in [Envelopes -> Bodies \cup {NoBody}]
  /\ proof \in [Envelopes -> Bundles \cup {NoBundle}]
  /\ effect \in [Requests -> Network!Effects]
  /\ answer \in [Requests -> Network!Answers]

(* Commands not begun yet have sent nothing. *)
Unsent ==
  \A p \in Publishers, t \in Tries : t > tries[p] => submission[<<p, t>>] = NoSubmission

(* A command posts what it verified, and is told the answer to that. *)
Sent ==
  \A p \in Publishers :
    /\ pc[p] = "verified" => bytes[p] \in Valid
    /\ pc[p] = "posted" \/ result[p] \in Told =>
         submission[Request(p)] = [body |-> bytes[p], bundle |-> bundle[p]]
    /\ result[p] \in Told => answer[Request(p)] = result[p]

(* What took effect stays in the network. *)
KeptBy(r) ==
  LET s == submission[r]
      e == EnvelopeOf[s.body] IN
  effect[r] # "none" =>
    /\ s # NoSubmission
    /\ original[e] # NoBody
    /\ effect[r] = "new" => original[e] = s.body
    /\ s.bundle # NoBundle => proof[e] = s.bundle
Kept == \A r \in Requests : KeptBy(r)

(* What is told of a submission is what it did. *)
Answered ==
  \A r \in Requests :
    /\ answer[r] = "ACCEPTED_NEW" => effect[r] = "new"
    /\ answer[r] = "ACCEPTED_DUPLICATE" => effect[r] = "duplicate"
    /\ answer[r] = "REJECTED" => effect[r] = "none"

IInv == TypeOK /\ Types /\ Unsent /\ Sent /\ OnlyVerifiedLeaves /\ Kept /\ Answered

-----------------------------------------------------------------------------

LEMMA RequestsOfCommands ==
  ASSUME TypeOK, NEW p \in Publishers
  PROVE  /\ tries[p] \in Tries /\ Request(p) \in Requests
         /\ \A q \in Publishers : Request(q) = Request(p) => q = p
BY DEF TypeOK, Request, Requests

(* The envelope of a submission. *)
LEMMA Submitted ==
  ASSUME TypeOK, OnlyVerifiedLeaves, NEW r \in Requests, submission[r] # NoSubmission
  PROVE  /\ submission[r].body \in Valid /\ submission[r].body \in Bodies
         /\ EnvelopeOf[submission[r].body] \in Envelopes
         /\ submission[r].bundle \in Bundles \cup {NoBundle}
<1>1. submission[r] \in Network!AllSubmissions
  BY DEF TypeOK
<1> QED BY <1>1, BodiesAssumption DEF OnlyVerifiedLeaves, Network!AllSubmissions

LEMMA InitIInv == Init => IInv
<1> SUFFICES ASSUME Init PROVE IInv
  OBVIOUS
<1>1. bundle \in [Publishers -> Bundles \cup {NoBundle}]
  BY BodiesAssumption DEF Init
<1>2. tries \in [Publishers -> Tries] /\ \A p \in Publishers : Request(p) \in Requests
  BY BoundsAssumption DEF Init, Tries, Request, Requests
<1>3. TypeOK
  BY <1>1, <1>2, BoundsAssumption DEF Init, TypeOK
<1>4. Types
  BY DEF Init, Network!Init, Types, Network!Effects, Network!Answers
<1>5. Unsent
  BY DEF Init, Unsent, Requests
<1>6. Sent
  BY DEF Init, Sent, Told
<1>7. OnlyVerifiedLeaves
  BY DEF Init, OnlyVerifiedLeaves
<1>8. Kept /\ Answered
  BY DEF Init, Network!Init, Kept, KeptBy, Answered
<1> QED BY <1>3, <1>4, <1>5, <1>6, <1>7, <1>8 DEF IInv

-----------------------------------------------------------------------------
(* Steps of a command that do not involve the network *)

LEMMA FileStep ==
  ASSUME IInv, Truncate \/ Rewrite
  PROVE  IInv'
<1>1. UNCHANGED <<cliVars, storeVars, faults>>
  BY DEF Truncate, Rewrite
<1>2. file' \in Bodies \cup {Partial} /\ writes' \in 0 .. MaxWrites
  BY BoundsAssumption DEF Truncate, Rewrite, IInv, TypeOK
<1>3. TypeOK'
  BY <1>1, <1>2 DEF cliVars, storeVars, IInv, TypeOK, Request
<1> QED
  BY <1>1, <1>3 DEF cliVars, storeVars, IInv, Types, Unsent, Sent, OnlyVerifiedLeaves, Kept, KeptBy,
                    Answered, Request

LEMMA ReadStep ==
  ASSUME IInv, NEW p \in Publishers, Read(p)
  PROVE  IInv'
<1>1. /\ pc' = [pc EXCEPT ![p] = "read"] /\ bytes' = [bytes EXCEPT ![p] = file]
      /\ pc[p] = "idle" /\ result[p] = "none"
      /\ UNCHANGED <<fileVars, tries, bundle, result, storeVars, faults>>
  BY DEF Read, Goto, IInv, TypeOK
<1>2. TypeOK'
  BY <1>1 DEF fileVars, storeVars, IInv, TypeOK, Request
<1>3. Sent'
  BY <1>1 DEF storeVars, IInv, TypeOK, Sent, Request, Told
<1> QED
  BY <1>1, <1>2, <1>3 DEF storeVars, IInv, Types, Unsent, OnlyVerifiedLeaves, Kept, KeptBy, Answered

LEMMA VerifyStep ==
  ASSUME IInv, NEW p \in Publishers, Verify(p)
  PROVE  IInv'
<1>1. /\ pc[p] = "read" /\ result[p] = "none"
      /\ \/ bytes[p] \in Valid /\ pc' = [pc EXCEPT ![p] = "verified"] /\ result' = result
         \/ pc' = [pc EXCEPT ![p] = "ended"] /\ result' = [result EXCEPT ![p] = "INVALID"]
      /\ UNCHANGED <<fileVars, tries, bundle, bytes, storeVars, faults>>
  BY DEF Verify, End, Goto, IInv, TypeOK
<1>2. TypeOK'
  BY <1>1 DEF fileVars, storeVars, IInv, TypeOK, Types, Request
<1>3. Sent'
  BY <1>1 DEF storeVars, IInv, TypeOK, Types, Sent, Request, Told
<1>4. Types'
  BY <1>1 DEF storeVars, IInv, Types
<1> QED
  BY <1>1, <1>2, <1>3, <1>4 DEF storeVars, IInv, Unsent, OnlyVerifiedLeaves, Kept, KeptBy, Answered

(* An error, before or after the submission was made. *)
LEMMA ErrorStep ==
  ASSUME IInv, NEW p \in Publishers, PostFails(p) \/ ReplyLost(p)
  PROVE  IInv'
<1>1. /\ pc[p] \in {"verified", "posted"}
      /\ pc' = [pc EXCEPT ![p] = "ended"] /\ result' = [result EXCEPT ![p] = "error"]
      /\ faults' \in 0 .. MaxFaults
      /\ UNCHANGED <<fileVars, tries, bundle, bytes, storeVars>>
  BY BoundsAssumption DEF PostFails, ReplyLost, Fault, End, Goto, IInv, TypeOK
<1>2. TypeOK'
  BY <1>1 DEF fileVars, storeVars, IInv, TypeOK, Types, Request
<1>3. Sent'
  BY <1>1 DEF storeVars, IInv, TypeOK, Types, Sent, Request, Told
<1>4. Types'
  BY <1>1 DEF storeVars, IInv, Types
<1> QED
  BY <1>1, <1>2, <1>3, <1>4 DEF storeVars, IInv, Unsent, OnlyVerifiedLeaves, Kept, KeptBy, Answered

LEMMA PostStep ==
  ASSUME IInv, NEW p \in Publishers, Post(p)
  PROVE  IInv'
<1> DEFINE s == [body |-> bytes[p], bundle |-> bundle[p]]
<1>1. /\ pc[p] = "verified" /\ result[p] = "none" /\ bytes[p] \in Valid
      /\ pc' = [pc EXCEPT ![p] = "posted"]
      /\ submission[Request(p)] = NoSubmission
      /\ submission' = [submission EXCEPT ![Request(p)] = s]
      /\ UNCHANGED <<fileVars, tries, bundle, bytes, result, faults>>
      /\ UNCHANGED <<original, count, proof, effect, answer>>
  BY DEF Post, Network!Submit, Goto, IInv, TypeOK, Sent
<1>2. Request(p) \in Requests /\ \A q \in Publishers : Request(q)' = Request(q)
  BY <1>1, RequestsOfCommands DEF IInv, Request
<1>3. s \in Network!AllSubmissions /\ s.body \in Valid
  BY <1>1, BodiesAssumption DEF Network!AllSubmissions, IInv, TypeOK
<1>4. \A r \in Requests : submission'[r] = IF r = Request(p) THEN s ELSE submission[r]
  BY <1>1, <1>2 DEF IInv, TypeOK
<1>5. \A q \in Publishers \ {p} : submission'[Request(q)] = submission[Request(q)]
  BY <1>2, <1>4, RequestsOfCommands DEF IInv
<1>6. TypeOK'
  <2>1. submission' \in [Requests -> Network!AllSubmissions \cup {NoSubmission}]
    BY <1>1, <1>2, <1>3 DEF IInv, TypeOK
  <2>2. \A q \in Publishers :
          /\ pc'[q] = "ended" <=> result'[q] # "none"
          /\ pc'[q] \in {"idle", "read", "verified"} => submission'[Request(q)'] = NoSubmission
    BY <1>1, <1>2, <1>5 DEF IInv, TypeOK
  <2> QED BY <1>1, <2>1, <2>2 DEF fileVars, IInv, TypeOK
<1>7. Types'
  BY <1>1 DEF IInv, Types
<1>8. Unsent'
  <2> SUFFICES ASSUME NEW q \in Publishers, NEW t \in Tries, t > tries[q]
               PROVE  submission'[<<q, t>>] = NoSubmission
    BY <1>1 DEF Unsent
  <2>1. tries[q] \in Nat
    BY BoundsAssumption DEF IInv, TypeOK, Tries
  <2>2. <<q, t>> \in Requests /\ <<q, t>> # Request(p)
    BY <2>1, BoundsAssumption DEF Requests, Request, Tries
  <2> QED BY <1>4, <2>2 DEF IInv, Unsent
<1>9. Sent'
  <2>1. submission'[Request(p)] = s
    BY <1>2, <1>4
  <2> QED BY <1>1, <1>2, <1>5, <2>1 DEF IInv, Sent, TypeOK, Told
<1>10. OnlyVerifiedLeaves'
  BY <1>3, <1>4 DEF IInv, OnlyVerifiedLeaves
<1>11. Kept' /\ Answered'
  <2>1. effect[Request(p)] = "none"
    BY <1>1, <1>2 DEF IInv, Kept, KeptBy
  <2> QED BY <1>1, <1>4, <2>1 DEF IInv, Kept, KeptBy, Answered
<1> QED BY <1>6, <1>7, <1>8, <1>9, <1>10, <1>11 DEF IInv

LEMMA ReplyStep ==
  ASSUME IInv, NEW p \in Publishers, Reply(p)
  PROVE  IInv'
<1>1. PICK r \in {"PERSISTENCE_ERROR", "error"} \cup Told :
        /\ pc' = [pc EXCEPT ![p] = "ended"] /\ result' = [result EXCEPT ![p] = r]
        /\ r \in Told => answer[Request(p)] = r
  BY DEF Reply, End, Goto, Told
<1>2. pc[p] = "posted" /\ UNCHANGED <<fileVars, tries, bundle, bytes, storeVars, faults>>
  BY DEF Reply
<1>3. TypeOK'
  BY <1>1, <1>2 DEF fileVars, storeVars, IInv, TypeOK, Types, Request, Told
<1>4. Sent'
  BY <1>1, <1>2 DEF storeVars, IInv, TypeOK, Types, Sent, Request
<1>5. Types'
  BY <1>1, <1>2 DEF storeVars, IInv, Types
<1> QED
  BY <1>2, <1>3, <1>4, <1>5 DEF storeVars, IInv, Unsent, OnlyVerifiedLeaves, Kept, KeptBy, Answered

LEMMA AgainStep ==
  ASSUME IInv, NEW p \in Publishers, Again(p)
  PROVE  IInv'
<1>1. /\ pc' = [pc EXCEPT ![p] = "idle"] /\ bytes' = [bytes EXCEPT ![p] = NoBody]
      /\ result' = [result EXCEPT ![p] = "none"] /\ tries' = [tries EXCEPT ![p] = tries[p] + 1]
      /\ tries[p] \in Nat /\ tries[p] + 1 \in Tries
      /\ UNCHANGED <<fileVars, bundle, storeVars, faults>>
  BY BoundsAssumption DEF Again, Goto, Tries
<1>2. tries' \in [Publishers -> Tries] /\ Tries \subseteq Nat
  BY <1>1, BoundsAssumption DEF IInv, TypeOK, Tries
<1>3. submission[<<p, tries[p] + 1>>] = NoSubmission
  BY <1>1 DEF IInv, Unsent
<1>4. TypeOK'
  <2>1. \A q \in Publishers :
          /\ pc'[q] = "ended" <=> result'[q] # "none"
          /\ pc'[q] \in {"idle", "read", "verified"} => submission[<<q, tries'[q]>>] = NoSubmission
    BY <1>1, <1>3 DEF IInv, TypeOK, Types, Request
  <2> QED BY <1>1, <1>2, <2>1 DEF fileVars, storeVars, IInv, TypeOK, Request
<1>5. Unsent'
  <2> SUFFICES ASSUME NEW q \in Publishers, NEW t \in Tries, t > tries'[q]
               PROVE  submission'[<<q, t>>] = NoSubmission
    BY DEF Unsent
  <2>1. t > tries[q]
    BY <1>1, <1>2 DEF IInv, TypeOK
  <2> QED BY <1>1, <2>1 DEF storeVars, IInv, Unsent
<1>6. Sent'
  BY <1>1 DEF storeVars, IInv, TypeOK, Types, Sent, Request, Told
<1>7. Types'
  BY <1>1 DEF storeVars, IInv, Types
<1> QED
  BY <1>1, <1>4, <1>5, <1>6, <1>7 DEF storeVars, IInv, OnlyVerifiedLeaves, Kept, KeptBy, Answered

-----------------------------------------------------------------------------
(* Steps of the network *)

(* A submission that takes effect disturbs no other's: of one envelope there is
   one original, and one proof that stays. *)
LEMMA IngestStep ==
  ASSUME IInv, NEW r \in Requests, Ingest(r)
  PROVE  IInv'
<1> DEFINE s == submission[r]
           e == EnvelopeOf[s.body]
<1>1. /\ s # NoSubmission /\ effect[r] = "none" /\ answer[r] \in {"none", "UNKNOWN"}
      /\ UNCHANGED <<fileVars, cliVars, faults, submission, answer>>
  BY DEF Ingest, Network!Store, Network!Replay, Network!MayTakeEffect
<1>2. e \in Envelopes /\ s.body \in Bodies /\ s.bundle \in Bundles \cup {NoBundle}
  BY <1>1, Submitted DEF IInv
<1> HIDE DEF s, e
<1>3. \/ /\ original[e] = NoBody /\ original' = [original EXCEPT ![e] = s.body]
         /\ proof' = [proof EXCEPT ![e] = s.bundle]
         /\ effect' = [effect EXCEPT ![r] = "new"]
      \/ /\ original[e] # NoBody /\ original' = original
         /\ s.bundle # NoBundle => proof[e] \in {NoBundle, s.bundle}
         /\ proof' = [proof EXCEPT ![e] = IF s.bundle = NoBundle THEN proof[e] ELSE s.bundle]
         /\ effect' = [effect EXCEPT ![r] = "duplicate"]
  BY DEF Ingest, Network!Store, Network!Replay, s, e
<1>4. TypeOK'
  BY <1>1 DEF fileVars, cliVars, IInv, TypeOK, Request
<1>5. Types'
  BY <1>1, <1>2, <1>3 DEF cliVars, IInv, Types, Network!Effects
<1>6. Unsent' /\ Sent' /\ OnlyVerifiedLeaves'
  BY <1>1 DEF cliVars, IInv, Unsent, Sent, OnlyVerifiedLeaves, Request
<1>7. /\ effect'[r] \in {"new", "duplicate"}
      /\ \A q \in Requests \ {r} : effect'[q] = effect[q]
  BY <1>3 DEF IInv, Types
<1>8. Answered'
  BY <1>1, <1>7 DEF IInv, Answered
<1>9. ASSUME NEW q \in Requests, effect'[q] # "none" PROVE KeptBy(q)'
  <2> DEFINE f == EnvelopeOf[submission[q].body]
  <2>1. CASE q = r
    <3>1. /\ original'[e] # NoBody /\ (effect'[r] = "new" => original'[e] = s.body)
          /\ s.bundle # NoBundle => proof'[e] = s.bundle
      BY <1>2, <1>3, BodiesAssumption DEF IInv, Types
    <3> QED BY <1>1, <2>1, <3>1 DEF KeptBy, s, e
  <2>2. CASE q # r
    <3>1. /\ effect[q] # "none" /\ effect'[q] = effect[q] /\ submission[q] # NoSubmission
          /\ original[f] # NoBody /\ (effect[q] = "new" => original[f] = submission[q].body)
          /\ submission[q].bundle # NoBundle => proof[f] = submission[q].bundle
      BY <1>7, <1>9, <2>2 DEF IInv, Kept, KeptBy
    <3>2. f \in Envelopes
      BY <3>1, Submitted DEF IInv
    <3>3. original'[f] = original[f]
      BY <1>3, <3>1, <3>2 DEF IInv, Types
    <3>4. submission[q].bundle # NoBundle => proof'[f] = proof[f]
      BY <1>2, <1>3, <3>1, <3>2 DEF IInv, Types
    <3> QED BY <1>1, <3>1, <3>3, <3>4 DEF KeptBy
  <2> QED BY <2>1, <2>2
<1>10. Kept'
  BY <1>9 DEF Kept, KeptBy
<1> QED BY <1>4, <1>5, <1>6, <1>8, <1>10 DEF IInv

LEMMA AnswerStep ==
  ASSUME IInv, NEW r \in Requests, Answer(r)
  PROVE  IInv'
<1>1. /\ answer[r] = "none"
      /\ UNCHANGED <<fileVars, cliVars, submission, original, proof, effect>>
      /\ faults' \in 0 .. MaxFaults
  BY BoundsAssumption DEF Answer, Network!Answer, Fault, IInv, TypeOK
<1>2. PICK a \in Network!Answers :
        /\ answer' = [answer EXCEPT ![r] = a]
        /\ a = "ACCEPTED_NEW" => effect[r] = "new"
        /\ a = "ACCEPTED_DUPLICATE" => effect[r] = "duplicate"
        /\ a = "REJECTED" => effect[r] = "none"
  BY DEF Answer, Network!Answer, Network!Answers
<1>3. TypeOK'
  BY <1>1 DEF fileVars, cliVars, IInv, TypeOK, Request
<1>4. Types'
  BY <1>1, <1>2 DEF cliVars, IInv, Types
<1>5. Sent'
  <2>1. \A p \in Publishers : result[p] \in Told => answer'[Request(p)] = answer[Request(p)]
    BY <1>1, <1>2, RequestsOfCommands DEF IInv, Sent, Types, Told
  <2> QED BY <1>1, <2>1 DEF cliVars, IInv, Sent, Request
<1>6. Answered'
  BY <1>1, <1>2 DEF IInv, Answered, Types
<1> QED
  BY <1>1, <1>3, <1>4, <1>5, <1>6 DEF cliVars, IInv, Unsent, OnlyVerifiedLeaves, Kept, KeptBy

LEMMA NextIInv == IInv /\ [Next]_vars => IInv'
<1> SUFFICES ASSUME IInv, [Next]_vars PROVE IInv'
  OBVIOUS
<1>1. CASE UNCHANGED vars
  BY <1>1 DEF vars, fileVars, cliVars, storeVars, IInv, TypeOK, Types, Unsent, Sent, OnlyVerifiedLeaves,
              Kept, KeptBy, Answered, Request
<1>2. CASE Truncate \/ Rewrite
  BY <1>2, FileStep
<1>3. ASSUME NEW p \in Publishers, Command(p) \/ PostFails(p) \/ ReplyLost(p) PROVE IInv'
  BY <1>3, ReadStep, VerifyStep, PostStep, ReplyStep, AgainStep, ErrorStep DEF Command
<1>4. ASSUME NEW r \in Requests, Ingest(r) \/ Answer(r) PROVE IInv'
  BY <1>4, IngestStep, AnswerStep
<1> QED BY <1>1, <1>2, <1>3, <1>4 DEF Next

LEMMA Invariant == Spec => []IInv
BY InitIInv, NextIInv, PTL DEF Spec

(* A publisher believes what the network did with his own submission. *)
LEMMA Believed == IInv => AnswersAreTrue
<1> SUFFICES ASSUME IInv, NEW p \in Publishers, result[p] \in Told
             PROVE  LET e == EnvelopeOf[bytes[p]] IN
                    /\ result[p] \in {"ACCEPTED_NEW", "ACCEPTED_DUPLICATE"} =>
                         /\ original[e] # NoBody
                         /\ result[p] = "ACCEPTED_NEW" => original[e] = bytes[p]
                         /\ bundle[p] # NoBundle => proof[e] = bundle[p]
                    /\ result[p] = "REJECTED" => effect[Request(p)] = "none"
  BY DEF AnswersAreTrue, AcceptedIsPublished, RejectionIsFinal, Told
<1>1. /\ answer[Request(p)] = result[p] /\ Request(p) \in Requests
      /\ submission[Request(p)] = [body |-> bytes[p], bundle |-> bundle[p]]
  BY RequestsOfCommands DEF IInv, Sent
<1>2. KeptBy(Request(p))
  BY <1>1 DEF IInv, Kept
<1> QED BY <1>1, <1>2 DEF IInv, Answered, KeptBy

-----------------------------------------------------------------------------

(* depguard publish: a command in progress has a request to itself. *)
THEOREM TypeCorrect == Spec => []TypeOK
<1>1. IInv => TypeOK
  BY DEF IInv
<1> QED BY <1>1, Invariant, PTL

(* The bytes verify_envelope accepted are the bytes that are posted, whatever
   happens to the file. *)
THEOREM VerifiedLeaves == Spec => []OnlyVerifiedLeaves
<1>1. IInv => OnlyVerifiedLeaves
  BY DEF IInv
<1> QED BY <1>1, Invariant, PTL

(* What publish prints of a submission is true of the network, also when the
   command was repeated after lost requests or replies. *)
THEOREM TrueAnswers == Spec => []AnswersAreTrue
BY Invariant, Believed, PTL

(* depguard publish uses the network as its clients may: every submission is
   one the network knows of, made once for each request, and no step but the
   network's own changes what it holds.  With what Ingest implements, this is
   the command against the server. *)
THEOREM NetworkImplemented == Spec => Network!Spec
<1>1. Init => Network!Init
  BY DEF Init, Network!Init
<1>2. IInv /\ [Next]_vars => [Network!Next]_(Network!vars)
  <2> SUFFICES ASSUME IInv, [Next]_vars PROVE [Network!Next]_(Network!vars)
    OBVIOUS
  <2>1. CASE UNCHANGED storeVars
    BY <2>1 DEF storeVars, Network!vars
  <2>2. ASSUME NEW p \in Publishers, Post(p) PROVE Network!Next
    <3>1. [body |-> bytes[p], bundle |-> bundle[p]] \in Network!AllSubmissions
      BY <2>2, BodiesAssumption DEF Post, IInv, TypeOK, Sent, Network!AllSubmissions
    <3>2. Request(p) \in Requests
      BY RequestsOfCommands DEF IInv
    <3>3. Network!Submit(Request(p), [body |-> bytes[p], bundle |-> bundle[p]])
      BY <2>2 DEF Post
    <3> QED
      BY <3>1, <3>2, <3>3 DEF Network!Next
  <2>3. ASSUME NEW r \in Requests, Ingest(r) \/ Answer(r) PROVE Network!Next
    BY <2>3 DEF Ingest, Answer, Network!Next
  <2>4. ASSUME NEW p \in Publishers, Command(p) \/ PostFails(p) \/ ReplyLost(p)
        PROVE  Post(p) \/ UNCHANGED storeVars
    BY <2>4 DEF Command, Read, Verify, Reply, Again, PostFails, ReplyLost
  <2>5. Truncate \/ Rewrite \/ UNCHANGED vars => UNCHANGED storeVars
    BY DEF Truncate, Rewrite, vars
  <2> QED
    BY <2>1, <2>2, <2>3, <2>4, <2>5 DEF Next
<1> QED
  BY <1>1, <1>2, Invariant, PTL DEF Spec, Network!Spec
=============================================================================
