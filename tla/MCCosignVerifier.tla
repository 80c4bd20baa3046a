--------------------------- MODULE MCCosignVerifier ---------------------------
(***************************************************************************)
(* Three submissions on one worker thread: one with a genuine identity     *)
(* proof, one with a worthless one, one without.  Each may have any single *)
(* flaw it can have, or two.  A certificate has at most one oddity: a      *)
(* claim that is missing or malformed, only a legacy one, with or without  *)
(* contradicting the rest, a legacy one that contradicts the generic one,  *)
(* another workflow, or a reusable one of another repository.              *)
(* The branch is named "v1@refs/heads/main", as git allows: the workflow   *)
(* URI ends in its ref and in that of the branch main as well.             *)
(***************************************************************************)
EXTENDS CosignVerifier

MCRequests == {"genuine", "worthless", "plain"}
MCWithProof == {"genuine", "worthless"}
MCGenuine == {"genuine"}
MCMayHave ==
  [genuine   |-> {{}, {"rate"}, {"signature"}, {"privacy", "proofSize"}},
   worthless |-> {{}, {"proof"}, {"size"}},
   plain     |-> {{}, {"json"}, {"wrapper", "signature"}}]

Branch == <<"refs/heads/v1", "refs/heads/main">>
Main == <<"refs/heads/main">>
NextBranch == <<"refs/heads/next">>
Workflow(repository, file, ref) == [repository |-> repository, file |-> file, at |-> ref]
Own == Workflow("acme/app", "ci.yml", Branch)
Reusable == Workflow("acme/shared", "ci.yml", Branch)
Other == Workflow("acme/app", "release.yml", Branch)
OnMain == Workflow("acme/app", "ci.yml", Main)
Fork == Workflow("acme/fork", "ci.yml", Branch)
Both(value) == [generic |-> value, legacy |-> value]

Usual ==
  [readable |-> TRUE, sans |-> <<Own>>, issuer |-> "github", workflow |-> Own,
   repository |-> Both("acme/app"), revision |-> Both("sha"), ref |-> Both(Branch),
   event |-> "push"]

Runs(workflow) == [Usual EXCEPT !.sans = <<workflow>>, !.workflow = workflow]

MCCertificates ==
  {Usual,
   [Usual EXCEPT !.readable = FALSE],
   [Usual EXCEPT !.sans = << >>],
   [Usual EXCEPT !.sans = <<Reusable>>],
   Runs(Reusable), Runs(Other), Runs(OnMain), [Runs(OnMain) EXCEPT !.ref = Both(Main)],
   [Usual EXCEPT !.issuer = "other"],
   [Usual EXCEPT !.workflow = Malformed],
   [Usual EXCEPT !.repository.generic = Absent],
   [Usual EXCEPT !.repository.generic = Malformed],
   [Usual EXCEPT !.repository.generic = "acme/fork"],
   [Runs(Fork) EXCEPT !.repository = Both("acme/fork")],
   [Usual EXCEPT !.revision = Both(Absent)],
   [Usual EXCEPT !.ref = Both(Main)],
   [Usual EXCEPT !.ref = Both(<<"refs/heads/v1">>)],
   [Usual EXCEPT !.ref.generic = NextBranch],
   [Usual EXCEPT !.ref.legacy = NextBranch],
   [Usual EXCEPT !.ref.generic = Absent],
   [Usual EXCEPT !.ref = [generic |-> Absent, legacy |-> NextBranch]],
   [Usual EXCEPT !.ref = Both(Malformed)],
   [Usual EXCEPT !.event = Absent]}
MCWorkflow == Own
=============================================================================
