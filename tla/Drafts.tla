------------------------------- MODULE Drafts -------------------------------
(***************************************************************************)
(* The contract around generated text, rv2-ai/src/lib.rs: a request is     *)
(* built and checked, a generator answers with an untrusted candidate, the *)
(* candidate becomes a draft only against the request that grounded it,    *)
(* and a person decides.  The generator is external: it may answer with    *)
(* any text and any citations, or fail.                                    *)
(*                                                                         *)
(* A text is its length after trimming, 0 for a blank one.  Facts are made *)
(* by GroundedFact::new, which refuses a blank id or value.                *)
(***************************************************************************)
EXTENDS Integers, Sequences, SequencesExt

CONSTANTS FactIds,      \* the ids that facts carry and candidates cite
          HardMax,      \* HARD_MAX_OUTPUT_CHARS
          MaxFacts,     \* bound: the facts of one request
          MaxCites      \* bound: the citations of one candidate

ASSUME LimitsAssumption == HardMax \in Nat /\ MaxFacts \in Nat /\ MaxCites \in Nat

Boundaries == {"local_only", "remote_with_explicit_consent"}
Sensitivities == {"public", "customer_provided", "local_only"}

VARIABLES stage,        \* "idle", "asked", "candidate", "draft", "refused" or "decided"
          request, candidate, draft,
          outcome       \* what the product may use after the decision

draftVars == <<stage, request, candidate, draft, outcome>>

Nothing == [text |-> 0]

DraftsInit ==
    /\ stage = "idle"
    /\ request = Nothing /\ candidate = Nothing /\ draft = Nothing /\ outcome = Nothing

-----------------------------------------------------------------------------

Blank(length) == length = 0

\* GenerationRequest::build: the facts are looked at one by one, the first that
\* repeats an id or may not leave the device refuses the request.
BadFact(r, i) ==
    \/ \E j \in 1..i - 1 : r.facts[j].id = r.facts[i].id
    \/ r.boundary = "remote_with_explicit_consent" /\ r.facts[i].sensitivity = "local_only"

Build(r) ==
    /\ ~Blank(r.instruction)
    /\ r.facts # <<>>
    /\ r.budget # 0 /\ r.budget <= HardMax
    /\ \A i \in DOMAIN r.facts : ~BadFact(r, i)

\* A defect: repeated citations pass.
LenientValidated(r, c) ==
    /\ ~Blank(c.text)
    /\ c.text <= r.budget
    /\ c.cites # <<>>
    /\ Range(c.cites) \subseteq {r.facts[j].id : j \in DOMAIN r.facts}

\* validate_candidate.
Validated(r, c) ==
    /\ ~Blank(c.text)
    /\ c.text <= r.budget
    /\ c.cites # <<>>
    /\ \A i \in DOMAIN c.cites :
          /\ c.cites[i] \in {r.facts[j].id : j \in DOMAIN r.facts}
          /\ \A j \in 1..i - 1 : c.cites[j] # c.cites[i]

-----------------------------------------------------------------------------

Requests ==
    [instruction : {0, 1}, budget : 0..HardMax + 1, boundary : Boundaries,
     facts : BoundedSeq([id : FactIds, sensitivity : Sensitivities], MaxFacts)]

Candidates == [text : 0..HardMax + 1, cites : BoundedSeq(FactIds, MaxCites)]

Ask(r) ==
    /\ stage = "idle"
    /\ IF Build(r)
       THEN stage' = "asked" /\ request' = r
       ELSE stage' = "refused" /\ request' = request
    /\ UNCHANGED <<candidate, draft, outcome>>

\* DraftGenerator::generate: an error ends the attempt.
Generate(c) ==
    /\ stage = "asked"
    /\ \/ stage' = "candidate" /\ candidate' = c
       \/ stage' = "refused" /\ candidate' = candidate
    /\ UNCHANGED <<request, draft, outcome>>

Validate ==
    /\ stage = "candidate"
    /\ IF Validated(request, candidate)
       THEN stage' = "draft" /\ draft' = candidate
       ELSE stage' = "refused" /\ draft' = draft
    /\ UNCHANGED <<request, candidate, outcome>>

\* DraftDecision: accept the draft, use a non-blank edit of it, or reject it.
Accept ==
    /\ stage = "draft"
    /\ stage' = "decided" /\ outcome' = draft
    /\ UNCHANGED <<request, candidate, draft>>

Edit(text) ==
    /\ stage = "draft" /\ ~Blank(text)
    /\ stage' = "decided" /\ outcome' = [text |-> text]
    /\ UNCHANGED <<request, candidate, draft>>

Reject ==
    /\ stage = "draft"
    /\ stage' = "decided"
    /\ UNCHANGED <<request, candidate, draft, outcome>>

DraftsNext ==
    \/ \E r \in Requests : Ask(r)
    \/ \E c \in Candidates : Generate(c)
    \/ Validate \/ Accept \/ Reject
    \/ \E text \in 0..HardMax + 1 : Edit(text)

DraftsSpec == DraftsInit /\ [][DraftsNext]_draftVars

-----------------------------------------------------------------------------

\* What is accepted says something, within the hard limit, and every citation of
\* it names exactly one fact of its request; no fact of a remote request was one
\* to stay on the device.  Nothing is used without a decision.
AcceptedIsGrounded ==
    /\ stage \notin {"idle", "refused"} /\ request.boundary # "local_only" =>
          \A i \in DOMAIN request.facts : request.facts[i].sensitivity # "local_only"
    /\ "cites" \in DOMAIN outcome =>
          /\ outcome.text \in 1..HardMax
          /\ outcome.cites # <<>>
          /\ IsInjective(outcome.cites)
          /\ \A i \in DOMAIN outcome.cites :
                \E j \in DOMAIN request.facts :
                    /\ request.facts[j].id = outcome.cites[i]
                    /\ \A k \in DOMAIN request.facts :
                          request.facts[k].id = outcome.cites[i] => k = j
    /\ stage # "decided" => outcome = Nothing
=============================================================================
