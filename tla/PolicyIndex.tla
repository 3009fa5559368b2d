----------------------------- MODULE PolicyIndex -----------------------------
(***************************************************************************)
(* What the agent reads of the policy (src/services/decision/service/       *)
(* policy_index.py, decider.py): the sections that every invoice needs, the *)
(* one of its category, and those that resemble the invoice.                *)
(*                                                                          *)
(* A section is its id and the keywords its title holds; the id is a slug   *)
(* of the title, so two sections may share one, whatever their keywords.    *)
(* Scores are kept by id: which ids reach the threshold is a parameter, for *)
(* it depends on the words of the invoice and of the policy only.           *)
(***************************************************************************)
EXTENDS SequencesExt

CONSTANTS
    SectionIds,
    Titles,      \* sets of keywords
    MaxSections  \* bound: sections of a policy

Always == {"global rules", "autonomy thresholds"}

\* _CATEGORY_KEYWORDS; "other" has no section.
CategoryKeywords(category) == {category} \ {"other"}

Section == [id: SectionIds, title: Titles]
Policies == BoundedSeq(Section, MaxSections)

\* The ids whose score reaches the threshold.
Similarities == SUBSET SectionIds

\* retrieve_relevant_policy_text(), its first loop.
AlwaysIncluded(policy) == {s.id : s \in {x \in ToSet(policy) : x.title \cap Always # {}}}

\* Its second loop ends at the first section whose title holds the keyword.
CategoryIncluded(category, policy) ==
    LET n == SelectInSeq(policy, LAMBDA s : s.title \cap CategoryKeywords(category) # {})
    IN  IF n = 0 THEN {} ELSE {policy[n].id}

\* Its third adds what is similar, by id.
Included(category, policy, similar) ==
    AlwaysIncluded(policy) \cup CategoryIncluded(category, policy) \cup similar

\* Mutant: the sections are taken from the dictionary, one for each id.
RetrieveOnePerId(category, policy, similar) ==
    LET last(id) == SelectLastInSeq(policy, LAMBDA s : s.id = id) IN
    Restrict(policy, {n \in DOMAIN policy : /\ policy[n].id \in Included(category, policy, similar)
                                            /\ n = last(policy[n].id)})
\* Every section whose id was included, at its place in the document.
Retrieve(category, policy, similar) ==
    Restrict(policy, {n \in DOMAIN policy : policy[n].id \in Included(category, policy, similar)})

\* Decider.decide(): a retrieval that raises is replaced by the whole policy.
PromptSections(category, policy, similar, raised) ==
    IF raised THEN policy ELSE Retrieve(category, policy, similar)

-----------------------------------------------------------------------------
\* The retrieval contract that policy_index.py states, of the sections in a prompt.
RetrievalContract(category, policy, prompt) ==
    LET own == {s \in ToSet(policy) : s.title \cap CategoryKeywords(category) # {}} IN
    /\ {s \in ToSet(policy) : s.title \cap Always # {}} \subseteq prompt
    /\ own # {} => own \cap prompt # {}
=============================================================================
