------------------------------- MODULE Corpus -------------------------------
(***************************************************************************)
(* The committed documents that explanations rest on: ai/corpus.py splits  *)
(* them into passages and looks quotes up, ai/retrieval.py ranks passages, *)
(* ai/explain.py chooses those that the model is offered.                  *)
(*                                                                         *)
(* A text is what normalize_for_match leaves of it, in pieces: characters  *)
(* in the code, words in the small instances.  A passage is named by its   *)
(* source and its number.                                                  *)
(***************************************************************************)
EXTENDS Integers, Sequences, FiniteSets

CONSTANTS
    Words,
    MinQuote,       \* MIN_QUOTE_CHARS, in words
    MinFragment,    \* the least fragment of an excerpt that is looked up
    PerRule,        \* PASSAGES_PER_RULE
    MaxPassages,    \* MAX_PASSAGES
    ForQuestion     \* QUESTION_PASSAGES

ASSUME CorpusAssumption ==
    {MinQuote, MinFragment, PerRule, MaxPassages, ForQuestion} \subseteq Nat \ {0}

Texts == Seq(Words)

\* needle in text
Occurs(needle, text) ==
    \E i \in 0 .. Len(text) - Len(needle) : SubSeq(text, i + 1, i + Len(needle)) = needle

\* A document: its text, and where each of its passages ends.
Documents == [text : Texts, ends : Seq(Nat)]

WellSplit(doc) ==
    /\ \A n \in DOMAIN doc.ends : doc.ends[n] \in 1 .. Len(doc.text)
    /\ \A m, n \in DOMAIN doc.ends : m < n => doc.ends[m] < doc.ends[n]

PassageText(doc, n) ==
    SubSeq(doc.text, IF n = 1 THEN 1 ELSE doc.ends[n - 1] + 1, doc.ends[n])

\* What is indexed of a set of sources: some have no copy, or one without text.
Passages(docs, sources) ==
    UNION {{s} \X DOMAIN docs[s].ends : s \in sources \cap DOMAIN docs}

\* Mutant: any words will do, however few.
VerifyQuoteOfAnyLength(docs, s, quote) == s \in DOMAIN docs /\ Occurs(quote, docs[s].text)

\* verify_quote: the whole document, not the passage.
VerifyQuote(docs, s, quote) ==
    s \in DOMAIN docs /\ Len(quote) >= MinQuote /\ Occurs(quote, docs[s].text)

-----------------------------------------------------------------------------
(* Excerpts: fragments between editorial brackets.                         *)

Kept(excerpt) == SelectSeq(excerpt, LAMBDA fragment : Len(fragment) >= MinFragment)

\* The fragments occur in this order and do not overlap.
Located(doc, fragments) ==
    /\ fragments # << >>
    /\ \E at \in [DOMAIN fragments -> 0 .. Len(doc.text)] :
          \A k \in DOMAIN fragments :
              /\ at[k] + Len(fragments[k]) <= Len(doc.text)
              /\ SubSeq(doc.text, at[k] + 1, at[k] + Len(fragments[k])) = fragments[k]
              /\ k > 1 => at[k - 1] + Len(fragments[k - 1]) <= at[k]

\* locate_excerpt: of an excerpt that is located, the first passage with the
\* whole of its first fragment.
Holding(doc, excerpt) ==
    {n \in DOMAIN doc.ends :
        /\ Located(doc, Kept(excerpt))
        /\ Occurs(Kept(excerpt)[1], PassageText(doc, n))
        /\ \A m \in 1 .. n - 1 : ~Occurs(Kept(excerpt)[1], PassageText(doc, m))}

-----------------------------------------------------------------------------
(* What the service has loaded: rules (of Screening), what each depends on *)
(* and quotes, the documents, and how well the words of a rule or of a     *)
(* question match each passage.  A score of 0 is no common word; equal     *)
(* scores are told apart by the passage's name, so two are never equal.    *)

\* rank_passages
Ranked(score, candidates, limit) ==
    {p \in candidates : score[p] > 0 /\ Cardinality({q \in candidates : score[q] > score[p]}) < limit}

\* The passage with the rule's own excerpt, in the first dependency that has one.
ExcerptPassage(ctx, r) ==
    LET deps == ctx.sources[r]
        Has(k) == deps[k] \in DOMAIN ctx.documents
                    /\ Holding(ctx.documents[deps[k]], ctx.excerpts[r]) # {}
    IN  UNION {{deps[k]} \X Holding(ctx.documents[deps[k]], ctx.excerpts[r]) :
                  k \in {k \in DOMAIN deps : Has(k) /\ \A j \in 1 .. k - 1 : ~Has(j)}}

DependsOn(ctx, r) == {ctx.sources[r][k] : k \in DOMAIN ctx.sources[r]}
ScopeOf(ctx, rules) == Passages(ctx.documents, UNION {DependsOn(ctx, r) : r \in rules})

\* The list of one rule, as the place of each passage in it: the excerpt's
\* passage, then the best of all.
ListOf(ctx, r) ==
    LET held == ExcerptPassage(ctx, r)
        best == Ranked(ctx.scores[r], ScopeOf(ctx, {r}), PerRule)
        Better(p) == {q \in best \ held : ctx.scores[r][q] > ctx.scores[r][p]}
    IN  [p \in held \cup best |->
            IF p \in held THEN 1 ELSE Cardinality(held) + 1 + Cardinality(Better(p))]

\* Mutant: the lists are filled in one after the other.
EarlierRuleByRule(lists, p, q) ==
    \E r \in DOMAIN lists :
        /\ p \in DOMAIN lists[r]
        /\ \A s \in DOMAIN lists : q \in DOMAIN lists[s] =>
              r < s \/ (r = s /\ lists[r][p] < lists[s][q])

\* Does p come before q when the lists are dealt out in turn?  Each passage
\* counts where it comes up first.
Earlier(lists, p, q) ==
    \E r \in DOMAIN lists :
        /\ p \in DOMAIN lists[r]
        /\ \A s \in DOMAIN lists : q \in DOMAIN lists[s] =>
              \/ lists[r][p] < lists[s][q]
              \/ lists[r][p] = lists[s][q] /\ r < s

\* grounding_passages
GroundingPassages(ctx, rules) ==
    LET lists == [r \in rules |-> ListOf(ctx, r)]
        all   == UNION {DOMAIN lists[r] : r \in rules}
    IN  {p \in all : Cardinality({q \in all : Earlier(lists, q, p)}) < MaxPassages}

\* Mutant: the question is answered from any document.
QuestionPassagesOfAll(ctx, rules, score) ==
    GroundingPassages(ctx, rules)
        \cup Ranked(score, Passages(ctx.documents, DOMAIN ctx.documents), ForQuestion)

\* question_passages: the cut at MAX_PASSAGES + QUESTION_PASSAGES cuts nothing.
QuestionPassages(ctx, rules, score) ==
    GroundingPassages(ctx, rules) \cup Ranked(score, ScopeOf(ctx, rules), ForQuestion)
=============================================================================
