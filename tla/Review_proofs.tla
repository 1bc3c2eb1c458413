----------------------------- MODULE Review_proofs -----------------------------
(***************************************************************************)
(* Proofs about ReviewerPromotion, for every rule base, roster, window and *)
(* number of commits; and about Clocks, for every number of business days, *)
(* every day of receipt and every calendar that an agency may supply.      *)
(***************************************************************************)
EXTENDS ReviewerPromotion, Clocks, AvailabilityWatch, FiniteSetTheorems,
        WellFoundedInduction, TLAPS

-----------------------------------------------------------------------------
(* The levels of the rules.                                                *)

\* A line of a ledger that names a person for a level above the floor.
Claimed(entry) == entry.level \in Reviewed /\ entry.who # NoOne

\* Somebody did what the line says: the person, the day, the level, and a
\* wording with the fingerprint that the line carries.
EarnedBy(entry, history) ==
    \E review \in history :
        /\ review.rule = entry.rule /\ review.level = entry.level
        /\ review.who = entry.who /\ review.on = entry.on
        /\ RulePrint(review.read) = entry.whole

LedgerEarned ==
    \A k \in DOMAIN tree.ledger : Claimed(tree.ledger[k]) => EarnedBy(tree.ledger[k], reviews)

\* What was published was earned, and attested when it was built.
PageEarned ==
    page # << >> =>
        \A k \in DOMAIN page.ledger :
            LET entry == page.ledger[k]
            IN  Claimed(entry) =>
                  /\ EarnedBy(entry, reviews)
                  /\ [who |-> entry.who, level |-> entry.level] \in attested

PromotionInv == ReviewerPromotionTypeOK /\ LedgerEarned /\ PageEarned

-----------------------------------------------------------------------------
(* Lemmas about lines and ledgers.                                         *)

\* A fingerprint tells two rules apart.
LEMMA PrintIsOfOneRule ==
    ASSUME NEW a \in Contents, NEW b \in Contents, RulePrint(a) = RulePrint(b)
    PROVE  a = b
BY DEF Contents, RulePrint

\* The days of the model are numbers, and the first is one of the reviewing days.
LEMMA DaysAreNumbers ==
    /\ FirstDay \in 0 .. ReviewDays /\ ReviewDays \in Nat /\ LastDay \in Nat
    /\ 0 .. ReviewDays \subseteq Days /\ Days \subseteq Nat /\ FirstDay \in Days
BY CalendarAssumption, ReviewerPromotionAssumption DEF Days

\* A fresh line is a line, and claims nothing.
LEMMA UnreviewedLine ==
    ASSUME NEW r \in Rules
    PROVE  Unreviewed(r) \in LedgerLines /\ ~Claimed(Unreviewed(r))
BY DEF Unreviewed, LedgerLines, Levels, Prints, Floor, Reviewed, Claimed

\* One line for each rule is a ledger of fresh lines.
LEMMA FirstLedger ==
    /\ SetToSeq({Unreviewed(r) : r \in Rules}) \in Seq(LedgerLines)
    /\ \A k \in DOMAIN SetToSeq({Unreviewed(r) : r \in Rules}) :
          ~Claimed(SetToSeq({Unreviewed(r) : r \in Rules})[k])
<1> DEFINE S == {Unreviewed(r) : r \in Rules}
           f == [r \in Rules |-> Unreviewed(r)]
           n == Cardinality(S)
<1>1. IsFiniteSet(S)
  <2>1. f \in Surjection(Rules, S)
    BY DEF Surjection
  <2>2. IsFiniteSet(Rules)
    BY VerificationAssumption
  <2>3. QED
    BY <2>1, <2>2, FS_Surjection
<1>2. n \in Nat /\ \E g \in [1 .. n -> S] : IsInjective(g)
  <2> HIDE DEF S
  <2>1. n \in Nat /\ ExistsBijection(1 .. n, S)
    BY <1>1, FS_CardinalityType
  <2>2. QED
    BY <2>1 DEF ExistsBijection, Bijection, Injection, IsInjective
<1>3. SetToSeq(S) \in [1 .. n -> S]
  BY <1>2 DEF SetToSeq
<1>4. S \subseteq LedgerLines /\ \A e \in S : ~Claimed(e)
  BY UnreviewedLine
<1> HIDE DEF S
<1>5. SetToSeq(S) \in Seq(LedgerLines) /\ DOMAIN SetToSeq(S) = 1 .. n
  BY <1>2, <1>3, <1>4
<1>6. \A k \in DOMAIN SetToSeq(S) : ~Claimed(SetToSeq(S)[k])
  BY <1>3, <1>4, <1>5
<1>7. QED
  BY <1>5, <1>6 DEF S

\* What was earned stays earned: reviews are only added.
LEMMA EarnedStays ==
    ASSUME NEW entry, EarnedBy(entry, reviews), reviews \subseteq reviews'
    PROVE  EarnedBy(entry, reviews')
BY DEF EarnedBy

\* A tree with another ledger of lines is a tree.
LEMMA LedgerReplaced ==
    ASSUME ReviewerPromotionTypeOK, NEW ledger \in Seq(LedgerLines),
           tree' = [tree EXCEPT !.ledger = ledger]
    PROVE  tree' \in Trees /\ tree'.ledger = ledger
BY DEF ReviewerPromotionTypeOK, Trees

\* One line is replaced by one that claims nothing, or that was earned.
LEMMA LineReplaced ==
    ASSUME ReviewerPromotionTypeOK, LedgerEarned, reviews \subseteq reviews',
           NEW k \in DOMAIN tree.ledger, NEW entry \in LedgerLines,
           tree' = [tree EXCEPT !.ledger = [tree.ledger EXCEPT ![k] = entry]],
           Claimed(entry) => EarnedBy(entry, reviews')
    PROVE  tree' \in Trees /\ LedgerEarned'
<1> DEFINE ledger == [tree.ledger EXCEPT ![k] = entry]
<1>1. tree.ledger \in Seq(LedgerLines)
  BY DEF ReviewerPromotionTypeOK, Trees
<1>2. /\ ledger \in Seq(LedgerLines) /\ DOMAIN ledger = DOMAIN tree.ledger
      /\ \A j \in DOMAIN ledger : ledger[j] = IF j = k THEN entry ELSE tree.ledger[j]
  BY <1>1
<1> HIDE DEF ledger
<1>3. tree' \in Trees /\ tree'.ledger = ledger
  BY <1>2, LedgerReplaced DEF ledger
<1>4. ASSUME NEW j \in DOMAIN ledger, Claimed(ledger[j]) PROVE EarnedBy(ledger[j], reviews')
  <2>1. CASE j = k
    BY <1>2, <1>4, <2>1
  <2>2. CASE j # k
    <3>1. EarnedBy(tree.ledger[j], reviews)
      BY <1>2, <1>4, <2>2 DEF LedgerEarned
    <3>2. QED
      BY <1>2, <2>2, <3>1, EarnedStays
  <2>3. QED
    BY <2>1, <2>2
<1>5. QED
  BY <1>3, <1>4 DEF LedgerEarned

\* Every line of the new ledger was a line of the old one.
LEMMA LinesRearranged ==
    ASSUME ReviewerPromotionTypeOK, LedgerEarned, reviews' = reviews,
           NEW ledger \in Seq(LedgerLines),
           tree' = [tree EXCEPT !.ledger = ledger],
           \A j \in DOMAIN ledger : \E i \in DOMAIN tree.ledger : ledger[j] = tree.ledger[i]
    PROVE  tree' \in Trees /\ LedgerEarned'
<1>1. tree' \in Trees /\ tree'.ledger = ledger
  BY LedgerReplaced
<1>2. ASSUME NEW j \in DOMAIN ledger, Claimed(ledger[j]) PROVE EarnedBy(ledger[j], reviews')
  <2>1. PICK i \in DOMAIN tree.ledger : ledger[j] = tree.ledger[i]
    OBVIOUS
  <2>2. EarnedBy(tree.ledger[i], reviews)
    BY <1>2, <2>1 DEF LedgerEarned
  <2>3. QED
    BY <2>1, <2>2, EarnedStays
<1>3. QED
  BY <1>1, <1>2 DEF LedgerEarned

\* The published page does not change and nothing that it rests on is lost.
LEMMA PageStays ==
    ASSUME PageEarned, page' = page, attested' = attested, reviews \subseteq reviews'
    PROVE  PageEarned'
<1>1. ASSUME page # << >>, NEW k \in DOMAIN page.ledger, Claimed(page.ledger[k])
      PROVE  /\ EarnedBy(page.ledger[k], reviews')
             /\ [who |-> page.ledger[k].who, level |-> page.ledger[k].level] \in attested'
  <2>1. /\ EarnedBy(page.ledger[k], reviews)
        /\ [who |-> page.ledger[k].who, level |-> page.ledger[k].level] \in attested
    BY <1>1 DEF PageEarned
  <2>2. QED
    BY <2>1, EarnedStays
<1>2. QED
  BY <1>1 DEF PageEarned

-----------------------------------------------------------------------------
(* The invariant.                                                          *)

LEMMA PromotionStart == PromotionInit => PromotionInv
<1> SUFFICES ASSUME PromotionInit PROVE PromotionInv
  OBVIOUS
<1> DEFINE first == SetToSeq({Unreviewed(r) : r \in Rules})
<1>1. first \in Seq(LedgerLines) /\ \A k \in DOMAIN first : ~Claimed(first[k])
  BY FirstLedger
<1> HIDE DEF first
<1>2. tree \in Trees /\ tree.ledger = first
  <2>1. [r \in Rules |-> [cite |-> FirstText, verified |-> FirstDay, body |-> FirstText]]
          \in [Rules -> Contents]
    BY VerificationAssumption, DaysAreNumbers DEF Contents
  <2>2. QED
    BY <1>1, <2>1 DEF PromotionInit, Trees, first
<1>3. ReviewerPromotionTypeOK
  BY <1>2, DaysAreNumbers, ReviewerPromotionAssumption DEF PromotionInit, ReviewerPromotionTypeOK
<1>4. LedgerEarned
  BY <1>1, <1>2 DEF LedgerEarned
<1>5. PageEarned
  BY DEF PromotionInit, PageEarned
<1>6. QED
  BY <1>3, <1>4, <1>5 DEF PromotionInv

\* A commit is counted.
LEMMA CommitCounts ==
    ASSUME ReviewerPromotionTypeOK, Commit
    PROVE  edits' \in 0 .. MaxEdits
BY ReviewerPromotionAssumption DEF ReviewerPromotionTypeOK, Commit

LEMMA EditRuleKeeps ==
    ASSUME PromotionInv, NEW r \in Rules, EditRule(r)
    PROVE  PromotionInv'
<1>1. tree \in Trees /\ today \in Days
  BY DaysAreNumbers DEF PromotionInv, ReviewerPromotionTypeOK
<1>e. ASSUME NEW content \in Contents, tree' = [tree EXCEPT !.rules[r] = content]
      PROVE  tree' \in Trees /\ tree'.ledger = tree.ledger
  BY <1>1, <1>e DEF Trees
<1>r. tree.rules[r] \in Contents
  BY <1>1 DEF Trees
<1>2. ASSUME NEW t \in Texts, tree' = [tree EXCEPT !.rules[r].body = t]
      PROVE  tree' \in Trees /\ tree'.ledger = tree.ledger
  <2> DEFINE content == [tree.rules[r] EXCEPT !.body = t]
  <2>1. content \in Contents
    BY <1>r DEF Contents
  <2>2. tree' = [tree EXCEPT !.rules[r] = content]
    BY <1>1, <1>2 DEF Trees
  <2> HIDE DEF content
  <2>3. QED
    BY <1>e, <2>1, <2>2
<1>3. ASSUME NEW t \in Texts, NEW d \in {Undated, today},
             tree' = [tree EXCEPT !.rules[r].cite = t, !.rules[r].verified = d]
      PROVE  tree' \in Trees /\ tree'.ledger = tree.ledger
  <2> DEFINE content == [tree.rules[r] EXCEPT !.cite = t, !.verified = d]
  <2>1. content \in Contents
    BY <1>1, <1>r DEF Contents
  <2>2. tree' = [tree EXCEPT !.rules[r] = content]
    BY <1>1, <1>3 DEF Trees
  <2> HIDE DEF content
  <2>3. QED
    BY <1>e, <2>1, <2>2
<1>4. tree' \in Trees /\ tree'.ledger = tree.ledger
  BY <1>2, <1>3 DEF EditRule
<1>5. ReviewerPromotionTypeOK'
  BY <1>4, CommitCounts DEF PromotionInv, ReviewerPromotionTypeOK, EditRule
<1>6. LedgerEarned'
  BY <1>4 DEF PromotionInv, LedgerEarned, EditRule, EarnedBy
<1>7. PageEarned'
  BY PageStays DEF PromotionInv, EditRule
<1>8. QED
  BY <1>5, <1>6, <1>7 DEF PromotionInv

LEMMA AdoptSnapshotKeeps ==
    ASSUME PromotionInv, NEW s \in Sources, AdoptSnapshot(s)
    PROVE  PromotionInv'
<1>1. tree' \in Trees /\ tree'.ledger = tree.ledger
  BY DEF PromotionInv, ReviewerPromotionTypeOK, AdoptSnapshot, Trees
<1>2. ReviewerPromotionTypeOK'
  BY <1>1, CommitCounts DEF PromotionInv, ReviewerPromotionTypeOK, AdoptSnapshot
<1>3. LedgerEarned'
  BY <1>1 DEF PromotionInv, LedgerEarned, AdoptSnapshot, EarnedBy
<1>4. PageEarned'
  BY PageStays DEF PromotionInv, AdoptSnapshot
<1>5. QED
  BY <1>2, <1>3, <1>4 DEF PromotionInv

\* The new line carries the fingerprint of what was read.
LEMMA ReviewKeeps ==
    ASSUME PromotionInv, NEW who \in People, NEW k \in DOMAIN tree.ledger,
           NEW level \in Reviewed, Review(who, k, level)
    PROVE  PromotionInv'
<1> DEFINE r      == tree.ledger[k].rule
           rule   == tree.rules[r]
           entry  == [rule |-> r, level |-> level, who |-> who, on |-> today,
                      cited |-> CitationPrint(rule), whole |-> RulePrint(rule)]
           review == [rule |-> r, level |-> level, who |-> who, on |-> today, read |-> rule]
<1>1. /\ tree' = [tree EXCEPT !.ledger = [tree.ledger EXCEPT ![k] = entry]]
      /\ reviews' = reviews \cup {review}
      /\ Commit /\ UNCHANGED <<today, members, page, attested>>
  BY DEF Review
<1>2. ReviewerPromotionTypeOK /\ LedgerEarned /\ PageEarned
  BY DEF PromotionInv
<1>3. r \in Rules /\ rule \in Contents /\ today \in Days
  <2>1. tree.ledger \in Seq(LedgerLines) /\ tree.rules \in [Rules -> Contents]
    BY <1>2 DEF ReviewerPromotionTypeOK, Trees
  <2>2. tree.ledger[k] \in LedgerLines
    BY <2>1
  <2>3. r \in Rules
    BY <2>2 DEF LedgerLines
  <2>4. QED
    BY <1>2, <2>1, <2>3, DaysAreNumbers DEF ReviewerPromotionTypeOK
<1>4. entry \in LedgerLines /\ review \in Reviews
  <2>1. CitationPrint(rule) \in Prints /\ RulePrint(rule) \in Prints
    BY <1>3 DEF Contents, CitationPrint, RulePrint, Prints
  <2>2. QED
    BY <1>3, <2>1 DEF LedgerLines, Reviews, Levels
<1> HIDE DEF rule, r
<1>5. EarnedBy(entry, reviews')
  <2>1. /\ review.rule = entry.rule /\ review.level = entry.level
        /\ review.who = entry.who /\ review.on = entry.on
        /\ RulePrint(review.read) = entry.whole
    OBVIOUS
  <2> HIDE DEF entry, review
  <2>2. review \in reviews'
    BY <1>1
  <2>3. QED
    BY <2>1, <2>2 DEF EarnedBy
<1> HIDE DEF entry, review
<1>6. tree' \in Trees /\ LedgerEarned'
  BY <1>1, <1>2, <1>4, <1>5, LineReplaced
<1>7. ReviewerPromotionTypeOK'
  BY <1>1, <1>2, <1>4, <1>6, CommitCounts DEF ReviewerPromotionTypeOK
<1>8. PageEarned'
  BY <1>1, <1>2, PageStays
<1>9. QED
  BY <1>6, <1>7, <1>8 DEF PromotionInv

\* A slip never leaves a claim that was not there before.
LEMMA SlipKeeps ==
    ASSUME PromotionInv, NEW k \in DOMAIN tree.ledger, Slip(k)
    PROVE  PromotionInv'
<1> DEFINE entry == tree.ledger[k]
           size  == Len(tree.ledger)
<1>1. ReviewerPromotionTypeOK /\ LedgerEarned /\ PageEarned
  BY DEF PromotionInv
<1>2. Commit /\ reviews' = reviews /\ UNCHANGED <<today, members, page, attested>>
  BY DEF Slip
<1>3. /\ tree.ledger \in Seq(LedgerLines) /\ entry \in LedgerLines
      /\ size \in Nat /\ DOMAIN tree.ledger = 1 .. size
  BY <1>1 DEF ReviewerPromotionTypeOK, Trees
<1>4. tree' \in Trees /\ LedgerEarned'
  <2>1. CASE tree' = [tree EXCEPT !.ledger[k].level = Floor]
    <3> DEFINE lower == [entry EXCEPT !.level = Floor]
    <3>1. lower \in LedgerLines /\ ~Claimed(lower)
      BY <1>3 DEF LedgerLines, Levels, Claimed, Floor, Reviewed
    <3>2. tree' = [tree EXCEPT !.ledger = [tree.ledger EXCEPT ![k] = lower]]
      BY <2>1
    <3>3. QED
      BY <1>1, <1>2, <3>1, <3>2, LineReplaced
  <2>2. CASE tree' = [tree EXCEPT !.ledger[k].who = NoOne]
    <3> DEFINE nameless == [entry EXCEPT !.who = NoOne]
    <3>1. nameless \in LedgerLines /\ ~Claimed(nameless)
      BY <1>3 DEF LedgerLines, Claimed
    <3>2. tree' = [tree EXCEPT !.ledger = [tree.ledger EXCEPT ![k] = nameless]]
      BY <2>2
    <3>3. QED
      BY <1>1, <1>2, <3>1, <3>2, LineReplaced
  <2>3. CASE tree' = [tree EXCEPT !.ledger[k] = Unreviewed(entry.rule)]
    <3>1. Unreviewed(entry.rule) \in LedgerLines /\ ~Claimed(Unreviewed(entry.rule))
      BY <1>3, UnreviewedLine DEF LedgerLines
    <3>2. tree' = [tree EXCEPT !.ledger = [tree.ledger EXCEPT ![k] = Unreviewed(entry.rule)]]
      BY <2>3
    <3>3. QED
      BY <1>1, <1>2, <3>1, <3>2, LineReplaced
  <2>4. CASE tree' = [tree EXCEPT !.ledger = Append(@, entry)]
    <3> DEFINE longer == Append(tree.ledger, entry)
    <3>1. longer \in Seq(LedgerLines) /\ DOMAIN longer = 1 .. size + 1
      BY <1>3
    <3>2. \A j \in DOMAIN longer : \E i \in DOMAIN tree.ledger : longer[j] = tree.ledger[i]
      <4> SUFFICES ASSUME NEW j \in DOMAIN longer
                   PROVE  \E i \in DOMAIN tree.ledger : longer[j] = tree.ledger[i]
        OBVIOUS
      <4>1. CASE j \in 1 .. size
        BY <1>3, <4>1
      <4>2. CASE j = size + 1
        BY <1>3, <4>2
      <4>3. QED
        BY <1>3, <3>1, <4>1, <4>2
    <3>3. tree' = [tree EXCEPT !.ledger = longer]
      BY <2>4
    <3> HIDE DEF longer
    <3>4. QED
      BY <1>1, <1>2, <3>1, <3>2, <3>3, LinesRearranged
  <2>5. CASE /\ size > 1
             /\ tree' = [tree EXCEPT !.ledger =
                   [j \in 1 .. Len(@) - 1 |-> IF j < k THEN @[j] ELSE @[j + 1]]]
    <3> DEFINE shorter == [j \in 1 .. size - 1 |-> IF j < k THEN tree.ledger[j]
                                                          ELSE tree.ledger[j + 1]]
    <3>1. \A j \in 1 .. size - 1 : IF j < k THEN j \in 1 .. size ELSE j + 1 \in 1 .. size
      BY <1>3, <2>5
    <3>2. \A j \in 1 .. size - 1 : \E i \in DOMAIN tree.ledger : shorter[j] = tree.ledger[i]
      BY <1>3, <3>1
    <3>3. shorter \in [1 .. size - 1 -> LedgerLines]
      BY <1>3, <3>1
    <3>4. shorter \in Seq(LedgerLines) /\ DOMAIN shorter = 1 .. size - 1
      BY <1>3, <2>5, <3>3
    <3>5. tree' = [tree EXCEPT !.ledger = shorter]
      BY <2>5
    <3> HIDE DEF shorter
    <3>6. QED
      BY <1>1, <1>2, <3>2, <3>4, <3>5, LinesRearranged
  <2>6. QED
    BY <2>1, <2>2, <2>3, <2>4, <2>5 DEF Slip
<1>5. ReviewerPromotionTypeOK'
  BY <1>1, <1>2, <1>4, CommitCounts DEF ReviewerPromotionTypeOK
<1>6. PageEarned'
  BY <1>1, <1>2, PageStays
<1>7. QED
  BY <1>4, <1>5, <1>6 DEF PromotionInv

LEMMA RosterKeeps ==
    ASSUME PromotionInv,
           \/ \E who \in People, role \in Roles : Attest(who, role)
           \/ \E m \in members : Leave(m)
    PROVE  PromotionInv'
<1>1. Commit /\ UNCHANGED <<today, tree, page, reviews, attested>>
  BY DEF Attest, Leave
<1>2. members' \in SUBSET Members
  <2>1. members \in SUBSET Members /\ today \in Days
    BY DaysAreNumbers DEF PromotionInv, ReviewerPromotionTypeOK
  <2>2. QED
    BY <2>1 DEF Attest, Leave, Members
<1>3. ReviewerPromotionTypeOK'
  BY <1>1, <1>2, CommitCounts DEF PromotionInv, ReviewerPromotionTypeOK
<1>4. LedgerEarned'
  BY <1>1 DEF PromotionInv, LedgerEarned, EarnedBy
<1>5. PageEarned'
  BY <1>1, PageStays DEF PromotionInv
<1>6. QED
  BY <1>3, <1>4, <1>5 DEF PromotionInv

\* What the build lets through was permitted by the roster of that day.
LEMMA BuildKeeps ==
    ASSUME PromotionInv, Build
    PROVE  PromotionInv'
<1>1. /\ LedgerLoadsFor(members, tree.ledger, tree.rules, today)
      /\ page' = tree
      /\ attested' = {[who |-> m.who, level |-> RoleLevel[m.role]] : m \in members}
      /\ UNCHANGED <<today, tree, members, edits, reviews>>
  BY DEF Build
<1>2. ReviewerPromotionTypeOK'
  BY <1>1 DEF PromotionInv, ReviewerPromotionTypeOK
<1>3. LedgerEarned'
  BY <1>1 DEF PromotionInv, LedgerEarned, EarnedBy
<1>4. ASSUME NEW k \in DOMAIN tree.ledger, Claimed(tree.ledger[k])
      PROVE  /\ EarnedBy(tree.ledger[k], reviews')
             /\ [who |-> tree.ledger[k].who, level |-> tree.ledger[k].level] \in attested'
  <2>1. EarnedBy(tree.ledger[k], reviews')
    BY <1>1, <1>4, EarnedStays DEF PromotionInv, LedgerEarned
  <2>2. Allows(members, tree.ledger[k].who, tree.ledger[k].level, today)
    BY <1>1, <1>4 DEF LedgerLoadsFor, Permitted, Claimed
  <2>3. QED
    BY <1>1, <2>1, <2>2 DEF Allows
<1>5. PageEarned'
  BY <1>1, <1>4 DEF PageEarned
<1>6. QED
  BY <1>2, <1>3, <1>5 DEF PromotionInv

LEMMA ReviewDayKeeps ==
    ASSUME PromotionInv, ReviewDay
    PROVE  PromotionInv'
<1>1. UNCHANGED <<tree, members, page, edits, reviews, attested>>
  BY DEF ReviewDay
<1>2. today' \in 0 .. ReviewDays
  BY DaysAreNumbers DEF ReviewDay, NextDay, PromotionInv, ReviewerPromotionTypeOK
<1>3. ReviewerPromotionTypeOK'
  BY <1>1, <1>2 DEF PromotionInv, ReviewerPromotionTypeOK
<1>4. LedgerEarned'
  BY <1>1 DEF PromotionInv, LedgerEarned, EarnedBy
<1>5. PageEarned'
  BY <1>1, PageStays DEF PromotionInv
<1>6. QED
  BY <1>3, <1>4, <1>5 DEF PromotionInv

THEOREM PromotionInvariant == PromotionSpec => []PromotionInv
<1>1. PromotionInit => PromotionInv
  BY PromotionStart
<1>2. PromotionInv /\ [PromotionNext]_promotionVars => PromotionInv'
  <2> SUFFICES ASSUME PromotionInv, [PromotionNext]_promotionVars PROVE PromotionInv'
    OBVIOUS
  <2>1. CASE \E r \in Rules : EditRule(r)
    BY <2>1, EditRuleKeeps
  <2>2. CASE \E s \in Sources : AdoptSnapshot(s)
    BY <2>2, AdoptSnapshotKeeps
  <2>3. CASE \E who \in People, k \in DOMAIN tree.ledger, level \in Reviewed :
               Review(who, k, level)
    BY <2>3, ReviewKeeps
  <2>4. CASE \E k \in DOMAIN tree.ledger : Slip(k)
    BY <2>4, SlipKeeps
  <2>5. CASE \/ \E who \in People, role \in Roles : Attest(who, role)
             \/ \E m \in members : Leave(m)
    BY <2>5, RosterKeeps
  <2>6. CASE Build
    BY <2>6, BuildKeeps
  <2>7. CASE ReviewDay
    BY <2>7, ReviewDayKeeps
  <2>8. CASE UNCHANGED promotionVars
    BY <2>8 DEF promotionVars, PromotionInv, ReviewerPromotionTypeOK, LedgerEarned,
                PageEarned, EarnedBy
  <2>9. QED
    BY <2>1, <2>2, <2>3, <2>4, <2>5, <2>6, <2>7, <2>8 DEF PromotionNext
<1>3. QED
  BY <1>1, <1>2, PTL DEF PromotionSpec

\* The files, the page and the history keep their types.
THEOREM PromotionTypeCorrect == PromotionSpec => []ReviewerPromotionTypeOK
<1>1. PromotionInv => ReviewerPromotionTypeOK
  BY DEF PromotionInv
<1>2. QED
  BY <1>1, PromotionInvariant, PTL

-----------------------------------------------------------------------------
\* What the page shows above the floor, it shows of a line that holds.
LEMMA ShownIsClaimed ==
    ASSUME NEW r \in Rules, NEW clock \in Nat, Shown(page, r, clock) # Floor,
           page \in Trees
    PROVE  \E k \in DOMAIN page.ledger :
              LET entry == page.ledger[k]
              IN  /\ entry.rule = r /\ entry.level = Shown(page, r, clock)
                  /\ entry.level # Floor /\ entry.on \in Int
                  /\ clock - entry.on \in 0 .. MaxAge
                  /\ ReviewHolds(entry, page.rules[r])
                  /\ DependsOn[r] \cap page.changed = {}
<1> DEFINE k     == CHOOSE j \in Of(page.ledger, r) : TRUE
           entry == page.ledger[k]
           age   == clock - entry.on
<1>1. /\ RuleStatus(page, r, clock) = "verified"
      /\ PageLedgerHolds(page, clock)
      /\ entry.level # Floor /\ ~(age < 0) /\ ~(age > MaxAge)
      /\ Shown(page, r, clock) = entry.level
  BY DEF Shown
<1>2. k \in DOMAIN page.ledger /\ entry.rule = r
  <2>1. Cardinality(Of(page.ledger, r)) = 1
    BY <1>1 DEF PageLedgerHolds
  <2>2. Of(page.ledger, r) # {}
    BY <2>1, FS_EmptySet
  <2>3. k \in Of(page.ledger, r)
    BY <2>2
  <2>4. QED
    BY <2>3 DEF Of
<1>3. entry \in LedgerLines
  BY <1>2 DEF Trees
<1> HIDE DEF k
<1>4. entry.on \in Int /\ MaxAge \in Nat
  BY <1>3, VerificationAssumption DEF LedgerLines, Undated, NoDate, Days
<1>5. ReviewHolds(entry, page.rules[r])
  BY <1>1, <1>2 DEF PageLedgerHolds
<1>6. DependsOn[r] \cap page.changed = {}
  BY <1>1 DEF RuleStatus
<1>7. clock - entry.on \in 0 .. MaxAge
  BY <1>1, <1>4
<1>8. QED
  BY <1>1, <1>2, <1>4, <1>5, <1>6, <1>7

\* A level above the floor is earned, by whatever clock the page is read.
THEOREM LevelsAreEarned == PromotionSpec => []LevelIsEarned
<1>1. PromotionInv => LevelIsEarned
  <2> SUFFICES ASSUME PromotionInv, page # << >>, NEW r \in Rules,
                      NEW clock \in 0 .. ReviewDays, Shown(page, r, clock) # Floor
               PROVE  /\ DependsOn[r] \cap page.changed = {}
                      /\ \E review \in reviews :
                            /\ review.rule = r /\ review.level = Shown(page, r, clock)
                            /\ review.read = page.rules[r]
                            /\ clock - review.on \in 0 .. MaxAge
                            /\ page.rules[r].verified \in 0 .. review.on
                            /\ [who |-> review.who, level |-> Shown(page, r, clock)] \in attested
    BY DEF LevelIsEarned
  <2>1. page \in Trees /\ reviews \in SUBSET Reviews /\ clock \in Nat
    BY DaysAreNumbers DEF PromotionInv, ReviewerPromotionTypeOK
  <2> DEFINE level == Shown(page, r, clock)
  <2> HIDE DEF level
  <2>2. PICK k \in DOMAIN page.ledger :
              LET entry == page.ledger[k]
              IN  /\ entry.rule = r /\ entry.level = level
                  /\ entry.level # Floor /\ entry.on \in Int
                  /\ clock - entry.on \in 0 .. MaxAge
                  /\ ReviewHolds(entry, page.rules[r])
                  /\ DependsOn[r] \cap page.changed = {}
    BY <2>1, ShownIsClaimed DEF level
  <2> DEFINE entry == page.ledger[k]
  <2>3. entry \in LedgerLines /\ page.rules[r] \in Contents
    BY <2>1 DEF Trees
  <2>4. Claimed(entry)
    BY <2>2, <2>3 DEF Claimed, ReviewHolds, LedgerLines, Levels
  <2>5. EarnedBy(entry, reviews) /\ [who |-> entry.who, level |-> entry.level] \in attested
    BY <2>4 DEF PromotionInv, PageEarned
  <2>6. PICK review \in reviews :
              /\ review.rule = entry.rule /\ review.level = entry.level
              /\ review.who = entry.who /\ review.on = entry.on
              /\ RulePrint(review.read) = entry.whole
    BY <2>5 DEF EarnedBy
  <2>7. review.read = page.rules[r]
    <3>1. review.read \in Contents
      BY <2>1 DEF Reviews
    <3>2. RulePrint(review.read) = RulePrint(page.rules[r])
      BY <2>2, <2>6 DEF ReviewHolds
    <3>3. QED
      BY <2>3, <3>1, <3>2, PrintIsOfOneRule
  <2>8. page.rules[r].verified \in 0 .. review.on
    <3>1. /\ page.rules[r].verified \in {Undated} \cup Days
          /\ page.rules[r].verified # Undated /\ entry.on >= page.rules[r].verified
      BY <2>2, <2>3 DEF ReviewHolds, Contents
    <3>2. page.rules[r].verified \in Nat
      BY <3>1, DaysAreNumbers
    <3>3. QED
      BY <2>2, <2>6, <3>1, <3>2
  <2>9. QED
    BY <2>2, <2>5, <2>6, <2>7, <2>8 DEF level
<1>2. QED
  BY <1>1, PromotionInvariant, PTL

-----------------------------------------------------------------------------
(* The clocks of a filing.                                                 *)

\* The business days passed and those left make up the period; a loop that has
\* ended stands on an open day.
Walked ==
    filing.given =>
        /\ filing.received <= current
        /\ Cardinality(OpenUntil(current)) + remaining = CompletenessDays
        /\ remaining = 0 /\ CompletenessDays > 0 => current \in OpenUntil(current)

\* What was returned is where the loop ended.
Returned ==
    status # NotReturned =>
        IF filing.given THEN /\ remaining = 0
                             /\ status.notice = current /\ status.deemed = current + 1
                        ELSE status.deemed = NoDate

ClocksInv == ClocksTypeOK /\ Walked /\ Returned

-----------------------------------------------------------------------------
\* Open days up to a day are finitely many.
LEMMA OpenUntilFinite ==
    ASSUME ClocksTypeOK, NEW n \in Nat
    PROVE  /\ IsFiniteSet(OpenUntil(n)) /\ Cardinality(OpenUntil(n)) \in Nat
           /\ filing.received \in Nat
<1>1. filing.received \in Nat
  BY ClocksAssumption DEF ClocksTypeOK, Filings
<1>2. IsFiniteSet(filing.received + 1 .. n)
  BY <1>1, FS_Interval
<1>3. IsFiniteSet(OpenUntil(n))
  BY <1>2, FS_Subset DEF OpenUntil
<1>4. QED
  BY <1>1, <1>3, FS_CardinalityType

\* No day has passed on the day of receipt.
LEMMA NothingPassed ==
    ASSUME ClocksTypeOK
    PROVE  Cardinality(OpenUntil(filing.received)) = 0
<1>1. filing.received \in Nat
  BY ClocksAssumption DEF ClocksTypeOK, Filings
<1>2. OpenUntil(filing.received) = {}
  BY <1>1 DEF OpenUntil
<1>3. QED
  BY <1>2, FS_EmptySet

\* One more day adds itself if the agency is open, and nothing otherwise.
LEMMA OneMoreDay ==
    ASSUME ClocksTypeOK, NEW n \in Nat, filing.received <= n
    PROVE  Cardinality(OpenUntil(n + 1)) =
             IF OpenDay(n + 1) THEN Cardinality(OpenUntil(n)) + 1
                               ELSE Cardinality(OpenUntil(n))
<1>1. filing.received \in Nat /\ IsFiniteSet(OpenUntil(n))
  BY OpenUntilFinite
<1>2. n + 1 \notin OpenUntil(n)
  BY <1>1 DEF OpenUntil
<1>3. CASE OpenDay(n + 1)
  <2>1. OpenUntil(n + 1) = OpenUntil(n) \cup {n + 1}
    BY <1>1, <1>3 DEF OpenUntil
  <2>2. QED
    BY <1>1, <1>2, <1>3, <2>1, FS_AddElement
<1>4. CASE ~OpenDay(n + 1)
  <2>1. OpenUntil(n + 1) = OpenUntil(n)
    BY <1>1, <1>4 DEF OpenUntil
  <2>2. QED
    BY <1>4, <2>1
<1>5. QED
  BY <1>3, <1>4

-----------------------------------------------------------------------------
LEMMA ClocksStart == ClocksInit => ClocksInv
<1> SUFFICES ASSUME ClocksInit PROVE ClocksInv
  OBVIOUS
<1>1. ClocksTypeOK
  BY ClocksAssumption DEF ClocksInit, ClocksTypeOK, Filings
<1>2. Walked
  <2>1. filing.received \in Nat /\ current = filing.received
    BY ClocksAssumption DEF ClocksInit, Filings
  <2>2. remaining = CompletenessDays /\ CompletenessDays \in Nat
    BY ClocksAssumption DEF ClocksInit
  <2>3. Cardinality(OpenUntil(current)) = 0
    BY <1>1, <2>1, NothingPassed
  <2>4. QED
    BY <2>1, <2>2, <2>3 DEF Walked
<1>3. Returned
  BY DEF ClocksInit, Returned
<1>4. QED
  BY <1>1, <1>2, <1>3 DEF ClocksInv

\* One turn of the loop.
LEMMA PassDayKeeps == ClocksInv /\ PassDay => ClocksInv'
<1> SUFFICES ASSUME ClocksInv, PassDay PROVE ClocksInv'
  OBVIOUS
<1>1. /\ ClocksTypeOK /\ CompletenessDays \in Nat /\ current \in Nat
      /\ remaining \in Nat /\ remaining > 0 /\ remaining <= CompletenessDays
  BY ClocksAssumption DEF ClocksInv, ClocksTypeOK, PassDay
<1>2. filing.received \in Nat /\ filing.received <= current /\ filing.given
  BY OpenUntilFinite, <1>1 DEF ClocksInv, Walked, PassDay
<1>3. ClocksTypeOK'
  BY <1>1 DEF ClocksTypeOK, PassDay
<1>4. Walked'
  <2>1. Cardinality(OpenUntil(current)) + remaining = CompletenessDays
    BY <1>2 DEF ClocksInv, Walked
  <2>2. Cardinality(OpenUntil(current)) \in Nat
    BY <1>1, OpenUntilFinite
  <2>3. Cardinality(OpenUntil(current + 1)) + remaining' = CompletenessDays
    <3>1. CASE OpenDay(current + 1)
      BY <1>1, <1>2, <2>1, <2>2, <3>1, OneMoreDay DEF PassDay
    <3>2. CASE ~OpenDay(current + 1)
      BY <1>1, <1>2, <2>1, <2>2, <3>2, OneMoreDay DEF PassDay
    <3>3. QED
      BY <3>1, <3>2
  <2>4. remaining' = 0 => current + 1 \in OpenUntil(current + 1)
    BY <1>1, <1>2 DEF PassDay, OpenUntil
  <2>5. OpenUntil(current + 1) = OpenUntil(current)'
    BY DEF PassDay, OpenUntil, OpenDay
  <2>6. current' = current + 1 /\ filing' = filing
    BY DEF PassDay
  <2>7. QED
    BY <1>1, <1>2, <2>3, <2>4, <2>5, <2>6 DEF Walked
<1>5. Returned'
  BY <1>1, <1>2 DEF ClocksInv, Returned, PassDay
<1>6. QED
  BY <1>3, <1>4, <1>5 DEF ClocksInv

\* The return.
LEMMA ReturnKeeps == ClocksInv /\ Return => ClocksInv'
<1> SUFFICES ASSUME ClocksInv, Return PROVE ClocksInv'
  OBVIOUS
<1>1. ClocksTypeOK'
  <2>1. filing.received \in Nat /\ current \in Nat /\ DecisionDays \in Nat
    BY ClocksAssumption DEF ClocksInv, ClocksTypeOK, Filings
  <2>2. status' \in Statuses
    BY <2>1 DEF Return, Statuses
  <2>3. QED
    BY <2>2 DEF ClocksInv, ClocksTypeOK, Return
<1>2. Walked'
  BY DEF ClocksInv, Walked, Return, OpenUntil, OpenDay
<1>3. Returned'
  BY DEF Returned, Return
<1>4. QED
  BY <1>1, <1>2, <1>3 DEF ClocksInv

THEOREM ClocksInvariant == ClocksSpec => []ClocksInv
<1>1. ClocksInit => ClocksInv
  BY ClocksStart
<1>2. ClocksInv /\ [ClocksNext]_clockVars => ClocksInv'
  <2> SUFFICES ASSUME ClocksInv, [ClocksNext]_clockVars PROVE ClocksInv'
    OBVIOUS
  <2>1. CASE PassDay
    BY <2>1, PassDayKeeps
  <2>2. CASE Return
    BY <2>2, ReturnKeeps
  <2>3. CASE UNCHANGED clockVars
    BY <2>3 DEF ClocksInv, ClocksTypeOK, Walked, Returned, OpenUntil, OpenDay, clockVars
  <2>4. QED
    BY <2>1, <2>2, <2>3 DEF ClocksNext
<1>3. QED
  BY <1>1, <1>2, PTL DEF ClocksSpec

\* The arguments and the loop keep their types, and the loop never passes more
\* business days than there are.
THEOREM ClockTypeCorrect == ClocksSpec => []ClocksTypeOK
<1>1. ClocksInv => ClocksTypeOK
  BY DEF ClocksInv
<1>2. QED
  BY <1>1, ClocksInvariant, PTL

\* Silence counts only after exactly CompletenessDays open days.
THEOREM SilenceCountsAfterItsDays == ClocksSpec => []AgencyHasItsDays
<1>1. ClocksInv => AgencyHasItsDays
  <2> SUFFICES ASSUME ClocksInv, status # NotReturned PROVE AgencyHasItsDays
    BY DEF AgencyHasItsDays
  <2>1. CASE filing.given
    <3>1. current \in Nat /\ Cardinality(OpenUntil(current)) \in Nat
      BY OpenUntilFinite DEF ClocksInv, ClocksTypeOK
    <3>2. remaining = 0 /\ status.notice = current /\ status.deemed - 1 = current
      BY <2>1, <3>1 DEF ClocksInv, Returned
    <3>3. QED
      BY <2>1, <3>1, <3>2, ClocksAssumption DEF ClocksInv, Walked, AgencyHasItsDays
  <2>2. CASE ~filing.given
    BY <2>2 DEF ClocksInv, Returned, AgencyHasItsDays
  <2>3. QED
    BY <2>1, <2>2
<1>2. QED
  BY <1>1, ClocksInvariant, PTL

-----------------------------------------------------------------------------
(* The availability watch.                                                 *)

(* The schedule of the availability watch.                                 *)

\* A set of numbers has a least member, and a bounded one a greatest.
LEMMA MinOfDays ==
    ASSUME NEW S, S \subseteq Nat, S # {}
    PROVE  Min(S) \in S /\ \A y \in S : Min(S) <= y
<1>1. PICK x \in S : \A y \in S : ~(<<y, x>> \in OpToRel(<, Nat))
  BY NatLessThanWellFounded, WFMin
<1>2. \A y \in S : x <= y
  <2>1. ASSUME NEW y \in S PROVE ~(y < x)
    BY <1>1 DEF OpToRel
  <2>2. QED
    BY <2>1
<1>3. QED
  BY <1>2 DEF Min

LEMMA MaxOfDays ==
    ASSUME NEW b \in Nat, NEW S, S \subseteq 0 .. b, S # {}
    PROVE  Max(S) \in S /\ \A y \in S : y <= Max(S)
<1> DEFINE T == {b - x : x \in S}
<1>1. T \subseteq Nat /\ T # {}
  <2>1. \A x \in S : x \in Int /\ x <= b
    OBVIOUS
  <2>2. \A x \in S : b - x \in Nat
    BY <2>1
  <2>3. QED
    BY <2>2
<1>2. Min(T) \in T /\ \A t \in T : Min(T) <= t
  BY <1>1, MinOfDays
<1>3. PICK x \in S : Min(T) = b - x
  BY <1>2
<1>4. \A y \in S : b - x <= b - y
  BY <1>2, <1>3
<1> HIDE DEF T
<1>5. \A y \in S : y <= x
  BY <1>4
<1>6. QED
  BY <1>5 DEF Max

\* The gaps between two or more days are numbers of days, and the next day is
\* no further off than the longest.
LEMMA GapsOfDays ==
    ASSUME NEW b \in Nat, NEW F, F \subseteq 0 .. b,
           NEW first \in F, NEW last \in F, first < last
    PROVE  /\ Max(Gaps(F)) \in Nat
           /\ \A f \in F :
                 f # Max(F) =>
                    /\ Min({k \in F : k > f}) \in F
                    /\ f < Min({k \in F : k > f})
                    /\ Min({k \in F : k > f}) - f <= Max(Gaps(F))
<1> DEFINE Next(f) == Min({k \in F : k > f})
<1>1. \A f \in F : f \in Nat /\ f <= b
  OBVIOUS
<1>2. Max(F) \in F /\ \A f \in F : f <= Max(F)
  BY MaxOfDays
<1>3. ASSUME NEW f \in F, f # Max(F)
      PROVE  Next(f) \in F /\ f < Next(f) /\ Next(f) - f \in 0 .. b
  <2> DEFINE later == {k \in F : k > f}
  <2>1. f \in Nat /\ Max(F) \in Nat /\ f <= Max(F) /\ f # Max(F)
    BY <1>1, <1>2, <1>3
  <2>2. later \subseteq Nat /\ later # {}
    <3>1. Max(F) > f
      BY <2>1
    <3>2. Max(F) \in later
      BY <1>2, <3>1
    <3>3. QED
      BY <1>1, <3>2
  <2>3. Min(later) \in later
    BY <2>2, MinOfDays
  <2>4. Next(f) \in F /\ Next(f) > f
    BY <2>3
  <2> HIDE DEF Next
  <2>5. Next(f) \in Nat /\ Next(f) <= b /\ f \in Nat
    BY <1>1, <2>4
  <2>6. QED
    BY <2>4, <2>5
<1>4. Gaps(F) = {Next(f) - f : f \in F \ {Max(F)}}
  BY DEF Gaps
<1> HIDE DEF Next
<1>5. Gaps(F) \subseteq 0 .. b
  BY <1>3, <1>4
<1>6. first \in F \ {Max(F)}
  BY <1>1, <1>2
<1>7. Gaps(F) # {}
  BY <1>4, <1>6
<1>8. Max(Gaps(F)) \in Gaps(F) /\ \A gap \in Gaps(F) : gap <= Max(Gaps(F))
  BY <1>5, <1>7, MaxOfDays
<1>9. Max(Gaps(F)) \in Nat
  BY <1>5, <1>8
<1>10. ASSUME NEW f \in F, f # Max(F)
       PROVE  Next(f) \in F /\ f < Next(f) /\ Next(f) - f <= Max(Gaps(F))
  <2>1. Next(f) - f \in Gaps(F)
    BY <1>4, <1>10
  <2>2. QED
    BY <1>3, <1>8, <1>10, <2>1
<1>11. QED
  BY <1>9, <1>10 DEF Next

LEMMA GapsOfSchedule ==
    ASSUME NEW s \in Schedules
    PROVE  /\ s.fires \subseteq 0 .. Horizon /\ Horizon \in Nat
           /\ LongestGap[s] \in Nat
           /\ \A f \in s.fires :
                 f # Max(s.fires) =>
                    /\ Min({k \in s.fires : k > f}) \in s.fires
                    /\ f < Min({k \in s.fires : k > f})
                    /\ Min({k \in s.fires : k > f}) - f <= LongestGap[s]
<1>1. s.fires \subseteq 0 .. Horizon /\ Horizon \in Nat
  BY AvailabilityAssumption, CalendarAssumption
<1>2. PICK first \in s.fires, last \in s.fires : first < last
  BY AvailabilityWatchAssumption
<1>3. LongestGap[s] = Max(Gaps(s.fires))
  BY DEF LongestGap
<1>4. QED
  BY <1>1, <1>2, <1>3, GapsOfDays

\* The lead of a run is a number of days, or there is none.
LEMMA LeadIsDays ==
    ASSUME NEW s \in Schedules, NEW day \in Days
    PROVE  Leads[s][day] = NoInterval \/ Leads[s][day] \in Nat
<1> DEFINE F == {n \in day .. day + CronHorizon - 1 : \E c \in s.crons : FiresOn(c, n)}
           b == day + CronHorizon - 1
<1>1. day \in Nat /\ b \in Nat
  BY CalendarAssumption DEF Days, CronHorizon
<1>2. F \subseteq 0 .. b
  BY <1>1
<1>3. Leads[s][day] = IF Cardinality(F) < 2 THEN NoInterval ELSE Max(Gaps(F))
  BY DEF Leads, Interval
<1> HIDE DEF F, b
<1>4. CASE \E first, last \in F : first < last
  BY <1>1, <1>2, <1>3, <1>4, GapsOfDays
<1>5. CASE ~(\E first, last \in F : first < last)
  <2>1. F = {} \/ \E n : F = {n}
    <3>1. \A m, n \in F : m = n
      BY <1>1, <1>2, <1>5
    <3>2. QED
      BY <3>1
  <2>2. Cardinality(F) \in {0, 1}
    BY <2>1, FS_EmptySet, FS_Singleton
  <2>3. QED
    BY <1>3, <2>2
<1>6. QED
  BY <1>4, <1>5

\* Between a day and a deadline further off than the longest silence, the
\* schedule fires on a day from which that silence reaches the deadline.
LEMMA FireBeforeDeadline ==
    ASSUME NEW s \in Schedules, NEW day \in Nat, FirstDay <= day,
           NEW due \in Nat, due < LastDay, due - day > LongestGap[s]
    PROVE  \E f \in s.fires : day < f /\ f < due /\ due <= f + LongestGap[s]
<1> DEFINE F     == s.fires
           G     == LongestGap[s]
           below == {f \in F : f < due}
<1>1. F \subseteq 0 .. Horizon /\ Horizon \in Nat /\ FirstDay \in Nat /\ LastDay \in Nat /\ G \in Nat
  BY AvailabilityAssumption, CalendarAssumption, GapsOfSchedule
<1>2. PICK first \in F, last \in F : LastDay <= last /\ first <= FirstDay + G
  BY AvailabilityWatchAssumption
<1>3. \A f \in F : f # Max(F) =>
         /\ Min({k \in F : k > f}) \in F /\ f < Min({k \in F : k > f})
         /\ Min({k \in F : k > f}) - f <= G
  BY GapsOfSchedule
<1>4. due - day > G
  OBVIOUS
<1> HIDE DEF F, G
<1>5. first \in below
  BY <1>1, <1>2, <1>4
<1>6. Max(below) \in below /\ \A f \in below : f <= Max(below)
  BY <1>1, <1>5, MaxOfDays
<1> DEFINE f0 == Max(below)
           next == Min({k \in F : k > f0})
<1>7. f0 \in F /\ f0 < due
  BY <1>6
<1> HIDE DEF f0
<1>8. f0 # Max(F)
  <2>1. last <= Max(F)
    BY <1>1, <1>2, MaxOfDays
  <2>2. last \in Nat /\ f0 \in Nat /\ (f0 = Max(F) => Max(F) \in Nat)
    BY <1>1, <1>2, <1>7
  <2>3. QED
    BY <1>1, <1>2, <1>7, <2>1, <2>2
<1>9. next \in F /\ f0 < next /\ next - f0 <= G
  BY <1>3, <1>7, <1>8
<1> HIDE DEF next
<1>10. due <= next
  <2>1. next \in Nat /\ f0 \in Nat
    BY <1>1, <1>7, <1>9
  <2>2. next < due => next <= f0
    BY <1>6, <1>9 DEF f0
  <2>3. QED
    BY <1>9, <2>1, <2>2
<1>11. day < f0 /\ due <= f0 + G
  BY <1>1, <1>4, <1>7, <1>9, <1>10
<1>12. QED
  BY <1>7, <1>11 DEF F, G

-----------------------------------------------------------------------------
(* The availability record and its watch.                                  *)

\* A run is owed since today or yesterday, for a day that fires.
OwedNow ==
    /\ pending \in {NotOwed, today, today - 1}
    /\ pending # NotOwed => pending \in schedule.fires

\* The runs of the day f, and of the fires before it, are over.
Over(f) == f <= today /\ (pending # NotOwed => f < pending)

\* No run since the record was written came near enough to its date, or it was named.
Heard ==
    IsReading(record) /\ ~announced =>
        \A f \in schedule.fires :
            written < f /\ Over(f) => f + LongestGap[schedule] < record.due

AvailabilityInv ==
    /\ AvailabilityWatchTypeOK
    /\ schedule \in Schedules /\ announced \in BOOLEAN
    /\ FirstDay <= written /\ written <= today
    /\ OwedNow /\ Heard

\* The days of the calendar and of the schedules are numbers.
LEMMA ScheduleDays ==
    ASSUME AvailabilityInv
    PROVE  /\ today \in Nat /\ today <= LastDay /\ LastDay \in Nat /\ written \in Nat
           /\ schedule.fires \subseteq Nat /\ LongestGap[schedule] \in Nat
           /\ pending \in Int /\ FirstDay \in Nat /\ NotOwed = 0 - 1
           /\ IsReading(record) => record.due \in Nat
<1>1. schedule.fires \subseteq 0 .. Horizon /\ Horizon \in Nat
  BY AvailabilityAssumption, CalendarAssumption DEF AvailabilityInv
<1>2. LongestGap[schedule] \in Nat
  BY GapsOfSchedule DEF AvailabilityInv
<1>3. /\ today \in Nat /\ today <= LastDay /\ LastDay \in Nat /\ written \in Nat
      /\ FirstDay \in Nat
  BY CalendarAssumption DEF AvailabilityInv, AvailabilityWatchTypeOK, Days
<1>4. pending \in Int /\ NotOwed = 0 - 1
  BY <1>3 DEF AvailabilityInv, OwedNow, NotOwed
<1>5. IsReading(record) => record.due \in Nat
  BY DEF AvailabilityInv, AvailabilityWatchTypeOK, Readings
<1>6. QED
  BY <1>1, <1>2, <1>3, <1>4, <1>5

LEMMA AvailabilityStart == AvailabilityInit => AvailabilityInv
<1> SUFFICES ASSUME AvailabilityInit PROVE AvailabilityInv
  OBVIOUS
<1>1. FirstDay \in Days /\ FirstDay \in Nat /\ MaxRenewals \in Nat
  BY CalendarAssumption, AvailabilityWatchAssumption DEF Days
<1>2. ~IsReading(record)
  BY DEF AvailabilityInit, IsReading
<1>3. AvailabilityWatchTypeOK
  BY <1>1, <1>2 DEF AvailabilityInit, AvailabilityWatchTypeOK
<1>4. OwedNow /\ Heard
  BY <1>2 DEF AvailabilityInit, OwedNow, Heard
<1>5. schedule \in Schedules /\ announced = FALSE /\ written = FirstDay /\ today = FirstDay
  BY DEF AvailabilityInit
<1>6. announced \in BOOLEAN
  BY <1>5
<1>7. FirstDay <= written /\ written <= today
  BY <1>1, <1>5
<1>8. QED
  BY <1>3, <1>4, <1>5, <1>6, <1>7 DEF AvailabilityInv

\* The day that begins is over only when it does not fire.
LEMMA DayEndsKeeps == AvailabilityInv /\ DayEnds => AvailabilityInv'
<1> SUFFICES ASSUME AvailabilityInv, DayEnds PROVE AvailabilityInv'
  OBVIOUS
<1>1. /\ today \in Nat /\ today <= LastDay /\ LastDay \in Nat /\ written \in Nat
      /\ schedule.fires \subseteq Nat /\ pending \in Int /\ NotOwed = 0 - 1
  BY ScheduleDays
<1>2. /\ pending \in {NotOwed, today} /\ today < LastDay /\ today' = today + 1
      /\ pending' = IF today' \in schedule.fires /\ pending = NotOwed THEN today' ELSE pending
      /\ UNCHANGED <<schedule, record, renewals, moved, proposed, written, announced>>
  BY DEF DayEnds, NextDay
<1>3. today' \in Days /\ pending' \in {NotOwed} \cup Days
  BY <1>1, <1>2 DEF Days
<1>4. AvailabilityWatchTypeOK'
  BY <1>2, <1>3 DEF AvailabilityInv, AvailabilityWatchTypeOK
<1>5. OwedNow'
  BY <1>1, <1>2 DEF AvailabilityInv, OwedNow
<1>6. \A f \in schedule.fires : Over(f)' => Over(f)
  BY <1>1, <1>2 DEF AvailabilityInv, OwedNow, Over
<1>7. Heard'
  BY <1>2, <1>6 DEF AvailabilityInv, Heard
<1>8. QED
  BY <1>1, <1>2, <1>4, <1>5, <1>7 DEF AvailabilityInv

\* A run that says nothing has looked over the longest silence from its day on.
LEMMA WatchRunKeeps == YearCovers /\ AvailabilityInv /\ WatchRun => AvailabilityInv'
<1> SUFFICES ASSUME YearCovers, AvailabilityInv, WatchRun PROVE AvailabilityInv'
  OBVIOUS
<1> DEFINE lead == Leads[schedule][today]
<1>1. /\ today \in Nat /\ written \in Nat /\ schedule.fires \subseteq Nat
      /\ LongestGap[schedule] \in Nat /\ pending \in Int /\ NotOwed = 0 - 1
      /\ IsReading(record) => record.due \in Nat
  BY ScheduleDays
<1>2. /\ pending # NotOwed
      /\ announced' = (announced \/ Named(record, today, lead))
      /\ pending' = IF pending < today /\ today \in schedule.fires THEN today ELSE NotOwed
      /\ UNCHANGED <<today, schedule, record, renewals, moved, proposed, written>>
  BY DEF WatchRun
<1>3. today \in Days /\ schedule \in Schedules /\ pending \in schedule.fires
      /\ pending \in {today, today - 1} /\ Heard
  BY <1>2 DEF AvailabilityInv, AvailabilityWatchTypeOK, OwedNow
<1>4. AvailabilityWatchTypeOK' /\ OwedNow'
  BY <1>2, <1>3 DEF AvailabilityInv, AvailabilityWatchTypeOK, OwedNow
<1>5. today \in {pending, pending + 1}
  BY <1>1, <1>3
<1>6. lead = NoInterval \/ pending + LongestGap[schedule] <= today + lead
  BY <1>3, <1>5 DEF YearCovers
<1>7. lead = NoInterval \/ lead \in Nat
  BY <1>3, LeadIsDays
<1> HIDE DEF lead
<1>8. ASSUME IsReading(record), ~announced' PROVE pending + LongestGap[schedule] < record.due
  <2>1. ~Named(record, today, lead)
    BY <1>2, <1>8
  <2>2. lead # NoInterval /\ ~(record.due <= today + lead)
    BY <1>8, <2>1 DEF Named, Due
  <2>3. QED
    BY <1>1, <1>6, <1>7, <1>8, <2>2
<1>9. \A f \in schedule.fires : Over(f)' => Over(f) \/ f = pending
  BY <1>1, <1>2, <1>3 DEF Over
<1>10. Heard'
  BY <1>2, <1>3, <1>8, <1>9 DEF Heard
<1>11. QED
  BY <1>2, <1>3, <1>4, <1>10 DEF AvailabilityInv

\* A record that is written has not been in the tree on any day that is over.
LEMMA WriteKeeps == AvailabilityInv /\ Write => AvailabilityInv'
<1> SUFFICES ASSUME AvailabilityInv, Write PROVE AvailabilityInv'
  OBVIOUS
<1>1. /\ today \in Nat /\ FirstDay \in Nat /\ schedule.fires \subseteq Nat /\ LastDay \in Nat
      /\ written \in Nat
  BY ScheduleDays
<1>2. PICK span \in Spans, ahead \in {0, 1}, sound \in BOOLEAN :
         /\ today + ahead <= LastDay
         /\ record' = [checked |-> today + ahead, due |-> today + ahead + span, sound |-> sound]
  BY DEF Write
<1>3. span \in Nat /\ MaxRenewals \in Nat
  BY AvailabilityWatchAssumption
<1>4. today + ahead \in Days /\ today + ahead + span \in Nat
  BY <1>1, <1>2, <1>3 DEF Days
<1>5. record' \in Readings
  BY <1>2, <1>4 DEF Readings
<1>6. /\ written' = today /\ announced' = FALSE /\ renewals < MaxRenewals
      /\ renewals' = renewals + 1
      /\ UNCHANGED <<today, schedule, pending, moved, proposed>>
  BY DEF Write
<1>7. renewals' \in 0 .. MaxRenewals
  BY <1>3, <1>6 DEF AvailabilityInv, AvailabilityWatchTypeOK
<1>8. AvailabilityWatchTypeOK'
  BY <1>5, <1>6, <1>7 DEF AvailabilityInv, AvailabilityWatchTypeOK
<1>9. OwedNow'
  BY <1>6 DEF AvailabilityInv, OwedNow
<1>10. \A f \in schedule.fires : ~(today < f /\ f <= today)
  BY <1>1
<1>11. Heard'
  BY <1>6, <1>10 DEF Heard, Over
<1>12. announced' \in BOOLEAN
  BY <1>6
<1>13. FirstDay <= written' /\ written' <= today'
  BY <1>1, <1>6 DEF AvailabilityInv
<1>14. QED
  BY <1>6, <1>8, <1>9, <1>11, <1>12, <1>13 DEF AvailabilityInv

LEMMA BreakKeeps == AvailabilityInv /\ Break => AvailabilityInv'
<1> SUFFICES ASSUME AvailabilityInv, Break PROVE AvailabilityInv'
  OBVIOUS
<1>1. /\ ~IsReading(record') /\ announced' = FALSE
      /\ renewals < MaxRenewals /\ renewals' = renewals + 1
      /\ UNCHANGED <<today, schedule, pending, moved, proposed, written>>
  BY DEF Break, IsReading
<1>2. renewals' \in 0 .. MaxRenewals
  BY <1>1, AvailabilityWatchAssumption DEF AvailabilityInv, AvailabilityWatchTypeOK
<1>3. announced' \in BOOLEAN
  BY <1>1
<1>4. QED
  BY <1>1, <1>2, <1>3 DEF AvailabilityInv, AvailabilityWatchTypeOK, OwedNow, Heard

\* The pages and their watcher have no part in the record.
LEMMA PagesKeep ==
    ASSUME AvailabilityInv, moved' \in SUBSET Pages, proposed' \in SUBSET Pages,
           UNCHANGED <<today, schedule, record, pending, renewals, written, announced>>
    PROVE  AvailabilityInv'
BY DEF AvailabilityInv, AvailabilityWatchTypeOK, OwedNow, Heard, Over

THEOREM AvailabilityInvariant ==
    ASSUME YearCovers PROVE AvailabilitySpec => []AvailabilityInv
<1>1. ASSUME AvailabilityInv, [AvailabilityNext]_availabilityVars
      PROVE  AvailabilityInv'
  <2>1. CASE DayEnds
    BY <1>1, <2>1, DayEndsKeeps
  <2>2. CASE WatchRun
    BY <1>1, <2>2, WatchRunKeeps
  <2>3. CASE Write
    BY <1>1, <2>3, WriteKeeps
  <2>4. CASE Break
    BY <1>1, <2>4, BreakKeeps
  <2>5. CASE \E p \in Pages : PageMoves(p)
    BY <1>1, <2>5, PagesKeep DEF PageMoves, AvailabilityInv, AvailabilityWatchTypeOK
  <2>6. CASE \E down \in SUBSET Pages : PageRun(down)
    BY <1>1, <2>6, PagesKeep DEF PageRun, AvailabilityInv, AvailabilityWatchTypeOK
  <2>7. CASE UNCHANGED availabilityVars
    BY <1>1, <2>7, PagesKeep DEF availabilityVars, AvailabilityInv, AvailabilityWatchTypeOK
  <2>8. QED
    BY <1>1, <2>1, <2>2, <2>3, <2>4, <2>5, <2>6, <2>7 DEF AvailabilityNext
<1>2. QED
  BY <1>1, AvailabilityStart, PTL DEF AvailabilitySpec

THEOREM LapsesAreAnnounced ==
    ASSUME YearCovers PROVE AvailabilitySpec => []LapseAnnounced
<1>1. AvailabilityInv => LapseAnnounced
  <2> SUFFICES ASSUME AvailabilityInv, IsReading(record), today > record.due,
                      record.due - written > LongestGap[schedule], ~announced
               PROVE  FALSE
    BY DEF LapseAnnounced
  <2>1. /\ today \in Nat /\ today <= LastDay /\ written \in Nat /\ LastDay \in Nat
        /\ schedule.fires \subseteq Nat /\ LongestGap[schedule] \in Nat
        /\ pending \in Int /\ record.due \in Nat /\ NotOwed = 0 - 1
    BY ScheduleDays
  <2>2. schedule \in Schedules /\ FirstDay <= written /\ record.due < LastDay
    BY <2>1 DEF AvailabilityInv
  <2>3. PICK f \in schedule.fires :
           written < f /\ f < record.due /\ record.due <= f + LongestGap[schedule]
    BY <2>1, <2>2, FireBeforeDeadline
  <2>4. Over(f)
    BY <2>1, <2>3 DEF AvailabilityInv, OwedNow, Over
  <2>5. f + LongestGap[schedule] < record.due
    BY <2>3, <2>4 DEF AvailabilityInv, Heard
  <2>6. QED
    BY <2>1, <2>3, <2>5
<1>2. QED
  BY <1>1, AvailabilityInvariant, PTL

=============================================================================
