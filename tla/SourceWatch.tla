----------------------------- MODULE SourceWatch -----------------------------
(***************************************************************************)
(* The weekly source-currency watch: harness/watch.py fetches each watched *)
(* document and compares its digest with data/sources.json,                *)
(* harness/runner.py decides which rules are stale, harness/__main__.py    *)
(* turns both into an exit code, and .github/workflows/currency.yml opens, *)
(* updates or closes the one standing review issue.  Publishers revise,    *)
(* withdraw and fail to serve documents between any two fetches;           *)
(* maintainers merge commits while a run still works on the commit it      *)
(* checked out; a manually dispatched run may overlap the scheduled one.   *)
(***************************************************************************)
EXTENDS Integers, Sequences, FiniteSets

CONSTANTS
    Order,          \* the watched source ids in the order of the registry
    Rules,          \* rule ids
    Deps,           \* source_dependencies of each rule
    Cites,          \* the dependency whose address is the rule's citation
    Runs,           \* workflow runs that may be under way at the same time
    Attempts,       \* FETCH_ATTEMPTS
    MaxAge,         \* DEFAULT_MAX_AGE_DAYS, in ticks of the calendar
    MaxDay,         \* bound: the calendar stops here
    MaxVersion,     \* bound: revisions of a document
    MaxIssues,      \* bound: issues ever filed
    MaxAborts,      \* bound: runs that die, time out or fail on an API call
    MaxCommits      \* bound: commits to the registry and the rules

Sources == {Order[i] : i \in 1..Len(Order)}

ASSUME WatchAssumption ==
    /\ Order \in Seq(Sources) /\ Len(Order) > 0
    /\ Len(Order) = Cardinality(Sources)
    /\ Deps \in [Rules -> SUBSET Sources]
    /\ Cites \in [Rules -> Sources] /\ \A r \in Rules : Cites[r] \in Deps[r]
    /\ Attempts \in Nat \ {0}
    /\ {MaxAge, MaxDay, MaxVersion, MaxIssues, MaxAborts, MaxCommits} \subseteq Nat

VARIABLES
    day,            \* today, UTC
    doc,            \* the version each publisher serves now
    reach,          \* how its server answers: "up", "down" or "gone" (404, 410)
    recorded,       \* sources.json: the version whose digest is recorded
    fetchedOn,      \* sources.json: fetched_on
    verifiedOn,     \* rules: citation.verified_on
    golden,         \* do the golden cases replay as expected
    commits,        \* commits merged so far
    run,            \* the workflow runs under way
    open,           \* open currency issues
    filed,          \* issues filed so far
    aborts

world_vars  == <<day, doc, reach>>
repo_vars   == <<recorded, fetchedOn, verifiedOn, golden, commits>>
github_vars == <<open, filed, aborts>>
vars == <<world_vars, repo_vars, run, github_vars>>

Days     == 0..MaxDay
Undated  == -1
Versions == 0..MaxVersion

Readings == {"none", "unchanged", "changed", "not_found", "transport"}
Steps    == {"idle", "fetching", "reported", "listed", "clearing"}

Idle == [pc |-> "idle", recorded |-> [s \in Sources |-> 0],
         verifiedOn |-> [r \in Rules |-> 0], golden |-> TRUE, day |-> 0, died |-> FALSE,
         at |-> 1, tries |-> 0, seen |-> [s \in Sources |-> "none"], found |-> {}]

Init ==
    /\ day = 0
    /\ doc = [s \in Sources |-> 0]
    /\ reach = [s \in Sources |-> "up"]
    /\ recorded = [s \in Sources |-> 0]
    /\ fetchedOn = [s \in Sources |-> 0]
    /\ verifiedOn \in [Rules -> {0, Undated}]
    /\ golden = TRUE
    /\ commits = 0
    /\ run = [k \in Runs |-> Idle]
    /\ open = {} /\ filed = 0 /\ aborts = 0

-----------------------------------------------------------------------------
(* What a finished fetch loop makes of the rules, and the exit code.  An     *)
(* uncaught exception also ends Python with exit code 1.                    *)

Finished(k) == run[k].pc = "fetching" /\ run[k].at > Len(Order)

ChangedIn(k)      == {s \in Sources : run[k].seen[s] = "changed"}
UnverifiableIn(k) == {s \in Sources : run[k].seen[s] \in {"not_found", "transport"}}

Aged(verified, today) == today - verified < 0 \/ today - verified > MaxAge

\* verify_rules: a changed dependency, else no date, else age, else verified.
StaleIn(k) ==
    {r \in Rules :
        \/ ChangedIn(k) \cap Deps[r] # {}
        \/ /\ run[k].verifiedOn[r] # Undated
           /\ Aged(run[k].verifiedOn[r], run[k].day)}

VerifiedIn(k) == {r \in Rules : run[k].verifiedOn[r] # Undated} \ StaleIn(k)

NeedsReview(k) ==
    ChangedIn(k) # {} \/ StaleIn(k) # {} \/ ~run[k].golden \/ run[k].died

\* Mutant: an unreadable source is reported before a change.
ExitUnverifiableFirst(k) ==
    IF UnverifiableIn(k) # {} THEN 2
    ELSE IF NeedsReview(k) THEN 1
    ELSE 0

\* Mutant: an unreadable source does not keep the run from being clean.
ExitIgnoresUnverifiable(k) ==
    IF NeedsReview(k) THEN 1 ELSE 0

Exit(k) ==
    IF NeedsReview(k) THEN 1
    ELSE IF UnverifiableIn(k) # {} THEN 2
    ELSE 0

-----------------------------------------------------------------------------
(* One workflow run. *)

\* The schedule or a dispatch starts a run on the commit main points at.
Trigger(k) ==
    /\ run[k].pc = "idle"
    /\ run' = [run EXCEPT ![k] =
                 [Idle EXCEPT !.pc = "fetching", !.recorded = recorded,
                              !.verifiedOn = verifiedOn, !.golden = golden,
                              !.day = day]]
    /\ UNCHANGED <<world_vars, repo_vars, github_vars>>

Fetching(k, s) == run[k].pc = "fetching" /\ run[k].at <= Len(Order) /\ s = Order[run[k].at]

\* The source is done: note the reading and go on to the next one.
Classify(k, s, reading) ==
    run' = [run EXCEPT ![k].seen[s] = reading, ![k].at = @ + 1, ![k].tries = 0]

Read(k) ==
    /\ \E s \in Sources :
         /\ Fetching(k, s) /\ reach[s] = "up"
         /\ Classify(k, s, IF doc[s] = run[k].recorded[s] THEN "unchanged" ELSE "changed")
    /\ UNCHANGED <<world_vars, repo_vars, github_vars>>

\* A 404 or 410 ends the loop at once.
NotFound(k) ==
    /\ \E s \in Sources :
         /\ Fetching(k, s) /\ reach[s] = "gone"
         /\ Classify(k, s, "not_found")
    /\ UNCHANGED <<world_vars, repo_vars, github_vars>>

\* Mutant: a spent retry budget counts as a change.
NoAnswerIsChange(k) ==
    /\ \E s \in Sources :
         /\ Fetching(k, s) /\ reach[s] = "down"
         /\ IF run[k].tries + 1 < Attempts
            THEN run' = [run EXCEPT ![k].tries = @ + 1]
            ELSE Classify(k, s, "changed")
    /\ UNCHANGED <<world_vars, repo_vars, github_vars>>

\* Any other failure is retried after a pause, until the budget is spent.
NoAnswer(k) ==
    /\ \E s \in Sources :
         /\ Fetching(k, s) /\ reach[s] = "down"
         /\ IF run[k].tries + 1 < Attempts
            THEN run' = [run EXCEPT ![k].tries = @ + 1]
            ELSE Classify(k, s, "transport")
    /\ UNCHANGED <<world_vars, repo_vars, github_vars>>

\* The harness dies before its report (an unreadable ledger, a full disk).
Die(k) ==
    /\ run[k].pc = "fetching" /\ aborts < MaxAborts
    /\ run' = [run EXCEPT ![k].pc = "reported", ![k].died = TRUE]
    /\ aborts' = aborts + 1
    /\ UNCHANGED <<world_vars, repo_vars, open, filed>>

\* The harness ends; exit 2 neither opens nor closes anything.
Report(k) ==
    /\ Finished(k)
    /\ run' = [run EXCEPT ![k] = IF Exit(k) = 2 THEN Idle ELSE [@ EXCEPT !.pc = "reported"]]
    /\ UNCHANGED <<world_vars, repo_vars, github_vars>>

\* Exit 1: look for an issue of that title that is already open.
ListOpen(k) ==
    /\ run[k].pc = "reported" /\ Exit(k) = 1
    /\ run' = [run EXCEPT ![k].pc = "listed", ![k].found = open]
    /\ UNCHANGED <<world_vars, repo_vars, github_vars>>

\* Mutant: a dated title never matches an open issue.
FileDated(k) ==
    /\ run[k].pc = "listed" /\ filed < MaxIssues
    /\ filed' = filed + 1 /\ open' = open \cup {filed + 1}
    /\ run' = [run EXCEPT ![k] = Idle]
    /\ UNCHANGED <<world_vars, repo_vars, aborts>>

\* Mutant: the search matches closed issues too.
FileUnlessEver(k) ==
    /\ run[k].pc = "listed"
    /\ IF filed > 0
       THEN UNCHANGED <<open, filed>>
       ELSE filed < MaxIssues /\ filed' = filed + 1 /\ open' = open \cup {filed + 1}
    /\ run' = [run EXCEPT ![k] = Idle]
    /\ UNCHANGED <<world_vars, repo_vars, aborts>>

\* ... and comment on it, or create one when there was none.
File(k) ==
    /\ run[k].pc = "listed"
    /\ IF run[k].found # {}
       THEN UNCHANGED <<open, filed>>
       ELSE filed < MaxIssues /\ filed' = filed + 1 /\ open' = open \cup {filed + 1}
    /\ run' = [run EXCEPT ![k] = Idle]
    /\ UNCHANGED <<world_vars, repo_vars, aborts>>

\* Mutant: the close copes with one matching issue only.
ListClearedSingle(k) ==
    /\ run[k].pc = "reported" /\ Exit(k) = 0
    /\ run' = [run EXCEPT ![k].pc = "clearing",
                          ![k].found = IF Cardinality(open) = 1 THEN open ELSE {}]
    /\ UNCHANGED <<world_vars, repo_vars, github_vars>>

\* Exit 0: list the open issues of that title ...
ListCleared(k) ==
    /\ run[k].pc = "reported" /\ Exit(k) = 0
    /\ run' = [run EXCEPT ![k].pc = "clearing", ![k].found = open]
    /\ UNCHANGED <<world_vars, repo_vars, github_vars>>

\* ... and comment on and close them one after the other.
Close(k) ==
    /\ run[k].pc = "clearing"
    /\ IF run[k].found = {}
       THEN open' = open /\ run' = [run EXCEPT ![k] = Idle]
       ELSE \E i \in run[k].found :
              open' = open \ {i} /\ run' = [run EXCEPT ![k].found = @ \ {i}]
    /\ UNCHANGED <<world_vars, repo_vars, filed, aborts>>

\* The job times out or an API call fails (`set -e`): later steps do not run.
Abort(k) ==
    /\ run[k].pc # "idle" /\ aborts < MaxAborts
    /\ run' = [run EXCEPT ![k] = Idle] /\ aborts' = aborts + 1
    /\ UNCHANGED <<world_vars, repo_vars, open, filed>>

-----------------------------------------------------------------------------
(* Publishers, the calendar and maintainers. *)

Revise(s) ==
    /\ doc[s] < MaxVersion
    /\ doc' = [doc EXCEPT ![s] = @ + 1]
    /\ UNCHANGED <<day, reach, repo_vars, run, github_vars>>

Answer(s) ==
    /\ \E a \in {"up", "down", "gone"} \ {reach[s]} : reach' = [reach EXCEPT ![s] = a]
    /\ UNCHANGED <<day, doc, repo_vars, run, github_vars>>

NextDay ==
    /\ day < MaxDay /\ day' = day + 1
    /\ UNCHANGED <<doc, reach, repo_vars, run, github_vars>>

\* The evidence rule of the published bundle: a dated citation must not
\* predate the retained copy of the source it cites.
EvidenceOrder(verified, fetched) ==
    \A r \in Rules : verified[r] # Undated => fetched[Cites[r]] <= verified[r]

\* A commit re-records the sources S from what they serve today, dates the
\* re-verification of the rules R today, and may move a golden case.
Commit(S, R, g) ==
    LET fetched  == [s \in Sources |-> IF s \in S THEN day ELSE fetchedOn[s]]
        verified == [r \in Rules |-> IF r \in R THEN day ELSE verifiedOn[r]]
        text     == [s \in Sources |-> IF s \in S THEN doc[s] ELSE recorded[s]]
    IN  /\ \A s \in S : reach[s] = "up"
        /\ EvidenceOrder(verified, fetched)
        /\ recorded' = text /\ fetchedOn' = fetched /\ verifiedOn' = verified
        /\ golden' = g /\ commits < MaxCommits /\ commits' = commits + 1
        /\ UNCHANGED <<world_vars, run, github_vars>>

RunStep(k) ==
    \/ Trigger(k) \/ Read(k) \/ NotFound(k) \/ NoAnswer(k) \/ Report(k)
    \/ ListOpen(k) \/ File(k) \/ ListCleared(k) \/ Close(k)

\* Everything but a commit.
Elsewhere ==
    \/ \E k \in Runs : RunStep(k) \/ Die(k) \/ Abort(k)
    \/ \E s \in Sources : Revise(s) \/ Answer(s)
    \/ NextDay

Next ==
    \/ Elsewhere
    \/ \E S \in SUBSET Sources, R \in SUBSET Rules, g \in BOOLEAN : Commit(S, R, g)

Spec == Init /\ [][Next]_vars

\* The schedule keeps starting runs and a started run goes on; what the
\* publishers and the maintainers do is left to them.
FairSpec == Spec /\ \A k \in Runs : WF_vars(RunStep(k))

-----------------------------------------------------------------------------
RunRecords ==
    [pc : Steps, recorded : [Sources -> Versions],
     verifiedOn : [Rules -> Days \cup {Undated}], golden : BOOLEAN, day : Days,
     died : BOOLEAN, at : 1..(Len(Order) + 1), tries : 0..(Attempts - 1),
     seen : [Sources -> Readings], found : SUBSET (1..MaxIssues)]

\* Types; a run never tries a source more often than FETCH_ATTEMPTS allows
\* nor goes past the end of the registry.
TypeOK ==
    /\ day \in Days /\ doc \in [Sources -> Versions]
    /\ reach \in [Sources -> {"up", "down", "gone"}]
    /\ recorded \in [Sources -> Versions] /\ fetchedOn \in [Sources -> Days]
    /\ verifiedOn \in [Rules -> Days \cup {Undated}] /\ golden \in BOOLEAN
    /\ commits \in 0..MaxCommits
    /\ run \in [Runs -> RunRecords]
    /\ open \subseteq 1..filed /\ filed \in 0..MaxIssues /\ aborts \in 0..MaxAborts

(* A run files an issue only for something it found: a version it fetched   *)
(* that is not the recorded one, a rule past its window, or a golden        *)
(* regression, or because it died.  A source that was withdrawn or did not  *)
(* answer is no reason (watch.py, "no fetch outcome ever maps to changed"). *)
ReallyMoved(k) ==
    \/ \E s \in Sources : run[k].seen[s] = "changed" /\ run[k].recorded[s] < doc[s]
    \/ \E r \in Rules : run[k].verifiedOn[r] # Undated
                          /\ Aged(run[k].verifiedOn[r], run[k].day)
    \/ ~run[k].golden \/ run[k].died

FiledOnEvidence ==
    [][\A k \in Runs : File(k) /\ open' # open => ReallyMoved(k)]_vars

(* An issue is closed only by a run that read every watched source at its   *)
(* recorded digest, found no rule past its window and no golden regression: *)
(* a run that could not read a source closes nothing (currency.yml, "it     *)
(* must not close one either, because nothing was learned").                *)
ClosedOnReading ==
    [][open \ open' # {} =>
         \E k \in Runs :
            /\ run[k].pc = "clearing" /\ run[k].golden
            /\ \A s \in Sources : run[k].seen[s] = "unchanged"
            /\ \A r \in Rules : run[k].verifiedOn[r] # Undated
                                  => run[k].day - run[k].verifiedOn[r] \in 0..MaxAge]_vars

(* A run that finds something never ends without looking at the issues: what *)
(* it could not read of one source does not hide what it read of another,   *)
(* nor a stale rule, nor a golden regression (__main__.py, the exit codes). *)
NothingSwallowed ==
    [][\A k \in Runs :
          run[k].pc = "fetching" /\ run'[k].pc = "idle" /\ aborts' = aborts =>
              /\ \A s \in Sources : run[k].seen[s] # "changed"
              /\ run[k].golden
              /\ \A r \in Rules : run[k].verifiedOn[r] # Undated
                                  => run[k].day - run[k].verifiedOn[r] \in 0..MaxAge]_vars

(* While runs do not overlap, an unresolved condition keeps one issue open, *)
(* however many runs report it (currency.yml, the stable title).            *)
OneOpenIssue == Cardinality(open) <= 1

(* A source that stays reachable and different from its record ends up with *)
(* an open issue that stays open, whatever the other sources do.            *)
Drifted(s) == reach[s] = "up" /\ doc[s] # recorded[s]

DriftAlerted == \A s \in Sources : <>[]Drifted(s) => <>[](open # {})

(* Once every source answers with its recorded text, every dated rule is in *)
(* its window and the golden cases replay, every issue is closed for good,  *)
(* duplicates of overlapping runs included.                                 *)
AllCurrent ==
    /\ golden /\ \A s \in Sources : reach[s] = "up" /\ doc[s] = recorded[s]
    /\ \A r \in Rules : verifiedOn[r] # Undated => ~Aged(verifiedOn[r], day)

AlertsClear == <>[]AllCurrent => <>[](open = {})
=============================================================================
