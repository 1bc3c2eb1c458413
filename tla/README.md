# Permit Bearings: formal models

TLA+ modules, TLC configurations and TLAPS proofs for
[`src/`](../src), the Permit Bearings prototype: a deterministic matcher for
California ADU, JADU and SB 9 projects, the evidence that its rules rest on, and
an optional AI service at its edges.

- `tlc -config X.cfg MC<Module>.tla` checks one run (the runs are listed below
  and in `PROJECT.json`); `tlapm <Module>_proofs.tla` checks the proofs.
- `PROJECT.json` ties every definition to the source lines that it models, every
  property to a mutant of the code that breaks it, and every hazard to the
  properties that cover it.

Paths of source files are relative to `src/`; `pp/` stands for
`src/permit_pathways/`.

## 1. The system

### Components

| Component | State | Operations | What makes it correct |
|---|---|---|---|
| **Request budget** `pp/ai/budget.py`, used by `metered` in `pp/ai/service.py` | per process: a dictionary of per-client deques, an in-memory day and count; or one DynamoDB item per UTC day | `charge`: prune, reserve, count, roll back | the daily cap is hard; the sliding window limits each client; a refused request gives its slot back; nobody is refused for requests that are over |
| **Currency watch** `pp/harness/`, `.github/workflows/currency.yml` | `data/sources.json`, the rules' dates, golden cases, the standing issue | fetch and classify each source with retries, derive staleness, exit code, list/open/comment/close | no issue without evidence, none closed without a reading of every source, nothing found is swallowed, drift ends up as an open issue |
| **Source states and worklists** `pp/source_state.py`, `pp/review_queue.py` | snapshot files, decision ledgers | build, load, derive status and items, cover | derived facts agree with the digests; a ledger covers exactly its worklist |
| **Release receipts** `pp/source_release.py` | approval, publication and rollback receipts that name each other and the files | three validators | a hold is cleared only on an approved text that was really served; a retained hold stays; a rollback restores the baseline |
| **Evidence export** `pp/evidence_export.py`, `pp/evidence_signature.py` | checkout, archive, sidecar, restored directory | build, sign, verify, restore | an archive is the content of the commit it names; what is accepted was signed by a listed builder; a restored directory is complete and replayed; nothing is overwritten |
| **Matcher** `pp/screening.py`, ported by hand to `assets/demo.js` | none | load rules, match | statewide and local rules whose criteria all hold |
| **Project-check page** `assets/demo.js` and its panel `assets/ai.js` | the form, the submitted project and its result, the panel, suspended handlers | edit, submit, switch the language, enable, draft, explain, ask | the result is that of the answers shown; an explanation is of the rules that were matched; buttons come back |
| **AI service** `pp/ai/` | the rules and corpus it loaded | intake, explain, ask, staff questions | it re-runs the matcher and refuses to explain another rule set; a claim without a verified quote is withheld; a draft has no value without words of the description behind it |
| **Prepared release package** `pp/source_release_cli.py` | a directory with three receipts and a completion marker | prepare: make, write, sync, clean up | a package that was reported survives a power cut; the marker never covers other bytes |
| **Verification levels** `pp/rule_verification.py`, `pp/reviewer_roster.py` | a ledger bound to citation fingerprints, a roster, the published bundle | load, effective level, coverage, build, the page's own reading | a level never outlives the text, person or window it was given for |
| **Program availability** `pp/program_availability.py`, `pp/program_registry.py`, `pp/harness/availability.py` | dated readings with a recheck date, the cron schedule | load, advance notice from the cron schedule, re-reading of pages | a lapse is announced by a run before it happens |
| **Readiness and journeys** `pp/readiness.py`, `pp/journey.py`, `pp/workflow_registry.py`, `pp/explanations.py` | workflow, packet, remedies, journey and registry records | evaluate each requirement, resolve the journey, bundle it, hand a visitor on | unknown facts stay questions; a stale source withholds the summary; reviewed copy was read |
| **Aggregate beta gate** `pp/beta_gate.py`, `pp/beta_operations.py`, `pp/beta_gate_cli.py` | twelve artifacts bound by hash, an export profile, constants in the code | capture the tree, validate, recompute, write, restore | a summary never says more than "not run"; a refusal leaves the tree as it was |
| **Held-out evaluation** `pp/conformance_evaluation.py`, `pp/conformance_evaluation_cli.py` | plan, frozen cases, answer key, predictions, result | predict, score, validate-result | a result is of one corpus, scanned before the unblinding; it stays reproducible |
| **Review clocks** `pp/clocks.py`, `pp/dates.py` | none | walk business days over an agency's closures | silence counts only after all of the agency's days |
| **Pure computations** `pp/transit.py`, `pp/pedestrian.py`, `pp/what_if.py`, `pp/precedent.py`, `pp/conformance.py`, `pp/ordinance_watch.py` | none | — | each agrees with its definition; unknown inputs give unknown |
| **Generators and hosting** `scripts/`, `demo/app.py`, `deploy/`, static pages | — | generate, render, deploy | presentation and build |

### How they interact

- The rules name their sources; the **watch** compares what publishers serve with
  the digests that a commit of `data/sources.json` records, and keeps one GitHub
  issue. A person turns a reading into a **source-state snapshot**, whose changed
  sources give a **worklist** and a **decision ledger**; three **receipts** lead a
  changed text through approval, publication and rollback. They are joined only by
  files that anyone may edit and by fingerprints of those files.
- The **export** packs a commit's evidence, a second party verifies and restores it.
  Builder and consumer share one path and no lock.
- The **bundle** of the page is built when rules, ledger, roster, workflow, packet,
  remedies, journey, registry and availability record all load together. The page
  then reads it by its visitor's clock, without the builder and without the roster.
- The **beta gate** binds most of these records a second time and derives its record
  and the export profile from them; constants in the code pin what must not move.
- The **held-out evaluation** passes files between people who must not see each
  other's work; each command trusts only the digests that the files carry.
- The **page** has its own copy of the rules and the matcher. Its panel sends
  requests to the **service**, which has another copy, behind the **budget**. Each
  request suspends a handler of the page while the applicant goes on.

### What is hard

- *Threads and processes* in the budget: the clock, the window's lock, the date and
  the counter's lock are four separate moments, and a DynamoDB update can be applied
  and its answer lost.
- *Files that change between two reads*: the export reads the checkout four times
  and the archive three times; receipts bind files that are edited later; the gate
  captures a tree file by file; a scan and the digest of its scanner are two reads.
- *What is frozen and what is not*: a bundle evaluated once is read for months; a
  gate's planning ledgers are pinned in code while the rest is derived again.
- *Crashes*: two files written one after the other with a rollback, three receipts
  and a marker with syncs between them, a killed job.
- *The world moves*: publishers revise, withdraw and stop answering; commits land
  while a run works on an older one; runs overlap; jobs die.
- *Late answers*: a handler of the page resumes in a page that was rendered anew.
- *Calendar and boundaries*: midnight, date-only ledgers, review windows, gaps
  between two scheduled runs, weekends and closures, limits.

`PROJECT.json` lists each hazard at its line.

## 2. Modules

| Module | Models | Composed with |
|---|---|---|
| `DailyCap` | the promise of a daily cap: admitted requests per day never exceed it | |
| `AiBudget` | `Budget.charge` and both counters, threads, restarts | implements `DailyCap` |
| `SourceWatch` | one run of the watch and its workflow, publishers, commits, the calendar | |
| `SourceState` | snapshots, statuses, work items, ledgers, as operators | |
| `SourceRelease` | the receipts and everything they read, edited at any time | extends `SourceState` |
| `EvidenceExport` | build, sign, verify, restore, with editors and other programs | |
| `Screening` | the matcher and the questions of a form, as operators | |
| `ProjectPage` | the form, the result, the panel, suspended handlers, the service's copy of the matcher | extends `Screening` |
| `Corpus` | the documents, their passages, quotes and excerpts, and which passages the model is offered, as operators | |
| `AiService` | the handlers behind explain, ask, staff questions and intake, and a model that writes anything | extends `Screening`, `Corpus` |
| `Calendar` | days as numbers, dates, weekdays, the one clock that the dated records share | |
| `Clocks` | the walk of `add_business_days` and what `adu_clocks` makes of it | extends `Calendar` |
| `Verification` | ledger, roster, the level in force, the page's own reading, as operators | extends `Calendar`, `SourceState` |
| `ReviewerPromotion` | the rules, ledger and roster under edits and reviews, the published bundle | extends `Verification` |
| `Availability` | cron fields, lead time, the readers of the record, as operators | extends `Calendar` |
| `AvailabilityWatch` | the record, the scheduled runs, the page watcher | extends `Availability` |
| `Readiness` | the evaluation of a packet, every loader, the journey, the bundle and the page, as operators | extends `Verification`, `Availability` |
| `Journey` | those files under edits, and the bundle built from them | extends `Readiness` |
| `BetaGate` | what binds the twelve artifacts, what is validated, what is re-derived, as operators | extends `Readiness` |
| `GateRun` | one run of `validate` or `recompute` against people who edit the tree | extends `BetaGate` |
| `Evaluation` | `predict`, `score` and `validate-result` over files that are edited at any time | |
| `PackageWriter` | the writer of the prepared directory, other writers, crashes, a power cut | |

`MC<Module>` gives a module its small instance; `<Module>_proofs` holds its proofs.
`MCRecords` puts `ReviewerPromotion`, `AvailabilityWatch`, `Journey`, `GateRun` and
`Clocks` on one instance, `MCReceipts` the export, `Evaluation` and `PackageWriter`,
`MCAiService` the service and the in-memory budget in front of it. These machines have no step in common: the variable `part`, chosen in the initial state,
says which one is there, and the variables of the others stay as they start. They
are one run each because they share their constants (calendar, sources, rule) or belong
to one process, not because anything of one could disturb another.

### AiBudget

`windows`, `known` are `Budget._windows`; `counterDay`, `count` are `MemoryCounter`;
`table` is the DynamoDB table. `call[t]` is one thread's `charge`: `Arrive` reads
the clock before the lock, `Reserve`/`RefuseRate` is the critical section of the
window, `ReadDay` evaluates `_today()` as an argument, `Count` (`CountMemory` or `CountDynamo`)
is the counter, `CounterError` an error that is not `BudgetExhausted` (the update
may have been applied), `RollBack` removes the reservation. `RestartInstance` ends a
process. An error counts the same whether boto3 has retried the update before or not. `kept` and `admitted` are history variables that the properties speak of.

The window dictionary's clean-up (10,000 windows) drops a client by its
*last appended* moment. Moments enter a deque out of order, so a client can be
dropped whose earlier-stamped entries are still inside the window. `RateLimitNow`
is therefore a promise of dictionaries that never fill up (`WindowsSuffice`): it is
checked and proved without evictions, which are exercised for `NoPhantomReservation`.
`Stamped` gives each request that holds a slot an element of its own, so that the
requests of a window are counted by a cardinality. `RefusalHasCause` is the other side
of the limit: what a client is refused for is a slot that another request of its still
holds, so neither a stale entry nor one of a refused request locks it out.

### SourceWatch

`run[k]` is one workflow run with the commit that it checked out. `Read`,
`NotFound`, `NoAnswer` are one attempt each of `check_source`; `Exit` is the exit
code of `pp/harness/__main__.py`; `ListOpen`/`File` and `ListCleared`/`Close` are
the two script steps of the workflow, with the time between listing and writing.
A death of the harness and a failing API call are `Die` and `Abort`. Commits obey
the evidence order that the bundle build enforces (`EvidenceOrder`).

Overlapping runs can file twice or comment on an issue that the other is closing;
`OneOpenIssue` is a property of runs that do not overlap, and `AlertsClear` says
that duplicates go away too. GitHub's listing limit, the letters and ordinance
issues of the same workflow and its artifact steps are left out.

### SourceState and SourceRelease

A release starts when its package has been prepared: the first snapshot shows at
least one changed source, and the receipts say `not_run`. The validators
(`ValidApproval`, `ValidPublication`, `ValidRollback`) are operators on the current
files; an action fills in a receipt that its validator takes at that moment; every
other file may change later, and the properties ask the validators again.
Abstractions: a fingerprint is equality of records; a worklist is a function of its
snapshot; ledger entries are open or resolved with a date (dates have no time of
day: `DayOf`); each receipt is filled in once; two readings that agree in
everything are one snapshot.

Outside of the receipts, recording the observed digest in `data/sources.json` ends
a hold without any re-verification (`harness/runner.py`); the receipts are the only
place where the text is compared with an approval.

### EvidenceExport

Bytes are named by what they say. `tree` is the checkout, `log` the commits. A
builder goes through `Load` (the profile) and `LoadEntries` (the files that it pins),
`Read`, `BindHead`, `Reload` and `LoadEntries` again with the profile as it then is,
`Replay` (the loaders), `Link` and, with a key, `DigestBuilt`, `Sign`, `Settle`, each a
separate read of the files; a consumer
through `Digest`, `CheckSignature`, `Open`, `Rename`, `Match`. `Edit`, `CommitTree`,
`Discard`, `Swap`, `Alter`, `Appear` are everybody else. A killed process takes no
further step. The ZIP format, the profile schema and the OpenSSH subprocess are
left out; the loaders accept the versions in `Sound`. Builders in `Earlier` built
from the first commit before the behaviour starts, so that a run can look at what is
handed over without repeating the build. The loaders see the working tree of a later moment
than the packed bytes, so a build may publish content that loaders refuse; a consumer
is safe from it (`RestoredIsSound`). A bundle is written in one go, and `Rename` publishes
a restored directory in one go, as the system's exclusive rename does: what is unfinished
before it sits in a staging directory that nothing here reads.

### Screening and ProjectPage

`Screening` takes the rule base as an argument because the page and the service
have one each. A form has no numbers, so `eq` and `in` are sets of accepted answers.
`ProjectPage` has the page's one thread: handlers of events are actions, and a
suspended handler is an entry of `calls`. `mine` tells whether the buttons that it
holds are still part of the page: a language switch and every rendering of the
result replace elements (`Disowned`). `Toggle` and the re-rendering that `ai.js`
postpones with `setTimeout(…, 0)` are one step. A draft returns any complete set of
answers. `Replies` has three kinds: none or an error (`NoText`), a text, and an accepted
reply without a body (`NoBody`), which `fetchJsonWithTimeout` makes of a body that is cut
off or interrupted by its own timer. The renderers throw on the last one: the handler is
gone and its button stays disabled (`LeftBehind`, a button that is `"left"`).
`ButtonsComeBack` is about the buttons whose handlers still wait (`"busy"`). Requests without `matched_rule_ids` (under a staff-review result) are not
compared with the service's match, as in `matched_rules`.
Left out: wording and language, the made-up sample and its journey, the what-if and
orientation disclosures, a panel on a result that was already on the page before
assistance was enabled (there is none until the result is rendered again).

### Corpus and AiService

A document is its normalized text and the places where its passages end; what
`verify_quote` and `locate_excerpt` do with them is `VerifyQuote` and `Holding`.
`ListOf` gives each passage its place in a rule's list, and `GroundingPassages` deals
the lists out in turn, as the two loops of `grounding_passages` do. A context carries
the scores that BM25 would give; ties are broken by the passage id, so positive scores
differ.

The service keeps nothing between requests, so `AiService` follows one request at a
time: `Consult` and `Describe` are the calls of the model, and the reply is chosen item
by item where the handler reads it (`ReadClaim`, `ReadQuestion`, `ReadType`, `ReadFact`,
`ReadPlace`). `Disagree` is the refusal of another result, `NoReply` every error,
`Restart` the same service with other rules or documents. A field of an intake reply is
`Missing`, or a value (`Other` stands for one that no list has) with a quote that may be
empty or false. A written jurisdiction is its words, the "county of" or "city of" in
front that `normalize_jurisdiction_name` cuts off, and the name that is left.
Left out: the wording of prompts, text extraction, languages, the charge (in
`AiBudget`), the list of follow-up questions and unmapped details of a draft.

### Calendar and Clocks

A day is a number, day 0 is 1 January 2026; `DateOf` and `Weekday` are computed, so
that closures, cron fields and weekends fall where they fall. In `Clocks`, `PassDay`
is one turn of the loop of `add_business_days` and `Return` is what
`completeness_deadline` and `adu_clocks` make of where it stopped; a filing
without a calendar gets no date. Reasons and the text of the summary are left out.

### Verification and ReviewerPromotion

A rule is its citation with its date and the rest; a fingerprint is what it is of.
`tree` is what is committed together, `members` the roster, `page` the bundle that
`Build` publishes when both load. `EditRule`, `AdoptSnapshot`, `Slip`, `Attest`,
`Leave` and `Review` are the commits of people; only `Review` adds to the
history `reviews`, and `attested` remembers who could support which level at the build.
`LevelIsEarned` quantifies over every clock that a browser may have. The page has no
roster: an attestation that lapses after the build does not take a level back, which
is why the property speaks of the build.

### Availability and AvailabilityWatch

A cron field is a set of terms with a step; `FiresOn` has the rule that two restricted
day fields are alternatives. `Interval` is the longest gap in the year ahead, as
`watch_interval_days` computes it. In `AvailabilityWatch` the schedule owes a run
(`pending`), which may start a day late, people write good and bad records, and the page
watcher proposes issues without touching the record. `LapseAnnounced` takes the true
gap of the schedule (`fires`), not the computed one, as its measure. `YearCovers` is what
the comment on `_CRON_HORIZON_DAYS` says of a schedule; `MCRecords` assumes it of its
schedules, so TLC evaluates it.

### Readiness and Journey

`ConditionState` is the three-valued condition, `RequirementFinding` the finding of one
requirement, given those before it: a part is looked for only when its document was
present. `FindingsOf` is the function that walks them in order. `Journey` has the files as
one record that people edit one commit at a time: fetches whose copy was forgotten,
bindings of one file only, remedies whose date was forgotten. `BuildSite` happens when
`Buildable` holds, and from then on only the page looks: `Handoff` is what it tells a
visitor by the visitor's own clock. Identifiers, paths, labels and JSON checks are left
out.

### BetaGate and GateRun

A tree maps the names of files to their contents, and a SHA-256 is what it is of; a
planning ledger is the set of its parts that claim to have happened (`executed`), of
which `LedgerParts` are the ones that some validator reads. `GateRun` captures the tree
place by place (`Capture`), so that an edit can fall between two reads, and judges what it
captured. `recompute` is `ReadProfile`, a capture of the files that the profile lists and
`Reprofile`, `ReadPins`, `Settle` (the validator corrects the aggregate once), `Propose` or
`WriteProfile`, `WriteRecord`, `Check`, and, when a write fails or the tree is refused,
`Restore`, which takes back one file after the other and may itself fail (`"raised"`);
`Kill` may come at any step.
`AttestProfile` is the maintainer who copies the profile's digest into the code. A
write of one file is all or nothing, in the restoration too. Schemas, paths, size limits and symbolic links are
left out.

### Evaluation

`disk` has the scanner, its checks, the evaluator, the plan, the cases, the key, the
predictions and the result. Each command is a process that reads one file after another;
people edit, freeze anew, label, unblind and misstate at any moment. A command
dates its output with the clock of its start. `amended` remembers that files were
edited while a scan ran, `misstated` that somebody wrote into a result. The URL and
the id of a document coincide. Required categories, commit SHAs and the totals per check
are left out.

### PackageWriter

`directory` is what the running system sees, `since` every state that a power cut may
bring back: all since the last sync, because names come back in the order in which they
were made. `Fail` starts the cleanup, whose `rmtree` removes in any order and may stop;
`Die` removes nothing. `TakeAway` is a maintainer who removes a directory without a
marker while no writer is alive. `undone` excludes from the second half of
`PackageSurvives` a cleanup that begins after the marker was made: it may leave
`.complete` over missing receipts, but such a package was never reported.

## 3. Runs

| Run | Instance | Checks | Shows |
|---|---|---|---|
| `budget_dynamo` | 3 threads in 2 processes, 1 client, cap 1, limit 2, window 2, a midnight, 1 restart | `RateLimitNow`, `ImplementsDailyCap` | with the shared table the cap is hard across midnight, lost answers and a restart; the window holds though moments enter it out of order |
| `budget_midnight` | 2 threads, a midnight | `DailyCapHard` (violated) | finding 1 |
| `watch_run` | 2 sources, 1 rule on both, 2 attempts, 2 days, no overlap | `OneOpenIssue`, `FiledOnEvidence`, `ClosedOnReading`, `NothingSwallowed` | what a run may do to the issue, for every mixture of readings |
| `watch_overlap` | 2 overlapping runs, 1 source, an abort | `AlertsClear`, `DriftAlerted` | liveness of the alert in both directions |
| `release_chain` | 1 source, 3 texts, 2 commits, 3 snapshots, 2 moments | `RetainedStaysHeld`, `RollbackRestores`, `EvidenceInOrder`, `ClearedOnApprovedText`, `LedgerEditVoids` | the whole chain with adopted and retained holds, backdating and later edits |
| `receipts` | export: 2 builders (1 listed; 1 that built earlier), 1 consumer, 2 versions (1 sound), 2 commits; evaluation: 2 scanners, 2 checks, 3 passages, 2 cases, 2 edits, 3 moments; package: 2 writers, 3 receipts, 1 power cut | `ArchiveIsCommit`, `RestoredIsSound`, `VerifiedIsSigned`, `NothingReplaced`; `ResultOfOneCorpus`, `ReceiptRevalidates`; `PackageSurvives` | three chains of files that others rely on, while the files between two reads are edited, exchanged and lost |
| `export_failure` | 1 builder, 1 consumer | `FailureLeavesNothing` (violated) | finding 2 |
| `page_check` | 2 project types with one question, 2 places, 2 waiting requests, 4 presses, an older service | `ResultOfForm`, `ExplainedAsMatched`, `ButtonsComeBack` | edits, drafts, language switches and late replies in every order |
| `page_late` | the same | `OnlyQuestionsWhenUnknown` (violated) | finding 3 |
| `service_requests` | 3 rules (1 local), 3 documents with 4 passages, 2 commits, 2 passages offered and 1 more for a question, 2 items a reply, 3 places, 3 descriptions; of the budget 2 threads, 2 clients, 1 window kept, cap 1, limit 1, one UTC day | `ShownIsGrounded`, `EveryRuleHeard`, `DraftFitsForm`, `PlaceAsWritten`; `NoPhantomReservation`, `DailyCapHard`, `RefusalHasCause` | good, borrowed, too short and invented quotes, mixed claims, pointers to other results, drafts whose type and facts disagree, names that two places share; within a day the in-memory cap is hard, a refusal gives its slot back, with evictions too, and nobody is refused for slots that nobody holds |
| `service_place` | the same | `CountyAsWritten` (violated) | finding 4 |
| `records` | 1 rule on 2 of 3 sources, 2 digests, 3 texts; 2 people, 2 roles, windows of one day, 3 commits; 3 cron schedules, spans of 0, 8, 9 and 32 days, 15 days; 2 requirements, 3 facts, 2 commits; 3 tampered parts, 2 capture places, 2 edits; 3 business days over 16 sets of closures | `LevelIsEarned`; `LapseAnnounced`; `ReadyMeansReevaluates`, `FindingsSurviveAnswers`, `ReviewedCopyWasRead`; `NoFavorableSummary`, `RefusalLeavesTree`, `CleanMeansDerived`; `AgencyHasItsDays` | the committed records while people edit them one commit at a time |

The type invariants are proved (`TypeCorrect` and the like) and cost no run; those of
the machines in `records` are gathered in `RecordsTypeOK`, which can be added to
`Records.cfg`. The shape of `Evaluation` is part of its inductive invariant (`DiskInv`,
`ReadInv`).

Why the bounds are enough. Each hazard is a matter of two actors and one event
between two steps: two threads and a midnight, one commit between two reads, one
revision between two fetches, one edit while a request waits. Every instance has at
least those, and one more where a third can matter (three threads, so that two
processes share the table while one has two threads; three texts, so that a text can
be neither the recorded nor the observed one; two waiting requests and four presses,
so that enabling, drafting, explaining and asking can overlap). For the service it is
one rule more than passages offered, a passage that two rules share, an excerpt across
the end of a passage, and two places of one name. In `records`: two edits and two
reviewers, so that a review can be of a text that is no longer there and by somebody who
has left; spans on both sides of a weekly gap and of the longest permitted one (31 days),
under schedules of which one mixes days of the month with weekdays; a requirement that is part of
another; two places of a capture, so that an edit tears it; and closures that meet a
weekend. In `receipts`: an edit before and one after a freeze, three moments
for freeze, unblinding and score, two writers of one directory. Symmetry is used for
threads of one process, texts and sources, in runs without liveness.
`CHECK_DEADLOCK FALSE` where everything may come to rest: a finished release, an
archive handed over, a page that nobody touches, records after the last permitted commit.

### Fairness

- `SourceWatch!FairSpec`: the schedule keeps starting runs, and a run goes on
  (`WF` of `RunStep(k)`). Nothing is assumed of publishers or maintainers; deaths and
  API failures are bounded.
- `ProjectPage!FairSpec`: every request ends (`WF` of `Reply(k)`), because
  `fetchJsonWithTimeout` aborts it. The applicant may stop at any time.

### Findings

1. `budget_midnight` — `_today()` is read before the in-memory counter's lock; a
   thread that read the old date rolls the counter back, and one UTC day lets
   through more than the cap that the module calls hard.
2. `export_failure` — `restore` publishes its directory before its last check and can
   exit 4 with the directory in place, while `docs/EXPORT-RESTORE.md` says that a
   failure does not create the target.
3. `page_late` — an explanation that arrives late is put under whatever result the
   page then shows, with a question box; under a staff-review result README.md
   promises that only the questions are offered.
4. `service_place` — "County of Fresno" in a description fills in the *city* of Fresno: the
   words in front are cut off before the exact match, and that a county was meant is asked
   only when nothing matched (`resolve_jurisdiction` in `pp/ai/intake.py`). The test of
   cities, counties and ambiguity expects a county for such words; it uses one of the
   counties that share their name with no city. `PlaceAsWritten` is what does hold.

### Observations

What the modelling showed besides, none of it a broken promise of a document:

- An explanation or a list of questions that is accepted without a body (the service answered, the
  body was cut off or timed out) leaves its button disabled, and the ask box is not rendered;
  the page offers it again when the result is rendered anew (`"left"` in `ProjectPage`).
  `ButtonsComeBack` does not cover it. A draft without a body leaves the form alone.
- `_apply` restores two files one after the other; when a write of the restoration itself
  fails, `recompute` leaves with a traceback and the exit code is not that of a refusal
  (`"raised"` in `GateRun`). `RefusalLeavesTree` is about refusals.
- `load_beta_gate` compares the second export profile with its constant and not with
  the tree; only `recompute` looks at the files it lists (`CleanMeansDerived`).
- `recompute` cannot adopt a newly read program record, or anything that moves the
  journey or packet, because the frozen ledgers pin the answers to them; the working
  order for a new profile is `--write`, attest, `--write`.
- A capture may be torn: an edit between two files gives a summary of a tree that never
  was. What the properties promise of a summary is therefore about what was captured.
- The digest of the scanner is taken when the prediction is made, while the code that
  predicts is what the process imported; `ResultOfOneCorpus` excludes scans during
  which somebody edited files. Predictions falsified by hand, with all digests made
  to agree, are outside of what the commands can know.
- The longest gap between two runs is looked for in the 366 days from the run's own day
  (`_CRON_HORIZON_DAYS`; its comment says that a year covers every shape of schedule, with
  gaps that depend on the month too). A run that starts on the day after its schedule
  fired has only the far end of its own gap in that walk, and next year's, which begins on
  the last day of the walk or before, ends after it. When that gap is the longest of the
  year, it is missed: for the 20th and the 30th of every month it is 28 days, from 20 February
  to 20 March, of which `watch_interval_days` finds 21 on 21 February; a reading of
  18 February that is due on 19 March then lapses unannounced. `YearCovers` says that no
  such thing happens. It is an assumption of `LapsesAreAnnounced`; it is true of
  `currency.yml` (Mondays) and of the instances.
- A thread that stalls for a whole window between its reading of the clock and the lock
  appends an old moment behind new ones, and the eviction, which looks at the last moment
  only, may then forget the new ones: with more clients than `_MAX_WINDOWS` a client can
  exceed its limit. `RateLimitHolds` assumes `WindowsSuffice` for that reason.

## 4. Proofs

All theorems hold for every value of the constants that satisfies the named
assumptions of the modules (`BudgetAssumption`, `WatchAssumption`, …).

| Module | Theorems | Argument |
|---|---|---|
| `AiBudget_proofs` | `TypeCorrect`; with the table, `DynamoDailyCap` and `DynamoImplementsDailyCap` | admissions of a day are covered by the day's item (`AdmissionsCovered`): the item is incremented before a request is admitted, and a lost answer only makes it larger |
| `AiBudget_proofs`, of the window | `RefusalsGiveBack`, `RefusalsHaveCause`; with dictionaries that suffice, `RateLimitHolds` | entries of a deque and slots held are counted moment by moment. `NoMore`: an entry stands for a slot, through evictions too. `NoFewer`: a slot held since a recent moment has an entry, because only stale entries are dropped from the left. A deque is never longer than the limit (`WindowsInv`), so neither are the recent slots; and a deque that is full after its pruning has an entry that is not stale, which stands for a slot |
| `SourceWatch_proofs` | `TypeCorrect`, `ClosesOnReading`, `FilesOnEvidence`, `FindingsAreReported`; of runs that do not overlap, `OneIssueAtATime` | `RunInv`: what each run has read so far is of the commit that it checked out (`ReadingsTaken`), and the branch that it took is the one of its exit code (`BranchTaken`); documents only move forward from what was recorded; with one run at a time, an issue is opened only by the run that listed none (`OneIssueInv`) |
| `SourceRelease_proofs` | `TypeCorrect`, `RetainedHoldPersists`, `ClearsOnApprovedText`, `RollbackReadsBaseline`, `LedgerEditsVoid`, `ChainRunsForward` | the invariant is about the files (`World`, `Repository`, `Files`, `Ledger`, and the types of the receipts); the properties follow from the validators in any such state, because a receipt that validates names the files as they are |
| `SourceRelease_proofs`, of the package | `PackageTypeCorrect`, `ReportedPackageStays` | `mkdir` lets one writer in (`Alone`), which has made the parts before the one it is at (`Written`); in everything a power cut may bring back, a marker is there only with its three receipts (`MarkerIsLast`), and after a report nothing else can come back (`Settled`) |
| `EvidenceExport_proofs` | `TypeCorrect`, `ArchivesAreCommits`, `VerifiedMeansSigned`, `RestoredIsReplayed`, `NoStepReplaces` | what each process knows at each of its labels (`BuilderKnows`, `ConsumerKnows`) survives every step of the others, because the log only grows and a package once made stays made |
| `EvidenceExport_proofs`, of the evaluation | `AcceptedResultIsOfOneCorpus`, `ReceiptsAreStable` | every file that names others loads only over what it names (`DiskInv`); what a command has read loaded when it was read (`ReadInv`) and is still what is there unless somebody wrote (`CurrentInv`); so what is accepted was scored from one plan, one set of cases, one key (`ShownInv`) |
| `ProjectPage_proofs` | `TypeCorrect`, `ResultMatchesForm`, `ExplanationsMatch` | a waiting "explain" handler carries the page's own match of complete answers (`CallsMatched`), though the page has forgotten the result that it was pressed under |
| `AiService_proofs` | `TypeCorrect`, `ClaimsAreGrounded`, `DraftsFit`, `PlacesAreAsWritten`, `RulesAreHeard` | lists of passages stay inside the sources of their rule (`ListInScope`, `GroundingInScope`, `QuestionInScope`); what was let through passed the checks against the request that is still open (`OfferedInScope`, `ShownSurvive`, `FieldsFit`), and nothing is left between requests (`Clean`). For `RulesAreHeard`: in the first place of the lists there is at most one passage per rule that has any, so fewer than `MaxPassages` come before the end of that round and every rule's best passage is offered (`FirstPlaceIsOffered`), and stays offered while the request is worked on (`OfferedToAll`) |
| `Review_proofs` | `PromotionTypeCorrect`, `PromotionInvariant`, `LevelsAreEarned` | every line of the ledger that claims a level has a review in the history with the same fingerprints (`LedgerEarned`): slips only remove claims, and editing a rule leaves the line with a fingerprint that no longer fits; `Build` carries that and the roster's attestations over to the page (`PageEarned`), whatever its clock |
| `Review_proofs`, of the clocks | `ClockTypeCorrect`, `SilenceCountsAfterItsDays` | business days passed and days remaining add up to the period, and the last day passed was one of them (`Walked`), for every period and every set of closures |
| `Review_proofs`, of availability | `AvailabilityInvariant`; with `YearCovers`, `LapsesAreAnnounced` | `Heard`: after each firing since the record was written whose run has ended without naming it, the record lasts for longer than the longest silence that may follow; the next run is due before that |
| `Packet_proofs`, of a journey | `JourneyTypeCorrect`, `ReviewsWereMade`, `ReadyIsStillReady`, `AnswersOnlySettle` | `FilesInv` carries every claimed review back to a reading of that copy; `SiteInv` says that the published files were `Buildable` on their day. The due date in the bundle is the earliest of every dated review, so a visitor's clock before it finds the same records still in force. Of the answers: the finding of the first requirement that changed would rest on one before it that did not (`FindingSettles`) |
| `Packet_proofs`, of a gate run | `GateTypeCorrect`, `NothingFavorable`, `RefusalRestores`, `CleanIsDerived` | `GateShape` and `RunTyped` are the type of the run; `FavorInv` says that whatever `recompute` or `validate` accepts holds the frozen ledgers as the code pins them (`ValidIsFrozen`); `RefusalInv` and `CleanInv` follow each file from what was kept before the writes to what is there after them, as long as nobody else wrote |

Every safety invariant and every action property that a passing run checks is a
theorem. Two of them have a hypothesis besides the named assumptions, stated in the
theorem and explained under the observations: `WindowsSuffice` (`RateLimitHolds`) and
`YearCovers` (`AvailabilityInvariant`, `LapsesAreAnnounced`).

Only model-checked: what holds under fairness (`AlertsClear`, `DriftAlerted`,
`ButtonsComeBack`), because the prover has no rule for liveness; and, of
course, what the four finding runs violate.

Three remarks on the proofs. No module that is proved about uses `RECURSIVE`. The
findings of a packet are a recursive function of their places, and the library's induction
theorems take an operator, which the provers cannot instantiate; `FindingsInTurn` and
`FindingSettles` argue instead with a least counterexample (`WFMin` over the numbers,
`LeastNumber`). The provers know nothing of `@@` and `:>`, which is why `Answered`, `With`
and `Recast` write files and answers over others in words of their own. And a `CASE` whose
guards overlap has a value in TLC (the first that holds) that TLA+ leaves open; the
cascades of the code (first match wins) are therefore written with `IF` and `ELSE IF`.

## 5. Not modelled, and the plan

In order:

1. **WhatIf** on `Screening` (`pp/what_if.py`, `screening_contract.py`): the re-runs of the
   matcher for each open answer, against their definition.
2. **Transit** (`pp/transit.py`, `pp/pedestrian.py`) and **Onboarding**
   (`pp/local_source_onboarding.py`): computations and one validator, as operators that
   a composed run checks over bounded inputs; the ordinance re-readings of
   `pp/ordinance_watch.py` belong to `SourceWatch`'s workflow.
3. **DeployStaleness** (`scripts/deploy_staleness.py`): an alert issue like the watch's.
4. The rest of partly modelled components: the readiness contexts of a worklist
   (`pp/review_queue.py`), the fingerprints taken before and after a context is derived
   (`pp/source_release.py`), several workflows in one registry, the letters of the
   currency workflow.
5. More refinements: what a reader of the prepared directory may rely on as an abstract
   specification that `PackageWriter` implements, and the standing issue of `SourceWatch` as
   one that opens and closes.

Left out for good: analytics, styles and pages without state; infrastructure
definitions; the generators in `scripts/` other than the bundle's conditions; the reference
server `demo/app.py`; model providers beyond their outcomes; the reading of GTFS, ZIP, PDF
and HTML; regular expressions over ordinance text; drafting tools without lasting state.
