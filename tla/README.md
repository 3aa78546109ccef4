# LicenseLens: a TLA+ model of the scanner, its wizard and its installer

LicenseLens scans a Microsoft 365 tenant and says which of the security
capabilities it pays for are in use. It runs on an administrator's machine,
reads Microsoft Graph, Azure Resource Manager, Defender for Endpoint and, over
PowerShell, Exchange and Purview, and writes reports. It never writes to the
tenant. What can go wrong is therefore what it *says*: a failed read that
becomes a clean pass or a false gap, a setting judged by the wrong policy, a
capability lost from the headline, one scan's report in the place of another's.
The models here follow what is said from the answers of the tenant to the
verdicts. Beside that they cover the parts with processes, threads or state on
disk: the PowerShell bridge, the local wizard and the Windows installer.

Paths in this file are relative to the repository root.

- [The system](#the-system)
- [The modules](#the-modules)
- [The runs](#the-runs)
- [Fairness](#fairness)
- [What is proved](#what-is-proved)
- [Where the code and its text disagree](#where-the-code-and-its-text-disagree)
- [Behaviours to know](#behaviours-to-know)
- [What is not modelled](#what-is-not-modelled)
- [Plan](#plan)

## The system

A scan is a pipeline on one thread (`src/licenselens/engine/runner.py`):

1. **Entitlements.** The tenant's subscribed SKUs are mapped to capabilities by
   the catalog; four *consumption* capabilities (Sentinel, Log Analytics and two
   Defender for Cloud plans) have no SKU and are probed in Azure.
2. **Selection.** Packs and profiles choose the checks; each check names the
   evidence keys it needs.
3. **Collection.** The evidence planner orders the collectors of those keys and
   of everything they depend on, and runs them one by one. A collector uses an
   API client or the PowerShell bridge and leaves one *envelope* per key, with a
   health (`ok`, `denied`, `truncated`, ...).
4. **Evaluation.** Each check passes an entitlement gate and an evidence gate,
   then its evaluator gives a verdict, which the quality policy may demote.
5. **Roll-up.** Findings are counted per capability, ranked and written as
   HTML, JSON and Markdown.

Batch runs, scan diffs, the MCP server and the wizard are callers of this
pipeline; the installer and the release guards ship it.

### Components

| component | state it keeps | operations | what is hard | what makes it correct |
|---|---|---|---|---|
| evidence planner (`engine/planner.py`) | plan under construction, envelopes | build plan, collect | arbitrary dependency graphs; failures that must stay on their branch | topological, minimal plan; a collector runs only on usable evidence; envelopes are final |
| Graph client (`graph.py`) | cached token | request, paged read | one attempt counter for network errors, throttling and expired tokens; page budget | bounded attempts; a read delivers a flagged prefix or nothing; errors name their cause |
| ARM and MDE clients (`collectors/arm.py`, `mde.py`) | cached token | the same loop, own page walks | undecodable bodies, silent truncation | as above |
| collector runtimes (`collectors/runtime*.py`) | scan context: warnings, extras | one per key | turning exceptions into healths | a failed read never looks like an empty tenant |
| consumption entitlements (`collectors/consumption_entitlements.py`) | observed and unknown capabilities | probe three services | each probe fails on its own, a lost token drops all | an owned capability is never "not licensed" |
| scan runner and gates (`engine/runner*.py`) | evidence, findings | select, collect, evaluate, report | optional, replaceable and blocked evidence | no verdict without entitlement and evidence |
| quality policy (`engine/quality.py`) | none | demote a verdict | proxies, strict mode | nothing is promoted |
| roll-up and ranking (`engine/rollup.py`, `rank.py`) | none | count, rank | unselected checks, incomplete capabilities, rounding | every capability counted once; "fully working" is earned |
| privileged access checks (`runtime_collect_identity_core.py`, `evaluators/identity_privileged.py`) | none of their own | four reads, two evaluations | a sample cut in the middle of a log, lists of roles cut without a word, unreadable PIM schedules | an active user is not dormant; a clean pass covers all that was read |
| PowerShell adapters (`powershell/`) | none | one `Get-` read list per surface | absent cmdlets, refusals, page limits, properties a version does not have | a lost read hides, and never changes, a verdict |
| policy and Graph evaluators (`evaluators/exchange*.py`, `security_suite*.py`, `collaboration*.py`, `power*.py`, `purview*.py`, `endpoint*.py`, `defender*.py`, `identity*.py`, `sentinel*.py`) | none | one pure function per check | unusable surfaces, disabled policies, rows in any order | the verdict is that of the whole evidence or none |
| Conditional Access checks (`collectors/conditional_access.py`, `evaluators/identity_ca*.py`) | none | read policies into predicates, combine them per check | a policy has a dozen conditions, each of which may leave a sign-in out | a pass means that some policy enforces what the check asks, for everyone it is about |
| catalog, selection, profiles (`catalog/`, `engine/selectors.py`, `profiles.py`) | loaded data | map SKUs, choose checks | disabled checks, unknown profiles | only enabled checks of the profile are asked for |
| custom rules (`engine/custom_rules.py`) | budget of steps and time | evaluate the profile's rules on the findings | one budget for all, rules that stop early, empty selections | a finding of a rule that holds, none of one that does not, an error otherwise |
| PowerShell bridge (`collectors/powershell*.py`) | child process, two reader threads | run with a deadline and output limits | pipes that fill, a child that ends while it is killed | ends by its deadline; the result says why |
| wizard (`ui/`) | status, report paths, worker thread | start, diff, serve | request threads and worker share state; directories named by the second | one worker; a complete scan has its report; scans do not overwrite each other |
| batch and output (`batch.py`, `output.py`) | one report directory per tenant | scan tenants in turn | one of several fails; directory names | every tenant has a row; no directory is shared |
| report writers, bundle, redaction (`report/`) | files | render, bundle with manifest, redact | a bundle half written | the manifest lists what is there |
| scan diff (`diff_report.py`) | none | compare two scans | statuses without an order | better means better |
| authentication (`auth.py`) | credential | get a token | wrong cloud | tokens go to their cloud |
| command line, doctor, MCP server | none | drive a scan | MCP requests in parallel | as the scan |
| KQL and Maester importers | none | parse | malformed input | errors are reported |
| release receipts, CI guards, provenance scanner, maintenance scripts | receipts on disk | verify a release | stale receipts | a receipt binds what it names |
| Windows installer (`packaging/windows/`) | versions, markers, launcher, record, PATH | install, update, roll back, uninstall | a crash between any two changes on disk | something runnable stays; uninstall leaves nothing |

`PROJECT.json` lists the same parts with the state of their modelling, and the
hazards found in each at the line where they bite.

## The modules

| module | models | instantiated by |
|---|---|---|
| `EvidenceHealth` | the healths of `collectors/contracts.py`, and what is derived from them | |
| `EvidenceGraph` | registry, selection and dependencies: the planner's input, with `Needs` (closure) and `Defective` as reference definitions | |
| `EvidenceCollection` | **abstract**: what evidence collection promises, without an order of traversal | |
| `EvidencePlanner` | `engine/planner.py` line by line | `MCEvidencePlanner` |
| `EvidencePlanner_proof` | the theorems about it | |
| `PagedRead` | **abstract**: what a paged read promises | |
| `GraphClient` | `graph.py`: token, attempts, pages | `MCGraphClient` |
| `GraphClient_proof` | the theorems about it | |
| `CustomRules` | `custom_rules.py`, `selectors.py`: the rules of a profile, and **the reference** of what they say | |
| `ScanRun` | `runner*.py`, `catalog/loader.py` (SKUs to capabilities), `consumption_entitlements.py`, `quality.py`, `rollup.py` | `MCScanRun` |
| `ScanRun_proof` | the theorems about it and about `CustomRules` | |
| `PrivilegedAccess` | two checks from end to end, with the data they rest on | `MCPrivilegedAccess` |
| `PrivilegedAccess_proof` | the theorems about it | |
| `BoundedProcess` | **a part of** `PowerShellBridge`: `collectors/powershell_process.py`, the child with its pipes, readers and deadline | |
| `PowerShellBridge` | `collectors/powershell.py` around it: what a call answers | `MCPowerShellBridge` |
| `PolicySurfaces` | rows, surfaces, payloads and the accessors of `exchange_lib.py` and its twins | |
| `PolicyAdapters` | the PowerShell adapters (`powershell/.../adapters/*.ps1`) and the module they share | |
| `PowerShellCollectors` | `exchange.py`, `collaboration.py`, `power_data.py` and their `*_normalize.py`: what each collector makes of an answer of the bridge | |
| `DnsChecks` | `dns_records.py` and the SPF and DMARC checks | |
| `ExchangeChecks`, `CollaborationChecks`, `PowerPurviewChecks` | the evaluators of the policy families | |
| `GraphEvidence` | the Graph, Intune, Defender and Sentinel runtimes: what each key holds, which requests it takes, what a refusal does to it | |
| `EndpointChecks`, `IdentityChecks`, `PlatformChecks` | the evaluators that judge that evidence | |
| `EvaluatorBindings` | `evaluators/bindings/*.py`, `engine/registration.py`: which evaluator each check is bound to, and the evidence it needs first | |
| `CheckEvidence` | **the reference**: which surfaces a check is not judged without, and which lost reads cost a surface | |
| `PolicyScan` | one check, 156 in all, from the tenant through evidence gate to its verdict | `MCPolicyScan` |
| `EvidencePath_proof` | the theorems about `BoundedProcess` and `PowerShellBridge`, about `PolicyScan`, and from the one to the other | |
| `CaPolicies` | `collectors/conditional_access.py`: what the scanner reads a policy as | |
| `ConditionalAccess` | the Conditional Access evaluators, and **the reference**: what a policy enforces for a sign-in | `MCConditionalAccess` |
| `ConditionalAccess_proof` | the theorems about it | |
| `WizardSession` | `ui/state.py`, `ui/pages.py` | `MCWizardSession` |
| `WizardSession_proof` | the theorems about it | |
| `WindowsInstaller` | `LicenseLens.Installer.psm1` | `MCWindowsInstaller` |
| `WindowsInstaller_proof` | the theorems about it | |

How they compose: `EvidencePlanner` implements `EvidenceCollection` (status is
the phase seen from outside, health is the envelopes), and that is proved;
`ScanRun` contains an instance of `EvidenceCollection`, so what it says of a scan
holds with the planner in its place, and applies `CustomRules` to its findings. `GraphClient` implements `PagedRead`, and
that is proved as well. `PrivilegedAccess` refines the view `ScanRun` takes
of two checks: `ScanRun` lets an evaluator return anything, `PrivilegedAccess`
has the real evaluators and the real data. `PolicyScan` and `ConditionalAccess` do the
same for whole families of checks; a PowerShell call that does not give a whole answer in
`PowerShellBridge` is one of the failed calls of `PolicyScan`, and that is proved too. `PowerShellBridge` is `BoundedProcess`
with a caller.

**EvidencePlanner.** Keys are natural numbers, ordered by `<` as the code orders
their names. The recursion of `_visit` is the sequence `stack`; `ordered` is the
plan. The code's `temporary` and `permanent` sets are always the ranges of the
two, because a key enters one and leaves the other in the same statements.
`Construct` is `__init__`; `Enter`, `Reject`, `Leave` and `Planned` are
`build_plan` with `_visit` and `_producer_for`; the other actions are one step of
`collect` each, in the order of `_collect_one`'s conditions: unsupported cloud,
blocked dependency, then the call. The value inside an envelope is dropped, its
health is kept. `Abort` is an exception out of the progress callback.

**GraphClient.** One action per outcome of one attempt in `request()`, and `Page`
for the loop of `get_list_result`. `Expire` is the environment. A page is its
number; waiting times are left out. `sent` and `answer` record what happened and
guard nothing.

**ScanRun.** The probes run in the code's order and each may be answered or
refused; `AuthFails` is a token that cannot be had; `ProbeRaises` a body that is
no JSON. `OwnedBySkus` is `resolve_owned_capabilities`: of the SKUs `subscribed` to, the
active ones with their part numbers (`BySku`), and their active plans with ids and names
(`ByPlan`). `tenant` holds what is really there (what active plans give, and the Azure
services): the code does not see it, the properties compare with it. A part number may
unlock more than the plans that are on, so that the properties count as `Entitlements` what
is there *or* mapped from an active SKU (see [Behaviours to know](#behaviours-to-know)). `silent` are the keys whose collector raised without a text; `HasValue`
and `HasError` are what `envelopes_to_evidence` makes of an envelope. `Gate` is
`evaluate_check` up to the evaluator, `Demoted` the quality policy, `RollUp` the counts.
Evaluators are *any* function here, raising included. `Report` applies the rules of the
profile to the sorted findings before the roll-up is shown. Wording, ranking and profile
annotations are left out.

**CustomRules.** A rule is its own last condition. `ConditionResult` and `RuleResult` are the
loops of `_condition_matches` and `_rule_matches` with the steps they take; `RulesApplied`
is the budget: `late` is the rule in which the seconds run out, any of them. Texts,
numbers and lists are tagged with their type, as the comparison depends on it. The limits on
the size of a rule's texts are one flag, `tooLarge`.

**PrivilegedAccess.** A tenant is a record of assignments, eligibilities, kinds of
directory objects and a sign-in log; roles may be privileged or not. `Listed` is what
`get_list` returns of a list of roles: all of it, or any rows that fill its page budget, with
nothing to tell the two apart. As the filter for privileged roles comes after the read,
unprivileged rows may crowd privileged ones out. Collectors run in any order their
dependencies allow.

**BoundedProcess, PowerShellBridge.** Data comes in units: requests, answers and the
two pipes hold a few, and the code's caps (256 KiB per stream) and the pipe of the
system (64 KiB) are numbers of units in the same order. Time passes by an action of its
own, at most as far as the deadline. The child may read its request or not, write to
either stream, leave an heir (a descendant that inherits its pipes), ignore SIGTERM, and
end at any step. The readers are two processes. The code's join timeout is long enough
for a reader to drain what is left in a pipe whose ends are closed, so `Join` waits for
readers that have an end to find and gives up on those that have not. The caller is the
order of statements in `BoundedProcessRunner.run` (`powershell_process.py:70`), the readers are
`_drain_process` (`:32`), and the call around them is `invoke_powershell_adapter`
(`powershell.py:148`).

**PolicySurfaces, PolicyAdapters, PowerShellCollectors, PolicyScan.** A tenant is a table of
rows per cmdlet. Each call of the bridge turns what is left of the tables into a payload as
its adapter does; the collector that called it normalises the payload, or, of an envelope
without a value, makes the single surface `adapter` with a status that it takes from the
health and from two words in the reason. Then the evaluator judges. A read is whole, absent, refused or cut, hides a
property, or fails with its call; all combinations are tried. Surfaces and properties no
check reads are left out.

**GraphEvidence, EndpointChecks, IdentityChecks, PlatformChecks.** The same rows and payloads,
produced by requests instead of cmdlets. A request is answered with rows, or refused; most
runtimes lose everything with the first refusal (`Bundle`), some carry on, and the ones
that fall back on another list are definitions of their own (`AsrPolicies`, the table list of
Sentinel). Dates, times and counts are the side of their threshold they are on.

**EvaluatorBindings.** One definition per register function, one arm per check that it binds.
A check that names input models is judged only when the runtimes of all of them succeeded
(`Needs`), unless the key is optional. What a binding does not name is not asked for, so an
evaluator may meet a runtime that failed as one that found nothing. `RegisteredOnce`, evaluated at
the start of the run, says that every check has one binding, as `add_evaluator` demands. Twin
checks (two ids, one evaluator) and the checks that only ask for a manual review are in the run
too: a binding may be wrong where its evaluator is right. With the twelve checks of
`ConditionalAccess` and the two of `PrivilegedAccess` these are all 170 that the code binds.

**CaPolicies, ConditionalAccess.** A policy has the fields the collector reads, with the
values it tells apart. `Applies` and `Enforces` say what a policy does to a sign-in, from the
meaning of the fields as the code's own comments give it; the evaluators are compared
with that, and see only the policy. `gaps` are the conditions by which a policy misses a
sign-in that it should meet. `NotRecognised` lists the policies a check passes over by
design, one disjunct each; without any one of them `GapMeansOpen` fails on the run. In `MCConditionalAccess` a sign-in differs from an ordinary
one in at most two respects; two policies are taken from eight templates with at most two
fields changed.

**WizardSession.** One frame per thread (`pc`, `profile`, `leg`, `dir`, `before`),
one action between two accesses to shared state. A directory is the pair of its
second and counter. The lock of `UiState` protects single accesses, which is what
an action is. Progress list, device code and rendering are left out.

**WindowsInstaller.** One action per change on disk, and a `Crash` between any
two. A recursive delete is two steps (the exe may be gone while the directory
stays), an atomic file write is one, the launcher's plain write two. Download and
checksum come before the first change and are left out, as is the record's copy of
the licence. `Foreign` lets the user own a file in the root or a PATH entry.

## The runs

Every run is a question. `CHECK_DEADLOCK FALSE` is set throughout: a scan, a
read, the wizard's finitely many requests and the bounded installer sessions end.

| run | shows | bounds, and why they are enough |
|---|---|---|
| `planner` | the plan is a topological order of exactly the needed keys; it is refused for defective input and only then; planning ends; collectors run on usable evidence only; failures stay on their branch; healthy checks are grounded; the planner implements `EvidenceCollection` | for planning, *every* dependency graph over 3 keys, with missing producers and cycles of length 1 to 3, under two sets of requirements, and a duplicate producer: three keys hold every shape the visit distinguishes (unvisited, in progress, finished). For collection, keys in the shapes of the runtime graph (chain, join, shared, unneeded), unsupported collectors, profiles and disabled checks, all healths |
| `graph_read` | attempts are bounded; errors name their cause; the client implements `PagedRead`; reads end | 0 to 4 pages against a budget of 3 (empty, short, full, cut), 0 to 2 retries, two reads so that the second starts with a token that is fresh, expired or missing |
| `scan` | verdicts are grounded, those of the rules of a profile too; "fully working" is earned; every capability is counted; "not licensed" is true | 4 tenants whose SKUs give none, either or both of 2 licensed capabilities (a plan switched off in a suite that the catalog maps and in one that it does not, one renamed, a suspended SKU, a plan the catalog knows by its SKU only), 4 consumption capabilities in any combination, a catalog with one check of every kind, three selections, every quality policy, all four Azure scopes, 2 produced keys and one nobody produces; 5 rules with at most one further condition against a budget of 18 steps, which may end in the third rule or later, and a time limit that may strike in any. The rules come with one pair of quality options: they change nothing before the report |
| `privileged` | with the whole log read, the dormant list accuses nobody wrongly, and leaves nobody out unless the role assignments were cut; a clean pass is so of all assignments that were read, which are all there are unless more were listed than the budget has rows; a failed read is never judged | logs of up to 5 rows against a budget of 2 pages of 2 rows, the flag at 2 users, 2 principals of 6 kinds, assignments of two privileged roles and an unprivileged one; 3 rows of assignments and 2 of eligibilities are read, so that lists of 4 and 3 are cut |
| `wizard` | one worker; complete means a report; demo scans keep apart; scans end | 2 demo requests and a diff, a known and an unknown profile, a clock that may tick once |
| `installer` | markers name something runnable; marker and record agree; uninstall leaves nothing; the PATH entry goes | 2 versions, 4 operations with and without `-Force`, 2 crashes, with and without the user's own file and PATH entry. Four operations hold install, update, rollback and uninstall in a row |
| `bridge` | a call ends with the whole answer or with a reason that is true; an answer in time is not lost; no child is left behind | a pipe and a chunk of 2 units, caps of 3 and 1, answers of 3 and 4 units (exactly the cap, in an unfinished chunk, and one more), a request that fits the pipe and one that does not, children that end, hang, ignore SIGTERM or SIGKILL, an heir |
| `policy` | a check that has lost what it rests on is not judged (`LostEvidenceIsNeverJudged`); one judged on the rest is judged as on the whole (`LostReadsOnlyHide`); silence does not pass; row order and disabled policies do not matter | 156 checks; lists of up to two rows, and of every property the values its evaluator tells apart. Evaluators ask *any*, *all*, *first* or *last*; two rows tell these apart. The thresholds are scaled down with the lists: two rules, one tactic, two connected or evaluable rules are enough (`MinRules`, `MinTactics`, `MinConnected`, `MinEvaluable`), one dead rule is listed (`DeadCap`), two policies and one device get their detail (`MaxPolicyDetail`, `MaxTamperDevices`). Lists that Graph cuts are not here: `get_list` cuts without a word, see `GraphClient` |
| `ca` | a pass means that a policy enforces what the check asks for every sign-in it is about; a gap that no policy does; turning a policy off never passes | two policies from eight templates with up to two fields changed, sign-ins that differ from an ordinary one in up to two respects, two profiles. A predicate looks at one policy; a check combines at most two |
| `seen_dormant`, `ca_or_grant`, `installer_reinstall` | violations: see [below](#where-the-code-and-its-text-disagree) | the smallest instance in which the case occurs |

Two conditions in the properties deserve a word. `NotLicensedIsTrue` is stated for
scopes that name their subscription, since the code does not do better for the
others (see [Behaviours to know](#behaviours-to-know)). The last conjunct of
`EveryCapabilityIsCounted` ("100 percent means all") holds because there are fewer
than 200 capabilities: 199 of 200 would round to 100. The catalog's checks name 31.

`MarkersAreRunnable` excepts the versions in `wiped`, a history variable: those
whose exe a forced reinstall or an uninstall deleted on purpose. What the
exception lets through for `-Force` is the subject of `installer_reinstall`.

Each property of a passing run has a mutant in its module: a definition changed the
way a bug would change it ("Mutant of ..."), under which TLC finds the property
violated. No specification uses them.

## Fairness

- **Planner:** weak fairness of `Plan \/ Collect`. One thread runs the planner;
  every collector returns or raises because the HTTP clients set timeouts.
  Nothing obliges a run to be aborted.
- **Graph client:** weak fairness of `Step`, for the same reason. Nobody is obliged
  to start a read and no token to expire.
- **Wizard:** weak fairness of each running thread. Requests need not arrive and the
  clock need not tick.
- **PowerShell bridge:** weak fairness of the caller, of each reader, of the passing of
  time up to the deadline, and of a child that reads its request. Nothing obliges a child
  to read, to write or to end: `CallEnds` is about all others (see
  [Behaviours to know](#behaviours-to-know)).
- `ScanRun`, `PrivilegedAccess`, `PolicyScan`, `ConditionalAccess` and
  `WindowsInstaller` state safety only.

## What is proved

Eight modules hold proofs that `tlapm` checks to the last leaf. Every safety property and
every action property of a passing run, but for four of the five of `policy`, is a theorem
for every value of the constants:

| component | theorems | inductive invariant |
|---|---|---|
| evidence planner | `TypeCorrect`, `PlanOrderHolds`, `PlanExactHolds`, `RefusedIffDefectiveHolds`, `CallsJustifiedHolds`, `BlockedOnlyByDependencyHolds`, `EnvelopesAreFinalHolds`, `HealthyCheckIsGroundedHolds`, `PlannerImplements` | `PlanInv`, `RunInv` |
| Graph client | `ErrorNamesItsCauseHolds`, `ReadImplementsPagedRead` | `ReadInv` |
| scan runner, custom rules, roll-up | `VerdictIsGroundedHolds`, `NotLicensedIsTrueHolds`, `FullyWorkingIsEarnedHolds`, `EveryCapabilityIsCountedHolds` | `ScanInv` |
| privileged access | `WholeLogIsExactHolds`, `CleanPassIsGroundedHolds`, `FailedReadIsNeverJudgedHolds` | `PrivilegedInv` |
| policy and Graph checks | `LostEvidenceIsNeverJudgedHolds`, `LostEvidenceHasNoVerdict`, `EvidenceInvariant` | `EvidenceInv` |
| bridge and checks together | `UnfinishedCallFails`, `UnfinishedCallIsNotJudged` | both |
| PowerShell bridge | `TypedAnswerIsWholeHolds`, `ReasonNamesItsCauseHolds`, `AnswerIsNotLostHolds`, `NoChildIsLeftBehindHolds` | `BridgeInv` |
| Conditional Access | `PassMeansEnforcedAlways`, `GapMeansOpenAlways`, `TurningOffNeverPassesHolds` | `Scanned`, `Kept` |
| wizard | `AtMostOneWorkerHolds`, `CompleteMeansReportHolds`, `DemoScansPreservedHolds` | `WizardInv` |
| installer | `MarkersAreRunnableHolds`, `MarkerAndRecordAgreeHolds`, `UninstallLeavesNothingHolds`, `AddedEntryGoesHolds` | `InstallerInv` |

The assumptions are on constants only, each is named where the constant is declared, and
TLC evaluates each in a run.

### Evidence planner

`EvidencePlanner_proof` proves for every set of keys, every registry, every selection
and every outcome, by nine theorems that `tlapm` checks:

| theorem | says |
|---|---|
| `TypeCorrect` | `Spec => []TypeOK` |
| `PlanOrderHolds`, `PlanExactHolds` | the plan is a topological order of exactly the needed evidence |
| `RefusedIffDefectiveHolds` | plan errors are raised for defective inputs only, and no plan is made for one |
| `CallsJustifiedHolds`, `BlockedOnlyByDependencyHolds` | who is called, and who is passed over |
| `EnvelopesAreFinalHolds` | no step rewrites an envelope (no run checks this one by itself: a run checks `Implements`, where an envelope that is there stays) |
| `HealthyCheckIsGroundedHolds` | a healthy check rests on healthy evidence all the way down |
| `PlannerImplements` | `Spec => Abstract!Spec` |

Assumptions on the constants: `KeysAreOrdered` (keys are naturals, the code's
strings have a total order), `ConfigsAreInputs` (inputs have the shape of the
registry's records), `OutcomesAreHealths`. TLC evaluates all three in `planner`.

The argument. None of the properties is inductive. Two strengthenings are:

- `PlanInv`, for planning: `ordered` has no repetition and is closed under
  dependencies; `stack` is a path in the dependency graph that avoids `ordered` and
  has no repetition; everything on either is needed. From the path follows that a
  key met twice lies on a cycle of needed keys, hence `RefusedIffDefective` in one
  direction. For the other direction, a completed plan orders all the needed keys so
  that each comes after its dependencies, which leaves no room for a cycle.
  `PlanExact` follows from closure (the plan holds what is needed) and from
  neededness (and no more).
- `RunInv`, for collection: the envelopes are those of a prefix of the plan, and each
  was recorded for the code's reason (unsupported; a dependency unusable; called).
  As a prefix of a topological order is closed under dependencies and envelopes are
  final, a reason that was true when recorded stays true.

The refinement theorem maps initial states to initial states and each action to a
step of `EvidenceCollection` or a stutter: planning steps stutter until `Reject` and
`Construct` (which become `Refuse`) or `Planned` (`Accept`); a collection step becomes
`Observe` of its key.

### Graph client

`GraphClient_proof`, from `BoundsAreNaturals` (retries and page counts are naturals, the page
budget is not zero). `ReadInv` says that while a request is on, an attempt was sent for each
that is counted and no more than allowed (the second token costs one more, even without
retries), that what was collected are the first pages, and that there is a next one to ask
for. `ErrorNamesItsCause` is inductive only with the count of attempts. For the refinement
every action but the last of a page stutters; `Page` stutters until the page that is the last
or exhausts the budget, where `items` and `more` are what `PagedRead` hands over.

### Scan runner, custom rules and roll-up

`ScanRun_proof`, from four assumptions:

- `CatalogIsComplete`: the catalog gives every check a severity, a mode and capabilities it
  knows;
- `CatalogKnowsPlans`: what the catalog says of a plan is so, and a capability that an active
  plan gives is known by that plan or by its SKU. Nothing is assumed of what it says of SKUs:
  the catalog maps suites such as `SPE_E5`, whose part number unlocks a capability with its
  plan switched off (see [Behaviours to know](#behaviours-to-know)). The theorems
  therefore speak of `Entitlements` where the code cannot know `tenant`;
- `CapabilitiesAreFew`: fewer than 200, because `round` makes 100 percent of 199 in 200. The
  catalog's checks name 31;
- `ChecksAreInputs`: the checks of a selection are records of the shape the planner takes.

`ScanInv` has, beside the shape,

- `EntitlementsAreTrue`: what is owned is there or mapped from an active SKU; a capability the tenant has is owned, unknown
  or still to be probed by one of the probes left. A failed probe must put its capabilities
  into `unknown`, and a lost token all of them, or `NotLicensedIsTrue` breaks in the evaluation,
  three steps later;
- `FindingsAreAllowed`: every finding is one that the gate and the quality policy allow *with
  the final* entitlements and envelopes, as neither changes any more;
- `ReportIsComplete`: at the end all selected checks have findings, and roll-up and custom
  findings are made of them.

That the headline counts every capability once is a matter of cardinalities: the statuses
partition the capabilities, and `LessIsNotAll` is the arithmetic of the rounding. The rules
need lemmas of their own: `ConditionIsDecided` (the loop of `_condition_matches` stops at
the first value that decides, and what lies behind it does not change whether the condition
holds) and `RuleIsDecided`; an outcome that is no error therefore agrees with the reference
`RuleHolds`, whatever the budget did to the rules before it. As each is about one rule, no induction over the rules is needed.

### Privileged access

`PrivilegedAccess_proof`, from `PrivilegedAssumption` (page sizes and budgets) and `TenantsAreDirectories`
(assignments, eligibilities and logs are about principals and roles, both lists are finite, and the
sign-in log has users only, as `/auditLogs/signIns` has). `PrivilegedInv` says that the
lists of roles are what a read may return of the tenant's (`ListsAreRead`), that the sample is all the users read unless it is flagged, that the flag and the health of the
envelope agree, and that a finding was made of complete collection by the evaluator and is
what the evaluator would say now. The proof made two things explicit: an unflagged
sample must be whole *when it is judged*, and `DormantStatus` depends on the order of its
conditions, which overlap.

### PowerShell bridge

`EvidencePath_proof`, from `ProcessAssumption` and `CallAssumption` (sizes are positive, jobs and
calls have their shape). Four actors run: caller, child, two readers. The invariant:

- `NothingIsLost`: for each stream that was not cut, what the child wrote is what is in the
  buffer, in the reader's hand or in the pipe; a stream that was cut is over its cap; and a
  reader that is done, uncut, has all and its stream has ended;
- `ChildIsConsistent`: who ended the child, and that a child that ended by itself wrote its all;
- `MainKnows`: what the caller may rely on where it is. It reaches `join` with a child that runs
  only if it called it off, and after the join an answer is either called off, or the
  child has ended and the readers are done, unless there is an heir;
- `ResultTells`, `EnvelopeIsMapped`: the result says so, and the envelope is made of the result.

### Policy and Graph checks

`EvidencePath_proof` goes on from the bridge to the verdicts, from two assumptions of
`PolicyScan`: `CalledOnce` (a check rests on a sequence of calls, no two of one adapter) and
`ReadsAreNamed` (a read is not lost as "failed", the word for a whole call). Neither the
tenant's rows, nor the options, nor the checks' tables of reads are restricted.

`CheckEvidence` is the reference: `EvidenceLost` lists per check the surfaces it is not judged
without, as alternatives where one does for another, and `Takes` which loss of which read
costs which surface. `JudgedOnTheRest` of `PolicyScan` names the checks that are judged without
some of theirs; these are in the reference for the surfaces they cannot do without, or not at all. The
proof has three layers:

- *Evaluators* (`LostFromHasNoVerdict`): a bundle that misses what a check rests on, whatever else
  is in it, has no verdict *ok* or *gap*. One lemma per family of checks. They cover twin
  bindings, evaluators that fall back, and the gate.
- *Payloads* (`PayloadIsWithout`): a read that is absent, refused or failed leaves its surface
  unusable in the payload, after the adapter's `try`, the helper of the module, the collector's
  normalisation and its fallbacks from one list to another. One lemma per adapter or runtime.
- *State* (`EvidenceInv`): `CallsAreLeft` (the calls still to make are of adapters not yet in
  the bundle), `LossesAreMissing` (whatever is recorded as lost is missing from the bundle) and
  `VerdictIsLast` (the verdict is that of the final bundle). `LostEvidenceIsNeverJudged` alone is
  not inductive: it says nothing until the verdict is there. `LossesAreMissing` needs `CallsAreLeft`,
  as a second payload under the same key would bring a surface back.

`UnfinishedCallFails` joins the two halves: when the bridge is done and its child did not give
a whole answer (it was killed, cut, timed out, crashed, was never started, or said something
else than an envelope), what the collector makes of the envelope is the payload of a failed call.
`UnfinishedCallIsNotJudged` draws the conclusion for the verdict. Both rest on `UnhealthyUnlessWhole`,
which is `TypedAnswerIsWhole` turned around, and on `GuardsHold`, that the guards before
the process give no healthy envelope.

### Conditional Access

`ConditionalAccess_proof` proves `PassMeansEnforcedAlways`: for every set of policies, of
sign-ins and of profiles, `Spec => []PassMeansEnforced`. A check that passes names a
policy that enforces what it asks, for every sign-in it is about. Assumptions:
`RolesAssumption` (every user has a set of roles), `SignInsAssumption` (sign-ins
have the shape the fields speak of), `StartsAssumption` (the policies at the start are well
formed). The invariant, `Scanned`, says that the policies are well formed and that the
verdict, once there, is that of the evaluator on them. One lemma per check then goes from
the evaluator's predicates, which see a policy only, to what it enforces: a policy with no
`gaps` meets each sign-in of the kind (`Meets`), and the grant it is read to have is the one
it demands, because an AND of controls demands each and an OR with one member demands it.
This is where the conditions that the evaluators do not look at must be excluded, and the
reason `PassMeansEnforced` names them.

`GapMeansOpenAlways` goes the other way: a policy that covers what a check asks for is among
those the check finds, whoever else it is about. It needs one more assumption, `SignInsAreVaried`:
somebody registers security information, and whoever is meant by the halves of `ca_priv_gaps` signs in with
every client, from every platform and place, to every application and without a risk. Otherwise
a policy for one platform would cover every sign-in there is, and be rightly passed over. An
attempt at this proof found the property to be false for tenants the run did not have (a
block of legacy clients listed among others); `NotRecognised` now names each exception, the run
has them all, and `ca_priv_gaps` is held to both of its halves.

`TurningOffNeverPassesHolds` is an action property: `OnlyLost` says what two scans have in common
when one enabled policy goes, and `NoPassGained` compares the verdicts of all twelve checks under it. A policy that
leaves somebody out is excepted because it takes the pass away from the others.

### Wizard

`WizardSession_proof` proves, for every number of request threads, of profiles and of
seconds, `AtMostOneWorkerHolds`, `CompleteMeansReportHolds` and `DemoScansPreservedHolds`.
The assumption is `WizardAssumption` (demo and diff requests are distinct threads, known
profiles are profiles). None of the three is inductive; the invariant `WizardInv` adds

- `OnlyTheWorkerRuns`: a thread that scans is the one `_worker` names, so that the check
  in POST /demo, which looks at the last worker only, looks at all of them;
- `FramesTellTheTruth`: what a thread has written when it is at a step (both files are in
  its directory before it records a path and before it sets the status);
- `DirectoryIsTheWorkers`: between choosing a directory and writing the first file, nobody
  else's demo file is in it. This rests on `FreshIsNew`: the name chosen is the clock's
  second with the least free suffix, which exists as only finitely many are taken.

### Installer

`WindowsInstaller_proof` proves, for every number of versions, operations and crashes,
`MarkersAreRunnableHolds`, `MarkerAndRecordAgreeHolds`, `UninstallLeavesNothingHolds` and
`AddedEntryGoesHolds`, from `InstallerAssumption` (`None` is neither a version nor a
record). The invariant `InstallerInv` says, at each step of an operation, what is on disk:

- `Runnable`: the version about to become current or previous has its exe;
- `Cleared`: an uninstall has deleted whatever lies behind its next step, and without a root
  directory there is nothing at all;
- `Agreement`: until a crash, marker and record name one version, but between the two
  writes that change them, and a version to roll back to is on record;
- `EntryRecorded`: until a crash, a PATH entry that was added is on record or about to be.

The last two stop at a crash because the code does: a crash between two writes leaves them
apart, and the next operation does not look for that.

### Only model-checked

- All liveness: `Terminates`, `ReadsEnd`, `ScanEnds`, `CallEnds`. Liveness under fairness and
  ENABLED are out of the prover's reach.
- `LostReadsOnlyHide`, `UnexposedNeverPasses`, `RowOrderIsIrrelevant` and
  `DisabledPoliciesDoNotCount` of `policy`. Two reasons. They compare the verdicts of two
  bundles, one of which is built by a fold over the calls of a check, and evaluators that go
  through the rows of a list fold over those: induction over data. And they are about the
  table that `MCPolicyScan` gives, which check rests on which cmdlets with which values;
  with other tables they do not hold. What they have in common, that a lost read is not
  taken for an empty list, is what `LostEvidenceIsNeverJudged` says and is proved.

That the needed set is *computed* correctly needs no induction over data, as `Needs` is
defined as the least closed set and the proof compares the plan with it directly.

## Where the code and its text disagree

Each has a run in which TLC shows the behaviour, and an entry under `findings`.

- **Users seen to sign in are reported dormant** (`seen_dormant`). When the sign-in
  sample is flagged as truncated its envelope carries no value, the evaluator reads
  that as an empty set, and every enabled administrator looks dormant.
- **A grant of alternatives passes for each of them** (`ca_or_grant`). `_grant_enforces`
  "is true only when the grant genuinely requires" the control, but it takes an
  authentication strength for no control at all (`collectors/conditional_access.py:203`):
  "compliant device OR phishing-resistant strength" passes the check for managed devices
  and the one for phishing-resistant sign-in, and enforces neither.
- **A forced reinstall may leave nothing that runs** (`installer_reinstall`). With
  `-Force` the version's directory is deleted before its replacement is extracted
  and verified (`LicenseLens.Installer.psm1:528`). When it is the current one, a
  failed check or a crash leaves neither "the old or the new version".

## Behaviours to know

Found while modelling and kept in the models where they have the state for it, without
a run of their own.

Entitlements, planner and clients:

- A token refresh happens on the first attempt only (`graph.py:173`): a token that
  expires while an earlier attempt was throttled fails the read with a 401.
  `GraphClient.Unauthorized` has this; `ErrorNamesItsCause` says the 401 is reported.
- `ArmClient.get` decodes a 200 body outside any handler (`collectors/arm.py:105`), and
  `observe_consumption_entitlements`, said never to raise, lets the decoding error out:
  a proxy page ends the scan (`ScanRun.ProbeRaises`).
- A workspace id whose subscription segment is not recognised skips the Defender for
  Cloud probe (`consumption_entitlements.py:213`). The plans then are neither owned
  nor unknown, and their checks say "not licensed".
- An exception whose text is empty gives an error envelope with an empty reason
  (`engine/planner.py:201`), which leaves no error in the evidence
  (`runtime_envelopes.py:170`). For the keys that get an empty value when they fail
  (`role_assignments`, `domains`, `dns_records`, ...) the check is then judged on nothing.
  `VerdictIsGrounded` excepts `silent \cap Defaulted`.
- The part number of an active SKU unlocks a capability whatever becomes of its plans
  (`catalog/loader.py:207`), although the docstring says that disabled plans never unlock one
  (`:183`), and the catalog maps whole suites. A check may then say gap, or a capability be
  "fully working", on a plan that is switched off. docs/methodology/entitlement-model.md:23
  repeats the docstring, and calls a capability owned when "an active plan/SKU that the
  catalog maps to it" is there. `VerdictIsGrounded` and `FullyWorkingIsEarned` hold in the
  second sense, and would not in the first; a tenant of `MCScanRun` has the case.
- `resolve_owned_capabilities` is called without a cloud (`runner_collect.py:145`): the
  clouds of a capability never filter.
- `get_list` of the Graph client stops at its page budget without a word; only
  `get_list_result` has the flag.
- The roll-up ranges over the whole catalog, but only selected checks have findings
  (`engine/rollup.py:102`): a capability can be "fully working" on the checks of a
  small profile.

Custom rules:

- Each condition ranges over all the findings on its own: "any status is gap" and "any
  severity is critical" may be about two findings.
- *all* of an empty selection does not hold. A first condition that does not hold hides the
  type error in a later one.
- A rule that raises is charged for its own step only, whatever it used
  (`custom_rules.py`, `evaluate_custom_rules`). With more than 64 rules none is evaluated.
- The selector `tenant.domains` gives the sensitive domains of the profile
  (`runner.py:124`), not those of the tenant.

Privileged access:

- The sign-in sample counts *users* against the page budget
  (`runtime_collect_identity_core.py:121`), so a log cut at its page budget may go
  unflagged, and users whose rows were on later pages look dormant. `WholeLogIsExact`
  is stated for logs that were read to the end.
- A Graph error on the PIM schedules becomes a healthy empty list
  (`runtime_collect_identity_core.py:104`). Standing assignments then look uncovered: a
  gap, where README.md:51 promises that a missing permission never becomes "a false
  gap". Of these two reads `FailedReadIsNeverJudged` says only that their failure never makes
  a clean pass.
- Role assignments are cut after 30 pages and eligibilities after 20, without a word
  (`privileged_roles.py:89`), before the filter for privileged roles. A clean pass then says
  nothing of the assignments left behind, and standing access whose eligibility was left
  behind looks like a gap. `AssignmentsCut` names the case in `CleanPassIsGrounded`.

PowerShell bridge:

- The request is written before the deadline is computed (`powershell_process.py:134`).
  A child that hangs without reading a request larger than the pipe blocks the scan for
  ever. Requests are capped at 256 KiB, a pipe holds 64 KiB.
- `TimeoutExpired` escapes `run()` when the child outlives SIGKILL; the planner makes it
  an error envelope.
- An heir that holds a pipe keeps a reader from its end; a whole answer may then be
  reported as malformed, and a child that ends exactly at the deadline as timed out.
- A reason that contains "module" makes an unavailable adapter "unsupported" even when
  the session was the trouble (`powershell.py`, the order of the markers).

Policy checks (README.md:51, "an API failure ... never becomes a clean pass or a false
gap", has the exceptions that `JudgedOnTheRest`, `JudgedOnACutList` and `SilencePasses`
list):

- A list read page by page ends at the fiftieth page without a word (`psm1:312`).
- 25 checks pass when the installed module does not expose the property they look for.
- A domain that could not be looked up in time has no record: a slow resolver is a gap
  (`dns_records.py:205`). `~all` counts as a hard fail.
- Transport rules with `State = Disabled` still count, though "No enabled transport rule"
  is what is said of them (`defender_mdo_forward.py:186`); so do disabled retention and
  sharing policies.
- Rows of rules follow those of policies and have no actions: a gap
  (`security_suite_spam.py:60`).
- The first anti-phishing policy decides about safety tips
  (`security_suite_threat_impersonation.py:163`), the last Teams policy about unmanaged
  users (`collaboration_teams_access.py:135`).
- Auto-labelling passes when the key `DefaultLabelId` is there, whatever its value.
- An unsupported `purview_governance` hides the `scc_compliance` surface that was read.
- Data policies outside the default environment pass when there is no such environment,
  even if the policies were not read.

Graph evidence:

- `device_reconciliation`, `entra_devices`, `mde_inventory` and `xdr_custom_detections` are
  collected by no scan, since no check lists them in its `input_models`
  (`runtime_specs.py:211`). The checks of onboarding gaps and of enrolment coverage can then
  never pass, and the parity check sees no rules of Defender XDR.
- `purview_dlp` depends on the Secure Score (`runtime_specs.py:84`): when that failed the
  planner blocks it, and the fallback of the runtime
  (`runtime_collect_endpoint.py:148`) is never reached.
- A failed read of the managed devices lets the check for assigned compliance policies
  pass, and makes tamper protection a gap. Unread configuration policies make the attack
  surface rules a gap. Tamper protection passes on a sample of ten devices. Only the first
  15 policies of a list get their assignments. Assignment is not looked at by
  the checks for baselines and coverage, nor by the one for actions for noncompliance.
- Refused eligibilities count as none, so that the check for standing access is a gap. SKU
  counts that fail are skipped, which undercounts, and SKUs that overlap are summed, which
  overcounts.
- A property that Graph leaves out reads as false or zero: without
  `onPremisesSyncEnabled` an account counts as a cloud account.
- The check for risky AI agents matches the text of Conditional Access policies, disabled
  ones included (`identity_manual.py:61`).
- The parity ratio uses a list of dead rules that is cut at 25 (`sentinel_parity.py`), the
  dead-rule ratio counts all. When the usage of tables could not be read but the catalog of
  expectations could, every rule counts as dead; without both, the check passes.
- The fallback to the list of tables reads its first page only
  (`runtime_collect_sentinel.py:279`), and then every listed table counts as ingesting.

Conditional Access:

- Nothing looks at the locations a policy is limited to, the applications it excludes, the
  authentication flow (outside the device code check), the rest of the legacy clients
  or of the privileged roles, or the other risk. `NotRead` lists these; a policy so narrowed
  still passes.
- An OR of several controls, and users listed one by one, are not recognised
  (`NotRecognised`): a false gap, on the safe side.
- One policy that excludes somebody without justification takes the pass away from
  another one that excludes nobody; turning it off turns *partial* into *ok*
  (`TurningOffNeverPasses` excepts it). For the privileged gaps check, making it
  report-only turns *gap* into *partial*.
- The check for Identity Protection credits a risk policy whatever else it asks for and
  whomever it is for. The one for break-glass accounts does not ask whether the
  account is excluded from any policy.

Wizard and installer:

- An unknown profile raises before the wizard's `try` statement (`ui/state.py:252`):
  the worker ends and the status stays "scanning". `ScanEnds` excepts it by name.
- Directories are named by the second and chosen before they are made
  (`ui/state.py:149`, `output.py:45`): a diff on its request thread and the worker may
  choose the same one, and one report replaces the other. `DemoScansPreserved` is
  about the worker's scans.
- A POST `/demo` between a diff's two scans changes the profile of the second
  (`ui/pages.py:258`).
- The installer overwrites the launcher in place (`psm1:453`), so that a crash can tear
  it; refuses to repeat an install that crashed between the rename and the record
  without `-Force` (`psm1:530`), which an update cannot pass; and records a PATH entry
  the user had before as its own (`psm1:581`), so that an uninstall removes it.
  `AddedEntryGoes` is about the converse.
- A second uninstall throws when the user's own file keeps the root (`psm1:640`).

## What is not modelled

- **Batch runs and report directories** (`batch.py`, `output.py`): a loop over scans. What is
  hard about it, two scans that choose one directory, is in `WizardSession`.
- **Report writers, view models, bundle, redaction, ranking**: output of one scan, computed
  without further state. Whether a *number* in them is right is `ScanRun`'s roll-up; the rest
  is layout and wording.
- **Scan diff** (`diff_report.py`): compares two finished reports. It ranks an error as better
  than a gap (`diff_report.py:63`), which is a choice nothing in the repository contradicts.
- **Catalog contents and YAML validation**: data, with tests of their own.
- **Command line, prompts, doctor, MCP server**: they parse options and call the pipeline, and
  keep nothing between calls.
- **Authentication**: delegated to the Azure identity library; its failures are actions of
  `GraphClient` and `ScanRun`.
- **Page walks of the ARM and Defender clients**: the loop of `GraphClient` without its flag;
  that a cut is silent needs no model.
- **KQL and Maester importers, provenance scanner**: parsers. What follows from the tables
  found in a query is in `PlatformChecks`.
- **Release receipts, guards, maintenance scripts**: run by maintainers, outside the product.
- **Runtimes whose evidence no check asks for** (see [Graph evidence](#behaviours-to-know)).

## Plan

Done: planner, Graph client, scan run with its rules, privileged access, bridge, the policy
and Graph checks, Conditional Access, wizard, installer; the proofs of their safety properties,
but for the four of `policy` named [above](#only-model-checked).

Next, modelling: a batch of scans over the report directories (a tenant that fails after its
directory was made); the bundle with its manifest; release receipts as a protocol.

Next, proofs: `DisabledPoliciesDoNotCount` and `RowOrderIsIrrelevant` for the evaluators that quantify over
rows and do not fold over them; the order of the findings that `Sorted` gives to the rules.
