# TLA+ models of the metric derivation engine

This directory holds TLA+ models of the recording-rule engine in
`src/constructor/queries.go`, of its query catalogue, of the RBAC action
builders in `src/rbac`, of the application-type tables in `src/model` and
of the Keep alert client in `src/keep`,
with the TLC configurations that check them.
`PROJECT.json` lists every component, run, mutant, finding and hazard. Its
`map` ties each TLA+ definition to the source lines it translates.

## 1. The system

The repository is a Go prototype of a root-cause-analysis back end. It has
these parts:

| Part | Source | State changed | Concurrency |
|------|--------|---------------|-------------|
| Query catalogue (`QUERIES`, `Q`, `qItoI`, PromQL builders) | queries.go 41-395 | none (a static table the fetcher dispatches) | none |
| Recording rules (`RecordingRules`) | queries.go 397-675 | none: pure functions of the World | rules run one after another |
| Categories rule | queries.go 619-636 | project settings (in memory, then `SaveProjectSettings`) | one writer at a time (spec §5) |
| SLO reconciler (`updateAvailability/LatencySLOFromAnnotations`) | queries.go 638-644, 677-765 | check configs (`SaveCheckConfig`) | one writer at a time (spec §5) |
| Time-series algebra (`timeseries` package) | not in the repository; spec §4.A | none | none |
| RBAC action builders | src/rbac | Object maps allocated and filled per call | none |
| Application types | src/model/application_types.go | none (classification switches over a label value) | none |
| Keep alert client (`SendAlert`) | src/keep | alerts stored at Keep, through an HTTP POST with a 10 s client timeout | the caller blocks in `Do`; Keep and the network act meanwhile |
| Bedrock/Strands mocks | src/bedrock, src/strands | none (string formatting) | none |

**How the parts interact.** A caller builds a `World` snapshot: the
applications, their instances, their upstream connections and their series.
It then calls every entry of `RecordingRules` on that World. The derivation
rules read the World and return `[]MetricValues`. Two rules write to the
settings store instead:
- the categories rule writes project settings;
- the SLO rule writes check configs.

The SLO rule reads the check configs that the previous evaluation stored.
That makes it the one stateful protocol of the system: a loop of evaluations
against a store, with annotations the user may edit between evaluations.

**What is hard in this code.** None of it is visible in a unit test that
runs one rule once:
- Emission order comes from Go map iteration, which is random.
- The nil-destination skip and the auxiliary-category skip decide which
  upstreams count.
- The net-latency mean is weighted by coverage.
- The SLO handler compares a fresh config with the stored one, using struct
  equality over float32 fields.
- The latency handler reuses stored values when annotations are absent.
- A failed save is only logged.
- The result must converge and be idempotent over many evaluations.

## 2. Modules

| Module | Models | Kind |
|--------|--------|------|
| `TimeSeries` | NanSum, IsEmpty, Aggregate, Defined, Div (spec §4.A; `spec_modelled`) | operators |
| `DerivationWorld` | the World (constants and the bounded set `Worlds`), rule names, label helpers | definitions |
| `DerivationSpec` | what each derivation rule promises (spec §4.E), as a set of series per rule | abstract spec |
| `Derivation` | the log-messages, TCP, net-latency, L7 requests, L7 latency, L7 histogram and traffic rules | state machine, refines `DerivationSpec` |
| `MC_Derivation` | model values and small series sets for `Derivation` | MC module |
| `Categories` | the application-categories rule across evaluations, the settings store, the caller's load, UI edits | state machine |
| `MC_Categories` | category model values | MC module |
| `ParseObjective` | `parseObjective` over character strings, with `strings.TrimSpace/TrimRight` and `strconv.ParseFloat` | operators and a generator |
| `Rbac` | the RBAC builders: a heap of Object maps, each builder chain, `Actions.List()` | state machine |
| `MC_Rbac` | project ids and names for `Rbac` | MC module |
| `SLOReconciler` | the SLO rule: both handlers, the parsers, the store, repeated evaluations, user edits, failed saves | state machine |
| `MC_SLOReconciler` | annotation and bucket sets for `SLOReconciler` | MC module |
| `Catalogue` | `Q`, `qItoI`, the L7 template groupings and every grouped `QUERIES` entry; the fetcher dispatching them | operators and a generator |
| `ApplicationTypes` | the `ApplicationType` constants, `IsDatabase`, `IsQueue`, `IsLanguage`, `Weight`, `InstrumentationType`, `AuditReport` | operators and a generator |
| `MC_Pure` | `ParseObjective`, `Catalogue` and `ApplicationTypes` side by side, one moving at a time | MC module |
| `Keep` | `NewClient` and `SendAlert`, with Keep, a lossy network and a retrying caller as environment | state machine |
| `MC_Keep` | alerts and base URLs for `Keep` | MC module |

### TimeSeries

A series is a function `1..N -> Int \cup {NaN}`. float32 rounding is left
out: samples are integers, so sums are exact and associative.

`Div` returns a reduced fraction `<<num, den>>`. That lets a mean computed
one way be compared exactly with a mean computed another way.

The package is not under `src/`, so every definition is marked
`spec_modelled`.

### Derivation

`w` is the World. Its fields:
- `remote[u]`: `u.RemoteApplication()`, or `Nil`;
- `aux[app]`: `Category.Auxiliary()`;
- one series per connection, protocol, status or le for each rule input;
- the traffic series.

`Init` picks any World from the bounded set `Worlds`. There is one
`RunRule(r)` action per rule. Its effect is the whole handler: the loops,
the nil skip, the per-application or global map, and the emptiness filter.
Go's `for k, v := range m` is modelled by letting the action choose any
permutation of the map's keys (`IterationOrders`). That is why `out[r]` is
one of a set of possible sequences. `Reevaluate` runs the same World again
and keeps the previous outputs in `prev`.

The log-messages rule loops over applications, over the severity map and,
when a severity has patterns, over the pattern map; a series is kept when
`Reduce(NanSum) > 0`. Severities and patterns are model values; the free-text
pattern labels (multiline, similar, sample, words) are abstracted to the
pattern's identity.

### DerivationSpec and the refinement

`DerivationSpec` is the abstract specification. Its state is the World and
`emitted[r]`, the *set* of series rule `r` returned (or `NotRun`).
`SpecOutput(r)` restates spec §4.E for each rule declaratively: no maps and
no loops, only sets of label/series pairs per logical key. `Emit(r)` sets
`emitted[r]`; `Again` starts a new evaluation of the same World.

`Derivation` instantiates it with the refinement mapping
`emitted <- [r \in Rules |-> IF out[r] = NotRun THEN NotRun ELSE Range(out[r])]`
and every passing Derivation run checks `Refinement == Abs!Spec` as a
temporal property: every step of the code-level model is a step (or a
stutter) of the abstract one. The mapping forgets the order of the series,
which is exactly what the abstract spec leaves open (finding 3). The seven TCP rules all call `aggConnections`, each with a
different accessor, so `rr_connection_tcp_successful` stands for all seven.

### Categories

`db` is the stored `ApplicationCategorySettings` (per category: `Missing`,
`NilSetting` or `Custom`); `mem` is the caller's `p.Settings`; `worldCats`
the categories of the World. `LoadProject` is the caller handing `p` to an
evaluation: reloaded from the store, or (constant `ReloadProject = FALSE`)
the one it used before. `ApplicationCategories` is the whole handler: a nil
entry for each category without a key, `needSave` iff one was added, then
`SaveProjectSettings`, which stores `p`'s settings whole or fails (counted,
at most `MaxSaveFailures`) and is only logged. `UserEdit(c)` is a UI write to
the store; with `EditsDuringEvaluation = FALSE` it happens only between
evaluations. The caller and the UI are not in the sources and are modelled
from spec §5.

The retry of a failed save depends on the caller. With
`ReloadProject = FALSE` (the caller keeps `p`), TLC finds
`CategoriesPersisted` violated: the keys are already in `p.Settings`, so
`needSave` stays false and the store never gets them. The spec does not say
whether the caller reloads `p`, and the caller is not in the repository, so
the checked run reloads and this case is recorded here and as a hazard.

### ParseObjective

`s` is the annotation text, built by `Type(c)` and `Erase` so that every
string of up to `MaxLen` characters over digits, `.`, `%` and a blank is
reached. `TrimLeft`, `TrimRight` and `TrimSpace` are the `strings` functions
with a cutset; `ParseFloat` accepts a decimal literal (digits, at most one
point, at least one digit) and otherwise returns 0 and an error, as the code
does. Values are reduced decimals `<<num, scale>>`. Signs, exponents,
`Inf`/`NaN` (the latter is checked in `SLOReconciler`) and float32 range are
left out.

### Catalogue

A `Query` is a record `[name, by, labels, itoi]`. `labels` is the `Labels`
set `Q` builds: the six baseline labels plus the labels passed; `qItoI`
appends `app_id` and sets `InstanceToInstance`. The PromQL text is
abstracted to `by`, the labels its `sum by(...)`/`avg by(...)` keeps; the
four shared templates (`l7Req`, `l7ReqWithMethod`, `l7Latency`,
`l7Histogram`) are their groupings. The entries are built as the source
builds them: `FqdnQueries` (line 157), `NetQueries` (229-236), `L7Queries`
(one count, latency and histogram entry per protocol, and the two queue
`messages` entries, 240-274) and `DestQueries` (276-280). The variable `q`
is the query the fetcher (spec §4.C) dispatches; `Dispatch` moves to any
entry, so an invariant over `q` is checked on every entry.

### ApplicationTypes

An `ApplicationType` is the string of the `container_application_type`
label, so `AllTypes` is the 35 declared constants plus two strings no
switch names (`kube-proxy`, `custom`). `Weight` is the switch with its
first-match order kept (each case guarded by the negation of the earlier
ones); `InstrumentationType` and `AuditReport` are their switches, with the
`AuditReportName` values named by their report. `observed` is the type a
container last reported; `Observe` moves to any type.

### MC_Pure

`ParseObjective`, `Catalogue` and `ApplicationTypes` are independent. Their
product would be 3,906 × 48 × 37 states, so `MC_Pure` checks their sum:
in every step one of them moves while the other two rest at a fixed value
(`q0`, `at0`, or the empty string), and every state of each is reached.

### Rbac

Go maps are references. `heap` is the sequence of Object maps allocated so
far; an action's `object` is an address into it. A builder chain is a call
record (scope, verb, and the keys its `object()` adds); `MakeAction` takes
the project's fresh map from `projectObject` and writes the call's keys into
it, as `ApplicationActionSet.object()` does. `Build(id, c)` runs one chain;
`List` runs `ActionSet.List()` on the same heap. `built` keeps every returned
action with the contents its map had when returned.

### SLOReconciler

The state is:
- `ann[a]`: the three annotations;
- `availStore[a]` and `latStore[a]`: the stored configs;
- `pending`: the (application, handler) calls left in the current
  evaluation, in `w.Applications` order;
- `running`;
- `wrote` and `failed` for the current evaluation;
- `applied`: the last evaluation completed without a failed save and the
  annotations have not changed since;
- two bounded counters: `annChanges` and `saveFailures`.

The annotation values are `NoAnn` (the empty string), `Junk` (a parse
error), `NaNText` (the text "NaN", which parses), or a number. A number
stands for an objective percentage or for a duration in milliseconds.

The model translates these pieces of the code:
- `parseObjective` and `parseThreshold`, including the ParseFloat-returns-0
  error path;
- rounding up to the default buckets;
- `cfg == cfgSaved` as field-wise equality where NaN never equals itself
  (`ConfigEqual`);
- both handlers, with their early returns.

Each handler call is one action.

`SaveCheckConfig` either stores the config or fails. A failure is
counted, and it is only logged, as in the code.

`ChangeAnnotations` is a user edit. It happens only between evaluations:
spec §5 says the World is a snapshot.

### Keep

`SendAlert` is split at `c.client.Do`. `SendAlert(a)` is everything before
it: the mock client (`baseURL == ""`) returns nil; `json.Marshal` fails for
an alert in `BadAlerts` (a `StartsAt` outside years 0-9999); `NewRequest`
fails for a base URL in `BadURLs`; otherwise the POST joins `net` and the
client waits (`pc = "waiting"`). `Receive` is `Do` returning the answer to
the current attempt followed by the status check (`Accepted`: 200 or 201);
`Timeout` is `Do` returning an error once the client's `Timeout` (10 s,
`ClientTimeout`) expires. Every attempt has an id: the Go transport closes
the connection of a timed-out request, so its answer is never read by a
later call. `results` records what every call returned.

The rest is environment, not code of the repository, and is not in the
map: `Store` (Keep stores the alert and answers 200 or 201), `Reject`
(another status, nothing stored), `Lose` (a request or answer lost), and
`Call`, the caller, which sends an alert that has not yet returned nil,
so an alert whose call failed may be sent again. No caller of `SendAlert`
exists in the repository; this is the retry any caller needs to deliver
an alert at least once.

## 3. Runs

| Run | Cfg | Expect | Shows |
|-----|-----|--------|-------|
| slo_reconcile | SLOReconciler.cfg | pass | after each evaluation without a failed save, the stores match the annotations; writes eventually stop |
| slo_idem_threshold | SLOReconciler_idem_threshold.cfg | violation | an invalid threshold-only annotation is written twice, and its error is then erased |
| slo_idem_nan | SLOReconciler_idem_nan.cfg | violation | a "NaN" objective is written on every evaluation |
| derive_connections | Derivation_connections.cfg | pass | TCP sums and coverage-weighted net latency refine the spec; labels are unique |
| derive_l7 | Derivation_l7.cfg | pass | L7 grouping per (dest, proto, status) refines the spec, with two protocols and two statuses, so summing across either key is caught; labels are unique |
| derive_histogram | Derivation_histogram.cfg | pass | histogram merge over protocols and the auxiliary skip refine the spec; labels are unique |
| derive_app | Derivation_app.cfg | pass | the log rule emits per severity or per pattern, only positive sums, and traffic exactly the non-empty kinds; labels are unique |
| categories_persist | Categories.cfg | pass | with a reload before each evaluation, every category is eventually stored despite failed saves, and no UI edit is lost |
| categories_lost_update | Categories_lost_update.cfg | violation | a UI edit between load and save is overwritten |
| pure_functions | Pure.cfg | pass | parseObjective accepts exactly blanks, decimal, blanks, `%`*, blanks, so `"0%%"` parses and `"0% %"` does not (findings 5 and 6); every grouped catalogue entry keeps what it groups by and is flagged instance-to-instance exactly when it is an edge; every application type has one weight class and its instrumented type's audit report |
| rbac_actions | Rbac.cfg | pass | builders never alter an action returned earlier; `List()` names every action and offers every declared scope |
| keep_send | Keep.cfg | pass | `SendAlert` returns nil only for a stored alert; an alert is stored twice only after a timed-out call |

### Properties

- `ReconciledWithAnnotations` (invariant). It holds when no evaluation is
  running and the last one applied. For each annotated application, the
  stored availability config must be what spec §4.E prescribes for the
  annotation:
  - the source is the annotations;
  - the error is set exactly when the objective does not parse;
  - the objective is then 0.

  The latency config gets the same check, with the threshold rounded up to a
  bucket. Violating it takes an edit, a failed save, and a later evaluation
  that skips the write.
- `Converges` (liveness). Eventually no evaluation writes. It needs the save
  failures and edits to be finite, and the evaluation loop to be fair.
- `IdempotentReapply` (action property, spec §4.F). Once an evaluation has
  applied the annotations and nothing has changed since, the next one does
  not write.
- `Refinement`. `Derivation` implements `DerivationSpec` under the mapping
  above: the set of series each rule returns is `SpecOutput`.
- `CategoriesPersisted` (liveness, spec §4.E). Eventually the store holds an
  entry for every category of the World, and keeps it.
- `UserEditsKept`. A category the user configured keeps the user's value:
  the rule's read-modify-write never puts an older value back.
- `AcceptedForm`. parseObjective's result equals a grammar-level reference:
  blanks, a decimal, blanks, any number of `%`, blanks, with the decimal's
  value; anything else is an error with value 0.
- `ObjectsUnshared`. The object of every action returned earlier still has
  the contents it was returned with.
- `ListComplete`. Once `Actions.List()` has run, it names every (scope,
  verb) any builder returned, with wildcard names.
- `ListCoversScopes`. Once `List()` has run, the scopes it offers are
  exactly the `Scope` constants of action.go other than the wildcards `*`
  and `project.*`: a scope declared and never listed could not be granted.
- `LabelsCoverGrouping` (spec §8.6). Every label a grouped entry's template
  keeps is in the entry's `Labels`, so the fetcher does not drop it. Breaking
  it takes a change to the shared helper `qItoI`, which no single entry shows.
- `EdgeQueriesFlagged` (spec §3). `InstanceToInstance` is set exactly on the
  entries whose grouping keeps `app_id` with a destination label.
- `WeightOfClass`. Each type is in at most one of the database, queue and
  language lists (or is envoy), and `Weight` is that class's weight: the
  switch's first-match order never decides.
- `AuditFollowsInstrumentation`. A type instrumented as another (mongos,
  valkey, keydb, dragonfly) has that type's audit report.
- `UniqueLabelsHash` (spec §3). No two series in one rule's output have the
  same labels. The signature is a function of the labels.
- `Deterministic` (spec §8.3, defined in `Derivation`, no run). Re-running
  a rule on the same World gives the same sequence. `Emit` takes every Go
  map iteration order, so it fails on the first `Reevaluate` (finding 3).
- `AcceptedWhenNil`. A nil return from a real client means Keep stored that
  very attempt's alert.
- `DuplicateOnlyAfterTransportError`. Keep holds an alert twice only if an
  earlier call for it timed out in `Do`; an error from the status check
  never follows a store. Treating 201 Created as a failure breaks it.

Every property of a passing run has a mutant in `PROJECT.json`: a plausible
bug in the mapped code that TLC finds.

### Bounds and why they suffice

- SLO: one application. The handlers treat applications independently, and
  the only cross-application coupling is the order of `pending`. The
  annotation sets hold every branch of the parsers:
  - absent;
  - junk;
  - 0 (disables the threshold branch);
  - a valid number;
  - "NaN" in its own run;
  - for the threshold, a value on a default bucket and one between two
    buckets.

  `MaxAnnChanges = 1` and `MaxSaveFailures = 1` allow an edit and a failed
  save in the same behaviour. The run has 125,096 distinct states.
- L7 run: two protocols and two statuses, so both keys are split. To keep
  the Go map orders enumerable, its Worlds (`MCWorldsL7`) let the two
  upstreams of application `a` resolve to one destination at most, each
  with at most one non-empty request series and one non-empty latency
  series; two upstreams can then differ in protocol, in status, or agree
  and be summed. The per-destination split is checked by the TCP and
  net-latency run. 16,576 distinct states.
- Derivation: two applications, two or three connections, and two points
  per series. The series sets hold the three cases that matter to NanSum:
  - all NaN;
  - partly NaN;
  - fully defined.

  Three connections give two instances of one application with upstreams to
  the same destination, which is the aggregation case. `remote` ranges over
  both applications and `Nil`, so self-calls and unresolved upstreams are
  included. The histogram run enumerates every auxiliary assignment and two
  protocols, to cover the skip and the merge.

- Log and traffic rules: one application (both rules compute each
  application's series from that application alone, and the application id
  is a label of every series), two severities, two patterns, and series
  that sum to NaN, to 0 and to a positive value; every severity is run both
  with and without patterns, and every traffic kind empty and non-empty.
  238,208 distinct states.
- Categories: three categories, any subset observed, two save failures and
  two UI edits: enough for a failure followed by a retry, and for an edit
  before, between and after evaluations. 1,259 distinct states.
- Pure functions: every string of up to five characters over `0`, `1`, `.`,
  `%` and a blank (3,906 strings; the shortest counterexamples to spec §4.E
  have three and four characters), every one of the 48 grouped catalogue
  entries, and every declared application type plus two undeclared ones.
  No bound applies to the last two: they are checked on every input. 3,989
  distinct states.
- Rbac: projects `""` and `p`, names `*` and `n`, at most two maps from
  single builder calls (a second project map is what aliasing needs), and
  `List()` (20 actions) after them. 37,613 distinct states.
- Keep: two alerts, one of which `Marshal` refuses; the initial state picks
  the mock, a malformed or a working base URL; one refusing status; four
  calls, enough for a timed-out call whose POST Keep stores later followed
  by a retry, and for a refusal followed by a retry. The caller's calls are
  bounded, so the system stops, and the cfg says `CHECK_DEADLOCK FALSE`.
  8,895 distinct states.

### Fairness

`Spec` of `SLOReconciler` assumes `WF_vars(Evaluate)`. The constructor
evaluates periodically, and the rule's loop over applications always runs to
the end: there is no early exit from `RecordingRules[qRecordingRuleApplicationSLO]`.

User edits and save failures get no fairness. They are bounded, so that
`Converges` asks what happens once they stop.

`Categories` assumes `WF_vars(Evaluate)` for the same reason: the
constructor evaluates periodically and the handler has no blocking step.
Save failures and UI edits are bounded and get no fairness.

`Derivation` (and its refinement of `DerivationSpec`), `MC_Pure`, `Keep`
and `Rbac` check only safety properties and assume no fairness.

## 4. Findings

1. **Threshold-only invalid annotation** (queries.go:716-724). The first
   evaluation stores an `Error` and an objective of 0. The second starts from
   the stored objective 0, never parses the threshold, erases the `Error` and
   writes again. This breaks spec §4.F (no write on unchanged annotations)
   and §7 (invalid annotations are recorded).
2. **"NaN" objective** (queries.go:754, 696). `strconv.ParseFloat` accepts
   `NaN`, and `cfg == cfgSaved` is false for a NaN field. The config is
   therefore saved on every evaluation (spec §4.F), and a non-number is
   accepted (spec §4.E).
3. **Non-deterministic output order** (queries.go:666 and the other
   `range` loops over maps). This contradicts spec §8.3. The model shows it
   by construction (`Emit` takes every iteration order), so no run is
   spent on it: `Derivation_l7.cfg` with `Deterministic` as its invariant
   fails after one evaluation and one re-evaluation of a World with two
   series.
4. **Lost UI update** (queries.go:631). `SaveProjectSettings(p)` writes the
   whole settings read before the evaluation, erasing a UI edit made in
   between. Spec §5 serialises only rule writers.
5. **`%%` accepted** (queries.go:753). `TrimRight` strips every trailing
   `%`; spec §4.E allows a single one.
6. **Spec §8.5 fails** (queries.go:753). `"0% "` parses to 0 but
   `"0% %"` is an error: the outer `TrimSpace` runs before the `%` trim.

## 5. Not modelled, and the plan

Next, for later work: an `Evaluation` module composing the derivation
rules, the categories rule and the SLO rule in one `RecordingRules` pass, to
check that rule order does not change outputs (spec §5).

Not modelled:
- the `QUERIES` entries without a grouping, and the helpers only they use
  (`qPod`, `qRDS`, `qDB`, `qJVM`, `qDotNet`, `qFargateContainer`): they keep
  every label of the series, so spec §8.6 says nothing of them;
- `ApplicationType.Name`, `Icon` and `IsCorootComponent`, which choose
  display strings. Two observations from modelling, not findings because
  nothing states otherwise: `mongos` weighs 3 while `mongodb`, its
  instrumentation type, weighs 1; `Icon` gives `valkey` its own icon while
  `keydb` and `dragonfly` get redis's;
- `src/api/views/views.go`: each function forwards to a package outside
  the repository, and no state changes;
- the Bedrock and Strands mocks, which only format strings;
- float32 rounding, which TLC cannot represent faithfully.
