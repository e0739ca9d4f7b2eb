--------------------------- MODULE SLOReconciler ---------------------------
(***************************************************************************)
(* The rr_application_slo recording rule (src/constructor/queries.go,      *)
(* lines 638-644, 677-765) across successive evaluations.                  *)
(*                                                                         *)
(* Each evaluation reloads the World, whose CheckConfigs are the configs   *)
(* persisted in the settings store, and runs, application by application, *)
(* updateAvailabilitySLOFromAnnotations then                               *)
(* updateLatencySLOFromAnnotations.  Each handler builds a config from the *)
(* annotations, compares it with the stored one (Go struct equality,       *)
(* under which NaN # NaN) and calls SaveCheckConfig when they differ; a    *)
(* failed save is only logged.  Between evaluations the user may edit the  *)
(* annotations.                                                            *)
(*                                                                         *)
(* Annotation texts are abstracted to what parseObjective/parseThreshold   *)
(* make of them: NoAnn is the empty/missing annotation, Junk a text that   *)
(* does not parse, NaNText a text strconv.ParseFloat accepts as NaN        *)
(* ("NaN"), an integer n a well-formed percentage (objective) or duration  *)
(* in milliseconds (threshold).                                            *)
(***************************************************************************)
EXTENDS Integers, SequencesExt

CONSTANTS
    Apps,             \* the applications of the World (model values)
    ObjAnnotations,   \* possible objective annotation texts
    ThrAnnotations,   \* possible threshold annotation texts
    StoredObjectives, \* objective percentages a stored config may hold
    DefaultBuckets,   \* model.DefaultLatencyBuckets, ascending, in ms
    NoAnn, Junk, NaNText, NaN,
    MaxAnnChanges,    \* bound on annotation edits by the user
    MaxSaveFailures   \* bound on failed SaveCheckConfig calls

ASSUME /\ ObjAnnotations \subseteq (Nat \cup {NoAnn, Junk, NaNText})
       /\ ThrAnnotations \subseteq (Nat \cup {NoAnn, Junk})
       /\ StoredObjectives \subseteq Nat
       /\ MaxAnnChanges \in Nat /\ MaxSaveFailures \in Nat

\* The order of w.Applications: the populator's, fixed for the model.
AppOrder == SetToSeq(Apps)

\* model.CheckConfigSource values and the Error texts (abstracted to the
\* annotation they name; the wrapped parse error text is left out).
SrcDefault == "default"
SrcAnnotations == "kubernetes-annotations"
ErrAvailObjective == "Invalid annotation 'coroot.com/slo-availability-objective'"
ErrLatObjective == "Invalid annotation 'coroot.com/slo-latency-objective'"
ErrLatThreshold == "Invalid annotation 'coroot.com/slo-latency-threshold'"
Errors == {"", ErrAvailObjective, ErrLatObjective, ErrLatThreshold}
Floats == Nat \cup {NaN}

AvailabilityConfigs ==
    [source : {SrcDefault, SrcAnnotations}, custom : BOOLEAN,
     error : Errors, objective : Floats]
LatencyConfigs ==
    [source : {SrcDefault, SrcAnnotations}, custom : BOOLEAN,
     error : Errors, objective : Floats, bucket : Range(DefaultBuckets)]
Annotations ==
    [availObjective : ObjAnnotations, latObjective : ObjAnnotations,
     latThreshold : ThrAnnotations]

VARIABLES
    ann,         \* ann[a]: the SLO annotations of application a
    availStore,  \* persisted CheckConfigSLOAvailability per application
    latStore,    \* persisted CheckConfigSLOLatency per application
    pending,     \* handler calls left in the running evaluation; <<>> = idle
    running,     \* an evaluation is in progress
    wrote,       \* a SaveCheckConfig call was made in this evaluation
    failed,      \* a SaveCheckConfig call failed in this evaluation
    applied,     \* last evaluation ran with no failed save on the current ann
    annChanges, saveFailures

vars == <<ann, availStore, latStore, pending, running, wrote, failed,
          applied, annChanges, saveFailures>>

(***************************************************************************)
(* Conversions and comparisons, as the code does them.                     *)
(***************************************************************************)

\* float32 comparison: any comparison with NaN is false.
FloatEq(x, y) == x = y /\ x # NaN
Positive(x) == x # NaN /\ x > 0

\* parseObjective: TrimSpace/TrimRight "%" then strconv.ParseFloat, which
\* yields 0 and an error on a syntax error and NaN, no error, on "NaN".
parseObjective(s) ==
    CASE s \in Nat   -> [v |-> s, err |-> FALSE]
      [] s = NaNText -> [v |-> NaN, err |-> FALSE]
      [] OTHER       -> [v |-> 0, err |-> TRUE]

\* model.RoundUpToDefaultBucket: the first default bucket >= v, else the last.
RoundUpToDefaultBucket(v) ==
    LET up == {i \in DOMAIN DefaultBuckets : v <= DefaultBuckets[i]}
    IN IF up = {} THEN DefaultBuckets[Len(DefaultBuckets)]
       ELSE DefaultBuckets[CHOOSE i \in up : \A j \in up : i <= j]

\* Defect variant: the parsed duration is used without rounding up.
parseThresholdUnrounded(s) ==
    IF s \in Nat THEN [v |-> s, err |-> FALSE] ELSE [v |-> 0, err |-> TRUE]

\* parseThreshold: time.ParseDuration, then round up to a default bucket.
parseThreshold(s) ==
    IF s \in Nat THEN [v |-> RoundUpToDefaultBucket(s), err |-> FALSE]
                 ELSE [v |-> 0, err |-> TRUE]

\* Defect variants of cfg == cfgSaved: comparing only the objective, and
\* comparing the addresses of the two copies (never equal).
ConfigEqualObjectiveOnly(c, d) == FloatEq(c.objective, d.objective)
ConfigEqualByAddress(c, d) == FALSE

\* cfg == cfgSaved: field-wise struct equality, floats compared as floats.
ConfigEqual(c, d) ==
    /\ DOMAIN c = DOMAIN d
    /\ \A f \in DOMAIN c \ {"objective"} : c[f] = d[f]
    /\ FloatEq(c.objective, d.objective)

(***************************************************************************)
(* The configs the two handlers build (lines 683-695 and 711-735).         *)
(***************************************************************************)
AvailabilityFromAnnotations(objectiveStr, cfg) ==
    LET p == parseObjective(objectiveStr)
        error == IF p.err THEN ErrAvailObjective ELSE ""
    IN [cfg EXCEPT !.source = SrcAnnotations, !.custom = FALSE,
                   !.error = error,
                   !.objective = IF error # "" THEN 0 ELSE p.v]

LatencyFromAnnotations(objectiveStr, thresholdStr, cfg) ==
    LET po == IF objectiveStr # NoAnn THEN parseObjective(objectiveStr)
              ELSE [v |-> cfg.objective, err |-> FALSE]
        err1 == IF po.err THEN ErrLatObjective ELSE ""
        pt == IF Positive(po.v) /\ thresholdStr # NoAnn
              THEN parseThreshold(thresholdStr)
              ELSE [v |-> cfg.bucket, err |-> FALSE]
        error == IF pt.err /\ err1 = "" THEN ErrLatThreshold ELSE err1
    IN IF error # ""
       THEN [cfg EXCEPT !.source = SrcAnnotations, !.custom = FALSE,
                        !.error = error, !.objective = 0]
       ELSE [cfg EXCEPT !.source = SrcAnnotations, !.custom = FALSE,
                        !.error = "", !.objective = po.v, !.bucket = pt.v]

(***************************************************************************)
(* Initial states: any annotations, and stored configs as the UI or the    *)
(* defaults leave them (no annotation-derived error yet).                  *)
(***************************************************************************)
Init ==
    /\ ann \in [Apps -> Annotations]
    /\ availStore \in [Apps -> [source : {SrcDefault}, custom : BOOLEAN,
                                error : {""}, objective : StoredObjectives]]
    /\ latStore \in [Apps -> [source : {SrcDefault}, custom : BOOLEAN,
                              error : {""}, objective : StoredObjectives,
                              bucket : Range(DefaultBuckets)]]
    /\ pending = <<>>
    /\ running = FALSE
    /\ wrote = FALSE
    /\ failed = FALSE
    /\ applied = FALSE
    /\ annChanges = 0
    /\ saveFailures = 0

(***************************************************************************)
(* Actions.                                                                *)
(***************************************************************************)

\* rr_application_slo starts: the World (annotations, CheckConfigs) is
\* loaded and the rule will visit every application in w.Applications.
StartEvaluation ==
    /\ ~running
    /\ running' = TRUE
    /\ pending' = [i \in 1..2 * Len(AppOrder) |->
                     <<AppOrder[(i + 1) \div 2],
                       IF i % 2 = 1 THEN "availability" ELSE "latency">>]
    /\ wrote' = FALSE
    /\ failed' = FALSE
    /\ UNCHANGED <<ann, availStore, latStore, applied, annChanges, saveFailures>>

\* SaveCheckConfig(p.Id, app.Id, checkId, [cfg]): it succeeds, or it fails
\* and the error is only logged.
SaveCheckConfig(store, a, cfg) ==
    /\ wrote' = TRUE
    /\ \/ /\ store' = [store EXCEPT ![a] = cfg]
          /\ UNCHANGED <<failed, saveFailures>>
       \/ /\ saveFailures < MaxSaveFailures
          /\ saveFailures' = saveFailures + 1
          /\ failed' = TRUE
          /\ UNCHANGED store

\* One handler call: build the config, return if it equals the stored one,
\* otherwise save it.
Reconcile(store, a, cfg, stored) ==
    \/ /\ ConfigEqual(cfg, stored)
       /\ UNCHANGED <<store, wrote, failed, saveFailures>>
    \/ /\ ~ConfigEqual(cfg, stored)
       /\ SaveCheckConfig(store, a, cfg)

updateAvailabilitySLOFromAnnotations ==
    /\ running /\ pending # <<>> /\ Head(pending)[2] = "availability"
    /\ LET a == Head(pending)[1]
           objectiveStr == ann[a].availObjective
       IN \/ /\ objectiveStr = NoAnn
             /\ UNCHANGED <<availStore, wrote, failed, saveFailures>>
          \/ /\ objectiveStr # NoAnn
             /\ Reconcile(availStore, a,
                          AvailabilityFromAnnotations(objectiveStr, availStore[a]),
                          availStore[a])
    /\ pending' = Tail(pending)
    /\ UNCHANGED <<ann, latStore, running, applied, annChanges>>

updateLatencySLOFromAnnotations ==
    /\ running /\ pending # <<>> /\ Head(pending)[2] = "latency"
    /\ LET a == Head(pending)[1]
           objectiveStr == ann[a].latObjective
           thresholdStr == ann[a].latThreshold
       IN \/ /\ objectiveStr = NoAnn /\ thresholdStr = NoAnn
             /\ UNCHANGED <<latStore, wrote, failed, saveFailures>>
          \/ /\ ~(objectiveStr = NoAnn /\ thresholdStr = NoAnn)
             /\ Reconcile(latStore, a,
                          LatencyFromAnnotations(objectiveStr, thresholdStr, latStore[a]),
                          latStore[a])
    /\ pending' = Tail(pending)
    /\ UNCHANGED <<ann, availStore, running, applied, annChanges>>

\* The rule returns; the World is discarded.
FinishEvaluation ==
    /\ running /\ pending = <<>>
    /\ running' = FALSE
    /\ applied' = ~failed
    /\ UNCHANGED <<ann, availStore, latStore, pending, wrote, failed,
                   annChanges, saveFailures>>

\* The user edits an application's annotations between two evaluations.
ChangeAnnotations(a, new) ==
    /\ ~running
    /\ annChanges < MaxAnnChanges
    /\ new # ann[a]
    /\ ann' = [ann EXCEPT ![a] = new]
    /\ annChanges' = annChanges + 1
    /\ applied' = FALSE
    /\ UNCHANGED <<availStore, latStore, pending, running, wrote, failed,
                   saveFailures>>

Evaluate ==
    \/ StartEvaluation
    \/ updateAvailabilitySLOFromAnnotations
    \/ updateLatencySLOFromAnnotations
    \/ FinishEvaluation

Next ==
    \/ Evaluate
    \/ \E a \in Apps, new \in Annotations : ChangeAnnotations(a, new)

\* The constructor evaluates the World periodically and the rule's loop
\* runs to completion: the evaluation steps are weakly fair; the user's
\* edits are not.
Spec == Init /\ [][Next]_vars /\ WF_vars(Evaluate)

(***************************************************************************)
(* Properties.                                                             *)
(***************************************************************************)

TypeOK ==
    /\ ann \in [Apps -> Annotations]
    /\ availStore \in [Apps -> AvailabilityConfigs]
    /\ latStore \in [Apps -> LatencyConfigs]
    /\ running \in BOOLEAN /\ wrote \in BOOLEAN /\ failed \in BOOLEAN
    /\ applied \in BOOLEAN
    /\ annChanges \in 0..MaxAnnChanges
    /\ saveFailures \in 0..MaxSaveFailures

\* After an evaluation that ran on the current annotations with every save
\* succeeding, the stored configs say what the annotations say (spec 4.E):
\* Source = KubernetesAnnotations, Custom = false; the parsed objective, or
\* 0 and the Error naming the bad annotation; for latency, the threshold
\* rounded up to a default bucket when the objective is positive, the
\* threshold error only when the objective parsed.  This ties the
\* cfg == cfgSaved early return and the field updates of both handlers
\* to the persisted result.
ReconciledWithAnnotations ==
    (~running /\ applied) =>
      \A a \in Apps :
        LET av == availStore[a]  lt == latStore[a]
            ao == ann[a].availObjective
            lo == ann[a].latObjective  th == ann[a].latThreshold
        IN /\ ao # NoAnn =>
                /\ av.source = SrcAnnotations /\ av.custom = FALSE
                /\ ao \in Nat => av.error = "" /\ av.objective = ao
                /\ ao = Junk => av.error = ErrAvailObjective /\ av.objective = 0
           /\ lo # NoAnn =>
                /\ lt.source = SrcAnnotations /\ lt.custom = FALSE
                /\ lo = Junk => lt.error = ErrLatObjective /\ lt.objective = 0
                /\ lo \in Nat /\ (lo = 0 \/ th = NoAnn) =>
                      lt.error = "" /\ lt.objective = lo
                /\ lo \in Nat /\ lo > 0 /\ th = Junk =>
                      lt.error = ErrLatThreshold /\ lt.objective = 0
                /\ lo \in Nat /\ lo > 0 /\ th \in Nat =>
                      /\ lt.error = "" /\ lt.objective = lo
                      /\ lt.bucket = RoundUpToDefaultBucket(th)

\* Once the user stops editing annotations, the reconciliation reaches a
\* fixed point: from some evaluation on, no handler calls SaveCheckConfig
\* again.  Failed saves are retried by the next evaluation because the
\* World is reloaded from the store.
Converges == <>[](~wrote)

\* Spec 4.F: reapplying unchanged annotations produces no write.  Once an
\* evaluation has run on the current annotations with every save
\* succeeding, no later evaluation calls SaveCheckConfig until the
\* annotations change.
IdempotentReapply == [][applied /\ running => ~wrote']_vars

=============================================================================
