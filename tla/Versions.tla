------------------------------ MODULE Versions ------------------------------
(***************************************************************************)
(* Versioned modules and values of objects/versions: which version of them *)
(* is in force at a time.  A version says when it was implemented, as a    *)
(* date or a moment: numpy keeps a number of units of that text's own, and *)
(* orders and converts them; it is external, as are import and packaging.  *)
(* And the experiments of mathematics/experiments, whose arms are such     *)
(* values: shares are whole numbers here, and their bounds are not rounded.*)
(***************************************************************************)
EXTENDS Integers, Sequences, SequencesExt, FiniteSets, TLC, Python

CONSTANTS
  Unit,      \* the moments that a unit of a timestamp has: 1 and longer ones
  MaxTime,   \* bound on moments
  MaxNumber, \* bound on the numbers of versions
  MaxSteps,  \* bound on the changes of the folder and of the experiments
  Experiment,
  Configs,   \* what an experiment may be: sequences of arms, a name and a share
  MaxValue   \* the values that ids are hashed to

VARIABLES
  folder,    \* what there is at v<n>: None, or the timestamp that is declared
  found,     \* the versions that were discovered last, in order, or None
  release,   \* the version string of the package: its three numbers
  experiments, \* the registry: the configuration of each experiment from each moment
  assigned,  \* history: the assignments that the registry still covers
  steps
ModuleVars == <<folder, found, release>>
ExperimentVars == <<experiments, assigned>>

Number == 0 .. MaxNumber
\* A timestamp: a number of units, which begins at a moment.
Timestamp == {t \in [unit : Unit, count : 0 .. MaxTime] : t.unit * t.count <= MaxTime}
Moment(t) == t.unit * t.count
Undeclared == [unit |-> 0, count |-> 0]  \* a module without __implemented__

VersionsInit ==
  /\ folder = [n \in Number |-> None]
  /\ found = None
  /\ release = <<0, 0, 0>>
  /\ experiments = [e \in Experiment |-> 1 :> CHOOSE config \in Configs : TRUE]
  /\ assigned = {}
  /\ steps = 0

Step == steps < MaxSteps /\ steps' = steps + 1

Publish(n, implemented) ==
  /\ Step
  /\ folder' = [folder EXCEPT ![n] = implemented]
  /\ UNCHANGED <<found, release, ExperimentVars>>

-----------------------------------------------------------------------------
\* Mutant of Before: by the numbers of the versions.
BeforeByNumber(v, w) == v.number < w.number
\* the order of the discovered: by the counts, of whatever unit, then the numbers
Before(v, w) ==
  \/ v.implemented.count < w.implemented.count
  \/ v.implemented.count = w.implemented.count /\ v.number < w.number

\* discover_versioned_modules: None when there is none
Discover ==
  LET declared == {n \in Number : folder[n] \notin {None, Undeclared}}
      versions == {[number |-> n, implemented |-> folder[n]] : n \in declared}
  IN
  /\ found' = IF versions = {} THEN None ELSE SetToSortSeq(versions, Before)
  /\ UNCHANGED <<folder, release, steps, ExperimentVars>>

\* resolve_module_version_index: the last that is not after the moment, by a search
\* that takes the moments for sorted; the first when there is none
SearchSorted(moments, at) ==
  LET n == Len(moments)
      search[low \in 1 .. n + 1, high \in 1 .. n + 1] ==
        IF low >= high THEN low
        ELSE LET middle == (low + high) \div 2 IN
             IF at < moments[middle] THEN search[low, middle] ELSE search[middle + 1, high]
  IN search[1, n + 1] - 1
Clipped(index, length) == IF index < 1 THEN 1 ELSE IF index > length THEN length ELSE index
ResolveModuleVersionIndex(moments, at) == Clipped(SearchSorted(moments, at), Len(moments))

\* resolve_versions
ResolveVersions(versions, at) ==
  versions[ResolveModuleVersionIndex([k \in DOMAIN versions |-> Moment(versions[k].implemented)], at)].number

\* resolve_version_indices: the moments of a mapping are sorted by numpy, as moments
ResolveVersionIndices(values, at) ==
  ResolveModuleVersionIndex(SetToSortSeq(DOMAIN values, <), at)

\* apply_func_to_versioned_value: what the function is called with for each element, the
\* element and the value of its own moment
ApplyToVersionedValue(array, moments, values) ==
  [i \in DOMAIN array |->
     <<array[i], values[SetToSortSeq(DOMAIN values, <)[ResolveVersionIndices(values, moments[i])]]>>]

\* bump_version_string
BumpVersion(part) ==
  /\ Step
  /\ release' = CASE part = "patch" -> [release EXCEPT ![3] = @ + 1]
                  [] part = "minor" -> <<release[1], release[2] + 1, 0>>
                  [] part = "major" -> <<release[1] + 1, 0, 0>>
  /\ UNCHANGED <<folder, found, ExperimentVars>>

ModulesNext ==
  \/ \E n \in Number, implemented \in Timestamp \cup {Undeclared} : Publish(n, implemented)
  \/ Discover
  \/ \E part \in {"patch", "minor", "major"} : BumpVersion(part)

-----------------------------------------------------------------------------
\* hash_to_experiment_value
HashToExperimentValue(hash) == hash % MaxValue

UpTo(config, k) == FoldLeft(LAMBDA sum, arm : sum + arm.share, 0, SubSeq(config, 1, k))
\* get_experiment_outcomes: the first arm whose bound is greater than the value
GetExperimentOutcomes(value, config) ==
  LET above == {k \in DOMAIN config : value * UpTo(config, Len(config)) < UpTo(config, k) * MaxValue}
  IN config[CHOOSE k \in above : \A j \in above : k <= j].name

\* assign_experiment
AssignExperiment(experiment, hash, at) ==
  LET call == ApplyToVersionedValue(<<HashToExperimentValue(hash)>>, <<at>>, experiments[experiment])[1]
  IN GetExperimentOutcomes(call[1], call[2])

Begins(e) == CHOOSE m \in DOMAIN experiments[e] : \A n \in DOMAIN experiments[e] : m <= n
\* parse_experiments, of one id, whose hashes are of the experiments' own
ParseExperiments(hashes, at) ==
  /\ Step
  /\ assigned' = assigned \cup
       {[experiment |-> e, hash |-> hashes[e], at |-> at, arm |-> AssignExperiment(e, hashes[e], at)] : e \in Experiment}
  /\ UNCHANGED <<experiments, ModuleVars>>

\* Someone gives an experiment another configuration from a moment on; from its first one,
\* or before, it is that of every earlier moment too.
Revise(e, at, config) ==
  /\ Step
  /\ experiments' = [experiments EXCEPT ![e] = at :> config @@ @]
  /\ assigned' = {a \in assigned : a.experiment # e \/ (a.at < at /\ Begins(e) < at)}
  /\ UNCHANGED ModuleVars

ExperimentsNext ==
  \/ \E hashes \in [Experiment -> 0 .. MaxValue], at \in 0 .. MaxTime : ParseExperiments(hashes, at)
  \/ \E e \in Experiment, at \in 0 .. MaxTime, config \in Configs : Revise(e, at, config)

-----------------------------------------------------------------------------
InForce(versions, at) ==
  LET past == {k \in DOMAIN versions : Moment(versions[k].implemented) <= at}
      latest == {k \in past : \A j \in past : Moment(versions[j].implemented) <= Moment(versions[k].implemented)}
  IN {versions[k].number : k \in latest}
SameUnits(versions) == \A k \in DOMAIN versions : versions[k].implemented.unit = versions[1].implemented.unit

(* The version in force at a moment is the one implemented last before it, *)
(* in whatever order they were published and numbered (versions,           *)
(* resolve_versions): as long as all of them say when in the same units,   *)
(* as discover_versioned_modules compares the counts of units; and a       *)
(* mapping of moments to values is resolved so in any case.                *)
VersionInForce ==
  found # None =>
    /\ SameUnits(found) =>
         \A at \in 0 .. MaxTime :
           LET inForce == InForce(found, at) IN
           inForce # {} => ResolveVersions(found, at) = CHOOSE n \in inForce : \A m \in inForce : m <= n
    /\ \A at \in 0 .. MaxTime :
         LET values == [m \in {Moment(found[k].implemented) : k \in DOMAIN found} |-> m]
             past == {m \in DOMAIN values : m <= at}
         IN past # {} =>
              ApplyToVersionedValue(<<at>>, <<at>>, values)[1][2]
                = CHOOSE m \in past : \A k \in past : k <= m

Count(config, name) ==
  Cardinality({value \in 0 .. MaxValue - 1 : GetExperimentOutcomes(value, config) = name})
Share(config, name) ==
  FoldLeft(LAMBDA sum, arm : IF arm.name = name THEN sum + arm.share ELSE sum, 0, config)

(* "arm configurations can change over time without altering existing      *)
(* subject assignments for dates already covered" (experiments,            *)
(* assign_experiment): whatever configurations begin later, an id has the  *)
(* arm at a moment that it had when it was asked for first, before the     *)
(* experiment's first configuration as well; and each arm has its share of *)
(* the values, to one of each place it is named at.                        *)
AssignmentsStand ==
  /\ \A a \in assigned : AssignExperiment(a.experiment, a.hash, a.at) = a.arm
  /\ \A e \in Experiment : \A m \in DOMAIN experiments[e] :
       LET config == experiments[e][m]
           sum == UpTo(config, Len(config))
       IN \A k \in DOMAIN config :
            LET difference == Count(config, config[k].name) * sum - Share(config, config[k].name) * MaxValue
            IN difference < sum * Len(config) /\ -difference < sum * Len(config)

(* The two: of modules and of experiments.                                 *)
VersionsInForce == VersionInForce /\ AssignmentsStand
=============================================================================
