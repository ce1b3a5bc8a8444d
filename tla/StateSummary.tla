---------------------------- MODULE StateSummary ----------------------------
(***************************************************************************)
(* The aggregates a snapshot carries: the status of every module, of every *)
(* page of the operator's display, of the summary line, and the counts.    *)
(***************************************************************************)
EXTENDS StateStore, FiniteSets

CONSTANT Groups   \* the modules each page shows (module_map.json)

\* (Mutant: unknown is looked for before faults.)
MergeStatusUnknownFirst(statuses) ==
    IF "unknown" \in statuses                   THEN "unknown"
    ELSE IF statuses \cap {"fault", "error"} # {} THEN "error"
    ELSE IF statuses \subseteq {"inactive"}      THEN "inactive"
    ELSE "normal"

\* _merge_status, on the set of the list's values.
MergeStatus(statuses) ==
    IF statuses = {}                             THEN "inactive"
    ELSE IF statuses \cap {"fault", "error"} # {} THEN "error"
    ELSE IF statuses \subseteq {"inactive"}      THEN "inactive"
    ELSE IF "unknown" \in statuses               THEN "unknown"
    ELSE IF statuses \subseteq {"normal", "inactive"} THEN "normal"
    ELSE "unknown"

ModuleStatus(m) ==
    MergeStatus({channels[c].status : c \in {d \in Channels : ModuleOf[d] = m}})

\* A module with no channel has no status of its own: "inactive".
PageStatus(page) == MergeStatus({ModuleStatus(m) : m \in Groups[page]})

\* (Mutant: the module of the last payload is not looked up.)
SummaryStatusNaive == IF module \in Modules THEN "normal" ELSE "inactive"

SummaryStatus ==
    IF module \in Modules THEN ModuleStatus(module)
    ELSE MergeStatus({ModuleStatus(m) : m \in Modules})

Count(status) == Cardinality({c \in Channels : channels[c].status = status})

=============================================================================
