------------------------- MODULE RuntimeRefinement -------------------------
(***************************************************************************)
(* BridgeRuntime implements MonitorService.  The states there were are the *)
(* initial one and the snapshots updates took; a task keeps its snapshot.  *)
(***************************************************************************)
EXTENDS BridgeRuntime

InitialSnapshot == [channels |-> [c \in Channels |-> Inactive], act |-> "none"]

Past == {InitialSnapshot} \cup {snap[p] : p \in {q \in Update : snap[q] # NoSnapshot}}

Service == INSTANCE MonitorService
    WITH State     <- Snapshot,
         Unknown   <- InitialSnapshot,
         Nothing   <- NoSnapshot,
         Row       <- Entry,
         Displays  <- StateClients,
         Listeners <- Client,
         Readers   <- JournalClients,
         state     <- CurrentSnapshot,
         past      <- Past,
         shown     <- view,
         log       <- journal,
         heard     <- feed,
         read      <- [c \in JournalClients |-> fetched[c].rows]

\* Racing tasks, a database that fails, connections that come and break: none
\* of it makes a display show a state that never was, a mixture of two, or a
\* journal page hear a row twice or before it is in the journal.
ImplementsService == Service!Spec

=============================================================================
