-------------------------- MODULE ConnectionStatus --------------------------
(***************************************************************************)
(* app/services/connection_status.py: five indicators computed from what   *)
(* the runtime remembers of the last telemetry and the last broadcast, and *)
(* the one diagnosis shown to the operator.                                *)
(*                                                                         *)
(* A context is a record of ConnectionStatusContext with timestamps        *)
(* replaced by their ages in seconds at "now"; None is the missing one.    *)
(* Titles and check lists are constants of each problem and left out.      *)
(***************************************************************************)
EXTENDS Integers

DataOkAgeSec       == 10
DataWarnAgeSec     == 30
RealtimeOkAgeSec   == 30
RealtimeWarnAgeSec == 90

None == -1
Age  == Nat \cup {None}

Context == [mock : BOOLEAN, mqttConnected : BOOLEAN, dataAge : Age,
            clients : Nat, publishAge : Age]

State   == {"ok", "warn", "error", "unknown"}
Problem == {"NotEnoughData", "BoardUnavailable", "NoOrangeData",
            "ServerUnavailable", "UiUpdatesBlocked", "DataStale", "NotDetected"}

-----------------------------------------------------------------------------

\* (Mutant: an age past both limits is no longer an error.)
AgeToStateExpired(age, okAge, warnAge) ==
    CASE age \in 0 .. okAge       -> "ok"
      [] age \in okAge+1..warnAge -> "warn"
      [] OTHER                    -> "unknown"

AgeToState(age, okAge, warnAge) ==
    CASE age = None                  -> "unknown"
      [] age # None /\ age <= okAge  -> "ok"
      [] age > okAge /\ age <= warnAge -> "warn"
      [] OTHER                       -> "error"

DataState(ctx) == AgeToState(ctx.dataAge, DataOkAgeSec, DataWarnAgeSec)

\* (Mutants: the broker connection is not asked for; the limits are those of
\* the realtime channel.)
BoardOnlineUnasked(ctx) ==
    IF ctx.mock THEN "unknown" ELSE DataState(ctx)
BoardOnlineLenient(ctx) ==
    IF ctx.mock THEN "unknown"
    ELSE AgeToState(ctx.dataAge, RealtimeOkAgeSec, RealtimeWarnAgeSec)

BoardOnline(ctx) ==
    CASE ctx.mock \/ ctx.dataAge = None -> "unknown"
      [] ~ctx.mock /\ ctx.dataAge # None /\ ~ctx.mqttConnected ->
            IF ctx.dataAge <= DataWarnAgeSec THEN "warn" ELSE "error"
      [] OTHER -> DataState(ctx)

IncomingData(ctx) == DataState(ctx)

BackendAvailable(ctx) == "ok"

InterfaceUpdates(ctx) ==
    CASE ctx.clients <= 0 -> "unknown"
      [] ctx.clients > 0 /\ ctx.publishAge = None -> "warn"
      [] OTHER -> AgeToState(ctx.publishAge, RealtimeOkAgeSec, RealtimeWarnAgeSec)

DataFresh(ctx) == DataState(ctx)

\* The first rule that applies wins; an indicator that is unknown ends the
\* search.
BuildDiagnosis(board, incoming, backend, interface, fresh) ==
    LET is(problem, severity) == [problem |-> problem, severity |-> severity]
        unknown == is("NotEnoughData", "warn")
    IN  IF board \in {"error", "warn"}     THEN is("BoardUnavailable", "error")
        ELSE IF board = "unknown"          THEN unknown
        ELSE IF incoming = "error"         THEN is("NoOrangeData", "error")
        ELSE IF incoming = "unknown"       THEN unknown
        ELSE IF backend \in {"error", "warn"} THEN is("ServerUnavailable", "error")
        ELSE IF backend = "unknown"        THEN unknown
        ELSE IF interface \in {"error", "warn"} THEN is("UiUpdatesBlocked", "error")
        ELSE IF interface = "unknown"      THEN unknown
        ELSE IF fresh = "error"            THEN is("DataStale", "error")
        ELSE IF fresh = "warn"             THEN is("DataStale", "warn")
        ELSE IF fresh = "unknown"          THEN unknown
        ELSE is("NotDetected", "ok")

Diagnosis(ctx) ==
    BuildDiagnosis(BoardOnline(ctx), IncomingData(ctx), BackendAvailable(ctx),
                   InterfaceUpdates(ctx), DataFresh(ctx))

=============================================================================
