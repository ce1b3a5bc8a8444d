--------------------------- MODULE MonitorService ---------------------------
(***************************************************************************)
(* What the backend promises the people in front of its panels, without    *)
(* tasks, waits, registries or a database that fails:                      *)
(*                                                                         *)
(*   - a display shows only states the train was reported to be in, each   *)
(*     as a whole, though not always the newest;                           *)
(*   - the journal only grows, and a row never changes;                    *)
(*   - a journal page hears each row at most once, and only once it is in  *)
(*     the journal; what it fetches is the journal of that moment.         *)
(*                                                                         *)
(* How late a display may be is not said here: BridgeRuntime states that   *)
(* separately (EveryUpdateIsShown, LoneUpdateHealsViews).                  *)
(***************************************************************************)
EXTENDS Naturals, Sequences

CONSTANTS
    State,      \* what can be reported of the train
    Unknown,    \* the state before any report
    Nothing,    \* what a display shows before it is connected
    Row,        \* what can be journalled
    Displays,
    Listeners,  \* whoever receives the live journal
    Readers     \* whoever fetches it

VARIABLES
    state,      \* the present state
    past,       \* the states there were, the present one included
    shown,      \* per display, what it shows
    log,        \* the journal
    heard,      \* per listener, the rows received live
    read        \* per reader, the rows of its last fetch

vars == <<state, past, shown, log, heard, read>>

InLog(e)      == \E i \in 1 .. Len(log) : log[i] = e
Heard(e, l)   == \E i \in 1 .. Len(heard[l]) : heard[l][i] = e

Init ==
    /\ state = Unknown
    /\ past = {Unknown}
    /\ shown = [d \in Displays |-> Nothing]
    /\ log = <<>>
    /\ heard = [l \in Listeners |-> <<>>]
    /\ read = [r \in Readers |-> {}]

Change ==
    /\ state' \in State
    /\ past' = past \cup {state'}
    /\ UNCHANGED <<shown, log, heard, read>>

Show(d) ==
    /\ UNCHANGED <<state, past, log, heard, read>>
    /\ \E s \in past : shown' = [shown EXCEPT ![d] = s]

Record(e) ==
    /\ UNCHANGED <<state, past, shown, heard, read>>
    /\ ~InLog(e)
    /\ log' = Append(log, e)

Tell(l) ==
    /\ UNCHANGED <<state, past, shown, log, read>>
    /\ \E i \in 1 .. Len(log) :
          /\ ~Heard(log[i], l)
          /\ heard' = [heard EXCEPT ![l] = Append(@, log[i])]

Fetch(r) ==
    /\ UNCHANGED <<state, past, shown, log, heard>>
    /\ read' = [read EXCEPT ![r] = {log[i] : i \in 1 .. Len(log)}]

Next ==
    \/ Change
    \/ \E d \in Displays : Show(d)
    \/ \E e \in Row : Record(e)
    \/ \E l \in Listeners : Tell(l)
    \/ \E r \in Readers : Fetch(r)

Spec == Init /\ [][Next]_vars

=============================================================================
