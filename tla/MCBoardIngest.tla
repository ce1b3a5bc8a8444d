--------------------------- MODULE MCBoardIngest ---------------------------
(***************************************************************************)
(* The signal map and module map of app/config, and payloads around those  *)
(* of the mock mode.                                                       *)
(***************************************************************************)
EXTENDS BoardIngest

\* The sixteen entries in file order: QL6C 0 .. 3 (no descriptor), QL6C 6 .. 13
\* and QL6D 0 .. 3.
MCSignalMap ==
    [c \in 1 .. 16 |->
        IF c <= 12
        THEN [module |-> "QL6C", topic |-> "puma_board", index |-> IF c <= 4 THEN c - 1 ELSE c + 1]
        ELSE [module |-> "QL6D", topic |-> "puma_board_u16", index |-> c - 13]]

MCModuleOf == [c \in 1 .. 16 |-> MCSignalMap[c].module]

MCGroups ==
    [page \in {"technicalPage", "trainPage", "selectedNode", "modal"} |-> {"QL6C", "QL6D"}]

\* The four steps of MockModeService.
MockSteps ==
    {[in |-> 0,   inversed |-> 255, out |-> 0],
     [in |-> 255, inversed |-> 255, out |-> 255],
     [in |-> 0,   inversed |-> 0,   out |-> 1],
     [in |-> 1,   inversed |-> 0,   out |-> 0]}

Flip(byte, index) ==
    IF GetBit(byte, index) = 1 THEN byte - 2^index ELSE byte + 2^index

OneWireAway(p) ==
    {[p EXCEPT ![b] = Flip(@, i)] : b \in {"in", "out", "inversed"}, i \in 0 .. 7}

\* Every mock payload, and every payload one wire away from one.
MCPayloads == MockSteps \cup UNION {OneWireAway(p) : p \in MockSteps}

=============================================================================
