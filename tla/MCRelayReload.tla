--------------------------- MODULE MCRelayReload ----------------------------
(* Two relays and the edits an operator makes of their configuration file. *)
EXTENDS RelayReload

C(a, r, o) == [listen |-> a, rest |-> r, options |-> o]
File(c, d) == [l \in Label |-> IF l = "raw" THEN c ELSE d]

\* Types and remotes 8 have an unknown ListenType, 9 an unknown TransportType;
\* options 9 a protocol that cannot be blocked.
MCConfigs == {C(a, r, o) : a \in 1 .. 2, r \in {1, 2, 8, 9}, o \in {0, 1, 9}}
MCInvalid == {c \in MCConfigs : c.rest \in {8, 9} \/ c.options = 9}

First == File(C(1, 1, 1), Absent)
Broken == File(C(1, 2, 9), Absent)
Mistyped == File(C(1, 1, 0), Absent)
MCGarbled == {Mistyped}
MCFiles == {
    First,
    File(C(1, 2, 0), C(2, 1, 1)),           \* other remotes, and one more relay
    File(C(1, 8, 1), C(2, 9, 0)),           \* and files that are rejected
    Mistyped }

\* For the run on failed loads.
RetryFiles == {First, Broken}
=============================================================================
