---------------------------- MODULE MCXrayServer ----------------------------
(* Files with one or two proxy inbounds, that sync their users or not. *)
EXTENDS XrayServer

File(x, s, l) == [xray |-> x, sync |-> s, listen |-> l]

MCStart == File(TRUE, TRUE, [t \in Tag |-> IF t = "trojan" THEN "a1" ELSE NoAddr])

\* The listener moved, a second inbound and no sync, and no xray at all.
MCFiles == {
    MCStart,
    File(TRUE, TRUE, [t \in Tag |-> IF t = "trojan" THEN "a2" ELSE NoAddr]),
    File(TRUE, FALSE, [t \in Tag |-> IF t = "trojan" THEN "a1" ELSE "a2"]),
    NoConfig }
=============================================================================
