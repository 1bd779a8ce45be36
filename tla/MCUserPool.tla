----------------------------- MODULE MCUserPool -----------------------------
(* Two proxy inbounds, one of them for each protocol. *)
EXTENDS UserPool

TwoTags == <<"ss", "trojan">>

\* An account, the same one disabled, and one that cannot be made.
MCAccounts == {
    [key |-> 1, enable |-> TRUE],
    [key |-> 1, enable |-> FALSE],
    [key |-> 9, enable |-> TRUE] }

\* One user at first.
MCStart == [i \in Id |-> IF i = "i1" THEN [key |-> 1, enable |-> TRUE] ELSE NoAccount]
=============================================================================
