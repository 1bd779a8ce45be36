----------------------------- MODULE MCUpdater ------------------------------
EXTENDS Updater

Request(c, f, r) == [channel |-> c, force |-> f, restart |-> r]

\* The dashboard's default, a switch to the nightlies that waits for a manual
\* restart, and a return to the stable channel with and without force.
MCRequests ==
    {Request("auto", FALSE, TRUE), Request("nightly", FALSE, FALSE),
     Request("stable", FALSE, TRUE), Request("stable", TRUE, FALSE)}

Rel(v, r, d) == [build |-> [ver |-> v, rev |-> r], draft |-> d]

\* Versions 1 and 2 are stable, 3 is a nightly.  A host on the nightly whose
\* next one is still a draft, and a host on version 1 when the last stable
\* release is newer than the nightly but its version lower.
MCFeeds ==
    {{Rel(3, 1, FALSE), Rel(3, 2, TRUE)},
     {Rel(1, 1, FALSE), Rel(3, 2, FALSE), Rel(2, 3, FALSE)}}
=============================================================================
