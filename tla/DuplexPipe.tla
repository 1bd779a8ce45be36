----------------------------- MODULE DuplexPipe -----------------------------
(***************************************************************************)
(* What a relayed connection promises to the two programs it joins: two    *)
(* independent one-way pipes.  A direction d carries the chunks 1, 2, ...  *)
(* that its source has written, in order and without gaps, until it ends:  *)
(* with "eof", which vouches that the source finished and that every chunk *)
(* has been handed over, or with "cut", after which nothing more arrives.  *)
(* One direction may end while the other still carries data; the pair is   *)
(* closed only when both have ended.                                       *)
(***************************************************************************)
EXTENDS Naturals, Sequences

CONSTANT Dir          \* the directions

VARIABLES
    sent,             \* sent[d]: how many chunks the source of d has written
    over,             \* over[d]: the source of d has finished or gone away
    out,              \* out[d]: the chunks handed to the destination of d
    end,              \* end[d]: "open", "eof" or "cut"
    told,             \* the directions whose destination has seen end of stream
    closed            \* both connections have been released

vars == <<sent, over, out, end, told, closed>>

Init ==
    /\ sent = [d \in Dir |-> 0]
    /\ over = [d \in Dir |-> FALSE]
    /\ out = [d \in Dir |-> <<>>]
    /\ end = [d \in Dir |-> "open"]
    /\ told = {}
    /\ closed = FALSE

Produce(d) ==
    /\ ~over[d]
    /\ sent' = [sent EXCEPT ![d] = @ + 1]
    /\ UNCHANGED <<over, out, end, told, closed>>

SourceEnds(d) ==
    /\ ~over[d]
    /\ over' = [over EXCEPT ![d] = TRUE]
    /\ UNCHANGED <<sent, out, end, told, closed>>

Deliver(d) ==
    /\ end[d] = "open"
    /\ Len(out[d]) < sent[d]
    /\ out' = [out EXCEPT ![d] = Append(@, Len(@) + 1)]
    /\ UNCHANGED <<sent, over, end, told, closed>>

EndOfStream(d) ==
    /\ end[d] = "open"
    /\ over[d]
    /\ Len(out[d]) = sent[d]
    /\ end' = [end EXCEPT ![d] = "eof"]
    /\ UNCHANGED <<sent, over, out, told, closed>>

Cut(d) ==
    /\ end[d] = "open"
    /\ end' = [end EXCEPT ![d] = "cut"]
    /\ UNCHANGED <<sent, over, out, told, closed>>

\* The destination of d is shown the end of its stream.
Tell(d) ==
    /\ end[d] # "open"
    /\ told' = told \cup {d}
    /\ UNCHANGED <<sent, over, out, end, closed>>

Release ==
    /\ ~closed
    /\ \A d \in Dir : end[d] # "open"
    /\ closed' = TRUE
    /\ UNCHANGED <<sent, over, out, end, told>>

Next ==
    \/ \E d \in Dir : \/ Produce(d)
                      \/ SourceEnds(d)
                      \/ Deliver(d)
                      \/ EndOfStream(d)
                      \/ Cut(d)
                      \/ Tell(d)
    \/ Release

Spec == Init /\ [][Next]_vars
=============================================================================
