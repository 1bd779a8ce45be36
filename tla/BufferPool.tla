----------------------------- MODULE BufferPool -----------------------------
(***************************************************************************)
(* The leaky buffer pool of pkg/buffer/buffer.go: a bounded channel of     *)
(* byte slices.  Get takes one or makes one, Put gives one back or drops   *)
(* it.  Nothing records who holds a slice: what is put twice is handed out *)
(* twice.  The slices are numbered in the order they are made.             *)
(***************************************************************************)
EXTENDS Naturals, Sequences

CONSTANT PoolSize                  \* BUFFER_POOL_SIZE

ASSUME PoolAssumption == PoolSize \in Nat

VARIABLES
    pool,             \* BytePool.c
    made              \* the number of slices made so far

poolVars == <<pool, made>>

InitPool == pool = <<>> /\ made = 0

\* The step in which b is what Get returns.
Get(b) ==
    \/ /\ pool # <<>>
       /\ b = Head(pool)
       /\ pool' = Tail(pool)
       /\ made' = made
    \/ /\ pool = <<>>
       /\ b = made + 1
       /\ made' = b
       /\ pool' = pool

\* Mutant: the pool keeps whatever it is given.
Put_Unbounded(ch, b) == Append(ch, b)

\* The channel after Put(b).
Put(ch, b) == IF Len(ch) < PoolSize THEN Append(ch, b) ELSE ch
=============================================================================
