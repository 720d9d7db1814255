------------------------------ MODULE MCCounters ------------------------------
(***************************************************************************)
(* The two counters a snapshot is made of: what Observe counts, and what   *)
(* the kernel-drop sampler adds.  They share no variable and no property   *)
(* reads both, so it is enough that each runs while the other rests.       *)
(***************************************************************************)
EXTENDS Accumulator, KernelDrops

\* Jumps that land in every burst bucket, one too wide to accept once a packet
\* was seen, one sequence number above MaxInt64, and a dense start, so that a
\* small duplicate map fills and repeats follow.
MCWideSeqs == {0, 1, 2, 3, 4, 9, 20, 21, 130, 260, 400}

\* The dense start alone.
MCDenseSeqs == 0 .. 4

\* TLC compares Unset with numbers, so it is one: no counter reaches it.
MCUnset == -1

SamplerRests == total = 0 /\ baseline = Unset /\ ~resets /\ run = "running"
ObserverRests == acc = NewAccumulator

MCInit == Init /\ KernelInit

MCNext ==
  \/ SamplerRests /\ Next /\ UNCHANGED kernelVars
  \/ ObserverRests /\ KernelNext /\ UNCHANGED vars

MCSpec == MCInit /\ [][MCNext]_<<vars, kernelVars>>
=============================================================================
