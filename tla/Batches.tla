------------------------------- MODULE Batches -------------------------------
(***************************************************************************)
(* The GOOD samples of a batch, for the specifications of the two drivers. *)
(***************************************************************************)
EXTENDS Integers, Sequences

Goods(samples) == {i \in 1..Len(samples) : samples[i].quality = "GOOD"}

\* The last GOOD value of a batch: what its confirmed publish leaves downstream.
LastGood(samples, else) ==
    IF Goods(samples) = {} THEN else
    ELSE samples[CHOOSE i \in Goods(samples) : \A j \in Goods(samples) : j <= i].value
==============================================================================
