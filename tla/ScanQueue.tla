----------------------------- MODULE ScanQueue -----------------------------
(***************************************************************************)
(* What the keyboard buffer of kb.c promises the kernel: the keys that     *)
(* arrive are handed out in the order of their arrival, each exactly once. *)
(* The promise has a lifetime.  Once Life keys have arrived the next one   *)
(* may break the queue, after which nothing is promised any more.          *)
(***************************************************************************)
EXTENDS Naturals, Sequences

CONSTANTS Key,  \* the values that can be queued
          Life  \* number of keys for which the promise holds

VARIABLES sent,   \* every key that has arrived, in order
          taken,  \* every key that has been handed out, in order
          broken  \* the queue has stopped keeping its promise

queueVars == <<sent, taken, broken>>

Init == sent = <<>> /\ taken = <<>> /\ broken = FALSE

Arrive(k) == /\ ~broken
             /\ sent' = Append(sent, k)
             /\ UNCHANGED <<taken, broken>>

Take == /\ ~broken
        /\ Len(taken) < Len(sent)
        /\ taken' = Append(taken, sent[Len(taken) + 1])
        /\ UNCHANGED <<sent, broken>>

Break == Len(sent) >= Life /\ broken'

AfterBreak == broken /\ broken'

Next == (\E k \in Key : Arrive(k)) \/ Take \/ Break \/ AfterBreak

Spec == Init /\ [][Next]_queueVars
=============================================================================
