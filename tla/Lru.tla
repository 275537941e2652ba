-------------------------------- MODULE Lru --------------------------------
(***************************************************************************)
(* What a cache of limited size promises: it keeps the keys asked for most *)
(* recently, and an answer is fresh exactly if its key was not kept.       *)
(***************************************************************************)
EXTENDS Integers, Sequences

CONSTANTS Keys, Size

VARIABLES
  queue,   (* the keys kept, the most recently used first *)
  answer   (* the last answer: for which key, and whether it is fresh *)

vars == <<queue, answer>>

NoAnswer == <<>>

Init == queue = <<>> /\ answer = NoAnswer

Hit(k) ==
  \E j \in 1..Len(queue) :
    /\ queue[j] = k
    /\ queue' = [i \in 1..Len(queue) |->
                   IF i = 1 THEN k
                   ELSE IF i <= j THEN queue[i - 1] ELSE queue[i]]
    /\ answer' = <<k, FALSE>>

Miss(k) ==
  /\ \A j \in 1..Len(queue) : queue[j] # k
  /\ queue' = [i \in 1..(IF Len(queue) = Size THEN Size ELSE Len(queue) + 1) |->
                 IF i = 1 THEN k ELSE queue[i - 1]]
  /\ answer' = <<k, TRUE>>

Next == \E k \in Keys : Hit(k) \/ Miss(k)

Spec == Init /\ [][Next]_vars
=============================================================================
