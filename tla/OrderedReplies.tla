--------------------------- MODULE OrderedReplies ---------------------------
(***************************************************************************)
(* What a pipelined redis connection promises: requests are answered one   *)
(* answer each, in the order in which they arrived.  Requests are numbered *)
(* from 0; wire is the sequence of answers sent, each with the number of   *)
(* the request it answers.                                                 *)
(***************************************************************************)
EXTENDS Integers, Sequences

CONSTANT Answers

VARIABLES
  arrived,  \* number of requests received
  wire      \* answers sent

vars == <<arrived, wire>>

Init ==
  /\ arrived = 0
  /\ wire = <<>>

Receive == arrived' \in {arrived, arrived + 1}

\* Any number of answers, to the oldest unanswered requests, in their order.
Send ==
  /\ Len(wire') >= Len(wire)
  /\ Len(wire') <= arrived'
  /\ \A i \in 1..Len(wire) : wire'[i] = wire[i]
  /\ \A i \in (Len(wire) + 1)..Len(wire') : wire'[i].key = i - 1 /\ wire'[i].val \in Answers

\* The answer may leave in the step in which its request arrives.
Next == Receive /\ Send

Spec == Init /\ [][Next]_vars
=============================================================================
