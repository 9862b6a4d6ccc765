------------------------------- MODULE MCBilling -------------------------------
(***************************************************************************)
(* Model-checking of Billing: the requests of Stripe, the replicas and the *)
(* consumers are interchangeable where only safety is checked.             *)
(***************************************************************************)
EXTENDS Billing, TLC

\* The nightly job with the page and one webhook request at a time; two webhook requests with two
\* changes at Stripe after the purchase, or with the page; two members of the consumer group that
\* work together.
Together ==
  {[members |-> 1, hooks |-> 1, runs |-> 2, clicks |-> 2, news |-> 0],
   [members |-> 1, hooks |-> 2, runs |-> 0, clicks |-> 0, news |-> 2],
   [members |-> 1, hooks |-> 2, runs |-> 0, clicks |-> 1, news |-> 0],
   [members |-> 2, hooks |-> 1, runs |-> 2, clicks |-> 0, news |-> 0]}

Symmetry == Permutations(Hooks) \cup Permutations(Replicas) \cup Permutations(Consumers)
================================================================================
