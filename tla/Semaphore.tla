----------------------------- MODULE Semaphore ------------------------------
(***************************************************************************)
(* What a counting semaphore promises its clients: a wait takes one permit  *)
(* that is there, a post adds one, each in a single step.                   *)
(***************************************************************************)
EXTENDS Naturals

CONSTANT InitValue

VARIABLES permits, posted, taken

Init == permits = InitValue /\ posted = 0 /\ taken = 0

Wait ==
  /\ permits > 0
  /\ permits' = permits - 1 /\ taken' = taken + 1
  /\ UNCHANGED posted

Post ==
  /\ permits' = permits + 1 /\ posted' = posted + 1
  /\ UNCHANGED taken

Spec == Init /\ [][Wait \/ Post]_<<permits, posted, taken>>
=============================================================================
