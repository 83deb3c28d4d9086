--------------------------- MODULE ElectionProofs ---------------------------
(***************************************************************************)
(* What follows from Election alone, and so holds of every program that    *)
(* implements it.                                                          *)
(***************************************************************************)
EXTENDS Election, TLAPS

LEMMA PromisesStep == Promises /\ [Next]_vars => Promises'
<1> SUFFICES ASSUME Promises, [Next]_vars PROVE Promises'
  OBVIOUS
<1> USE DEF Promises
<1>1. CASE UNCHANGED vars
  BY <1>1 DEF vars
<1>2. ASSUME NEW v \in Person, AdmitVoter(v) PROVE Promises'
  BY <1>2 DEF AdmitVoter
<1>3. ASSUME NEW c \in Person, AdmitCandidate(c) PROVE Promises'
  BY <1>3 DEF AdmitCandidate
<1>4. ASSUME NEW v \in Person, NEW c \in Person, Cast(v, c) PROVE Promises'
  <2> DEFINE ballot == [voter |-> v, candidate |-> c]
  <2>1. ballot.voter = v /\ ballot.candidate = c
    OBVIOUS
  <2>2. box' = box \cup {ballot} /\ electorate' = electorate /\ slate' = slate
    BY <1>4 DEF Cast
  <2> HIDE DEF ballot
  <2>3. QED
    BY <1>4, <2>1, <2>2 DEF Cast
<1>5. QED
  BY <1>1, <1>2, <1>3, <1>4 DEF Next

\* An election as specified keeps its promises.
THEOREM PromisesKept == Spec => []Promises
<1>1. Init => Promises
  BY DEF Init, Promises
<1>2. QED
  BY <1>1, PromisesStep, PTL DEF Spec
=============================================================================
