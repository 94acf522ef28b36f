---------------------------- MODULE SequentialIDs ----------------------------
(***************************************************************************)
(* The generators of SUB-001, ALT-001, AUD-001 and STF-0001: the largest   *)
(* identifier in the table, read by SELECT MAX over strings, plus one.  An *)
(* identifier is its number here; Wide is the first number that does not   *)
(* fit its padding (1000 for %03d), from where on strings no longer sort   *)
(* as numbers do.                                                          *)
(***************************************************************************)
EXTENDS Naturals

CONSTANT Wide

ASSUME WideAssumption == Wide \in Nat /\ Wide >= 10

\* The order of the padded decimal strings, for numbers below 10 * Wide: "999"
\* comes after "1000", because the first three characters decide.
Precedes(a, b) ==
  CASE a < Wide /\ b >= Wide -> a <= b \div 10
    [] a >= Wide /\ b < Wide -> a \div 10 < b
    [] OTHER                 -> a < b

StringMax(S) == CHOOSE m \in S : \A n \in S \ {m} : Precedes(n, m)

\* (Mutant: the number found is used as it is.)
NextIDMutant(S) == IF S = {} THEN 1 ELSE StringMax(S)
NextID(S) == IF S = {} THEN 1 ELSE StringMax(S) + 1

\* An error of the query is dropped and leaves the empty string, from which the
\* first identifier is made.
GeneratedIDs(S, queryMayFail) ==
  {NextID(S)} \cup (IF queryMayFail THEN {1} ELSE {})
=============================================================================
