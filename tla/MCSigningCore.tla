---------------------------- MODULE MCSigningCore ----------------------------
(***************************************************************************)
(* A small instance of SigningCore for TLC, with the tokens it takes whole. *)
(***************************************************************************)
EXTENDS SigningCore, Sequences, TLC
CONSTANTS alice, bob, c1
MCSubjects == {alice, bob}
MCCredentials == {c1}
MCTimes == {1, 2}
Symmetry == Permutations(MCSubjects)

\* Bytes on either side of the sign bit, and zeros, in every position.
MCDigests == [1..3 -> {0, 1, 127, 128, 255}]

\* A TSTInfo with a short and a long imprint (its length in one byte and in two), with and without
\* accuracy, which holds an integer, ordering, and the TSA's name, which holds one too.
MCForms ==
  [version : {<<2, 1, 1>>}, policy : {<<6, 1, 42>>},
   imprint : {<<48, 2, 4, 0>>, <<48, 129, 131, 4, 129, 128>> \o [i \in 1..128 |-> 2]},
   serial : {<<2, 1, 9>>}, genTime : {<<24, 2, 48, 90>>},
   accuracy : {<<>>, <<48, 3, 2, 1, 1>>}, ordering : {<<>>, <<1, 1, 255>>},
   tsa : {<<>>, <<160, 3, 2, 1, 7>>}]

Token == INSTANCE TimestampToken

(* A token made for a query is known as such, which SigningCore takes for granted: nonce and imprint
   come back from its bytes, whatever the zeros or the sign bit of the nonce and whatever optional
   fields surround it, and no other integer is taken for a nonce that is not there (parse_nonce).
   It depends on no state: Init spares TLC from evaluating it in each. *)
TokenIsReadBack ==
  Init => \A digest \in MCDigests, form \in MCForms : Token!ReadsBack(digest, form)
==============================================================================
