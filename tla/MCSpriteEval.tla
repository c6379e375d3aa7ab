---------------------------- MODULE MCSpriteEval ----------------------------
(***************************************************************************)
(* SpriteEval with the real sizes and a family of OAM contents: none, few, *)
(* eight and more sprites in range, at either end of OAM and spread over   *)
(* it, with and without the last sprite, and with bytes other than y's     *)
(* that the overflow search takes for y's.                                 *)
(***************************************************************************)
EXTENDS SpriteEval

\* OAM with these sprites in range, no other byte being.
Ys(S) == {4 * n : n \in S}

MCOams ==
  {Ys(S) : S \in {{}, {7 * k : k \in 0 .. 8}, {0, 1, 2, 3, 63}}}
  \cup {Ys(0 .. 6) \cup {33}, Ys(0 .. 7) \cup {37}, Ys({0, 62}) \cup {249}}
=============================================================================
