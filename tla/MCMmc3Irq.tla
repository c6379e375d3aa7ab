----------------------------- MODULE MCMmc3Irq -----------------------------
(***************************************************************************)
(* Mmc3Irq with the programs of the runs.  With 8x8 sprites background and *)
(* sprites are in different tables or both in the lower one; with 8x16     *)
(* sprites each fetch may go to either table.                              *)
(***************************************************************************)
EXTENDS Mmc3Irq

Usual == {<<FALSE, TRUE, FALSE>>}
ShortSprites == Usual \cup {<<TRUE, FALSE, FALSE>>, <<FALSE, FALSE, FALSE>>}
TallSprites == {<<FALSE, FALSE, TRUE>>}

\* The first dots of a line; among its background fetches and at their end;
\* the first and the last sprite fetch; before and after the prefetches.
Marks == {0, 1, 9, 129, 249, 257, 313, 321, 328, 336}
SomeMarks == {129, 257}

\* Programs that change the picture, that set up the IRQ, and that draw 8x16
\* sprites with an IRQ on every tick.
AllPrograms == {<<ShortSprites, Marks, 2, 0>>, <<Usual, SomeMarks, 1, 3>>,
                <<TallSprites, {129}, 1, 1>>}
StalePrograms == {<<Usual, Marks, 2, 0>>}
=============================================================================
