------------------------------- MODULE Series -------------------------------
(***************************************************************************)
(* Sums over finite sets and folds over sequences, as recursive functions: *)
(* the loops of the code that accumulate something.                        *)
(***************************************************************************)
EXTENDS Integers, FiniteSets, Sequences

\* What f adds up to over a finite set.
SumOver(f, S) == LET sum[T \in SUBSET S] ==
                   IF T = {} THEN 0
                   ELSE LET x == CHOOSE x \in T : TRUE IN f[x] + sum[T \ {x}]
             IN sum[S]

\* What comes of base when the elements of s go into it, one after another, by the function step.
Folded(step, base, s) ==
  LET upTo[n \in 0 .. Len(s)] == IF n = 0 THEN base ELSE step[<<upTo[n - 1], s[n]>>]
  IN upTo[Len(s)]

\* The elements of s that are in S, in their order: what filter leaves.  (SelectSeq with a set for
\* its test, written out because the provers know nothing of SelectSeq.)
Filtered(s, S) ==
  LET kept[n \in 0 .. Len(s)] ==
        IF n = 0 THEN <<>> ELSE IF s[n] \in S THEN Append(kept[n - 1], s[n]) ELSE kept[n - 1]
  IN kept[Len(s)]
=============================================================================
