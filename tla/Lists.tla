--------------------------------- MODULE Lists ---------------------------------
(***************************************************************************)
(* Two loops over a list that several components run.                      *)
(*                                                                         *)
(* "for _, e := range entries { if keep(e) { kept = append(kept, e) } }",  *)
(* which drops stale entries and applies the firewall: the k-th kept       *)
(* element is named by its rank among the kept positions.                  *)
(*                                                                         *)
(* "for _, e := range entries { sum += weight(e) }": the sums after each   *)
(* element, a recursive function.                                          *)
(*                                                                         *)
(* Neither is a RECURSIVE operator, so that facts about them can be proved *)
(* from facts about finite sets (module ListsProofs).                      *)
(***************************************************************************)
EXTENDS Integers, Sequences, FiniteSets

\* Number of positions of keep that are not after i.
Rank(keep, i) == Cardinality({j \in keep : j <= i})

\* The k-th smallest position of keep.
Nth(keep, k) == CHOOSE i \in keep : Rank(keep, i) = k

\* The elements of s at the positions of keep, in the order they have in s.
Subsequence(s, keep) == [k \in 1..Cardinality(keep) |-> s[Nth(keep, k)]]

\* The sum of the first i numbers of w, for every i.
RunningSums(w) ==
    LET sum[i \in 0..Len(w)] == IF i = 0 THEN 0 ELSE sum[i - 1] + w[i]
    IN  sum

\* The sum of all numbers of w.
Total(w) == RunningSums(w)[Len(w)]

\* As many copies of each position i of w as w[i] says, numbered.
Copies(w) == UNION {{i} \X (1..w[i]) : i \in DOMAIN w}

\* The copies before c: those of earlier positions, and earlier ones of its own.
CopiesBefore(w, c) ==
    {d \in Copies(w) : d[1] < c[1] \/ (d[1] = c[1] /\ d[2] < c[2])}
=============================================================================
