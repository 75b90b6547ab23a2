------------------------------ MODULE Subsequences ------------------------------
(***************************************************************************)
(* The members of a set in the order of a sequence.  A recursive function  *)
(* stands here for SelectSeq, whose definition the proof system does not   *)
(* know.                                                                   *)
(***************************************************************************)
EXTENDS Naturals, Sequences

InSeq(t, s) == \E i \in DOMAIN s : s[i] = t

\* The subsequence of the members of S.
Among(S, s) ==
  LET kept[n \in 0 .. Len(s)] ==
        IF n = 0 THEN <<>>
        ELSE IF s[n] \in S THEN Append(kept[n - 1], s[n]) ELSE kept[n - 1]
  IN  kept[Len(s)]

================================================================================
