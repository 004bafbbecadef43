--------------------------------- MODULE Lists ---------------------------------
(****************************************************************************)
(* Loops over Python lists.  SelectSeq, FlattenSeq and the folds of the      *)
(* community modules say the same; these are recursive functions, of which   *)
(* ListProofs can prove what they return.                                    *)
(****************************************************************************)
EXTENDS Naturals, Sequences

\* [x for x in s if x in kept]
Keeping(s, kept) ==
    LET f[n \in 0..Len(s)] ==
            IF n = 0 THEN <<>>
            ELSE IF s[n] \in kept THEN Append(f[n - 1], s[n]) ELSE f[n - 1]
    IN  f[Len(s)]

\* [x for s in ss for x in s]
Joined(ss) ==
    LET f[n \in 0..Len(ss)] == IF n = 0 THEN <<>> ELSE f[n - 1] \o ss[n]
    IN  f[Len(ss)]

\* sum(s)
Total(s) ==
    LET f[n \in 0..Len(s)] == IF n = 0 THEN 0 ELSE f[n - 1] + s[n]
    IN  f[Len(s)]

================================================================================
