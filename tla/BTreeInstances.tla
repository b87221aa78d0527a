--------------------------- MODULE BTreeInstances ---------------------------
(***************************************************************************)
(* Small trees for TLC: every tree of one, two and three levels whose leaf *)
(* keys and index keys are drawn from 0 .. top, stale index keys included. *)
(***************************************************************************)
EXTENDS Integers, Sequences, FiniteSets

\* `set` in ascending order.
Ascending(set) ==
    [i \in 1 .. Cardinality(set) |->
        CHOOSE x \in set : Cardinality({y \in set : y < x}) = i - 1]

\* The keys of S in the half-open interval [lo, hi).
Slice(S, lo, hi) == {x \in S : lo <= x /\ x < hi}

OneLevel(top) ==
    {[nodes |-> {"r"}, root |-> "r", bad |-> {},
      level |-> [n \in {"r"} |-> 0],
      keys  |-> [n \in {"r"} |-> Ascending(S)],
      child |-> [n \in {"r"} |-> <<>>],
      under |-> [n \in {"r"} |-> S]] : S \in SUBSET (0 .. top) \ {{}}}

TwoLevel(top) ==
    LET N == {"r", "a", "b"}
        T(S, p, q) ==
          LET under == [r |-> S, a |-> Slice(S, p, q), b |-> Slice(S, q, top + 1)] IN
          [nodes |-> N, root |-> "r", bad |-> {},
           level |-> [n \in N |-> IF n = "r" THEN 1 ELSE 0],
           keys  |-> [n \in N |-> IF n = "r" THEN <<p, q>> ELSE Ascending(under[n])],
           child |-> [n \in N |-> IF n = "r" THEN <<"a", "b">> ELSE <<>>],
           under |-> under]
    IN  {T(x[1], x[2], x[3]) : x \in
           {y \in (SUBSET (0 .. top)) \X (0 .. top) \X (0 .. top) :
               /\ y[2] < y[3]
               /\ \A e \in y[1] : y[2] <= e
               /\ Slice(y[1], y[2], y[3]) # {} /\ Slice(y[1], y[3], top + 1) # {}}}

\* Three levels: the root over p and q, p over leaves a and b, q over c and d.
\* The index keys of p and q may exceed the root's keys for them.
ThreeLevel(top) ==
    LET N == {"r", "p", "q", "a", "b", "c", "d"}
        T(S, e, u, v) ==
          LET cut == Append(e, top + 1)
              leaf == [n \in {"a", "b", "c", "d"} |->
                         LET i == CASE n = "a" -> 1 [] n = "b" -> 2
                                    [] n = "c" -> 3 [] n = "d" -> 4
                         IN  Slice(S, cut[i], cut[i + 1])]
          IN
          [nodes |-> N, root |-> "r", bad |-> {},
           level |-> [n \in N |-> CASE n = "r" -> 2 [] n \in {"p", "q"} -> 1 [] OTHER -> 0],
           keys  |-> [n \in N |-> CASE n = "r" -> <<u, v>>
                                    [] n = "p" -> <<e[1], e[2]>>
                                    [] n = "q" -> <<e[3], e[4]>>
                                    [] OTHER -> Ascending(leaf[n])],
           child |-> [n \in N |-> CASE n = "r" -> <<"p", "q">>
                                    [] n = "p" -> <<"a", "b">>
                                    [] n = "q" -> <<"c", "d">>
                                    [] OTHER -> <<>>],
           under |-> [n \in N |-> CASE n = "r" -> S
                                    [] n = "p" -> leaf["a"] \cup leaf["b"]
                                    [] n = "q" -> leaf["c"] \cup leaf["d"]
                                    [] OTHER -> leaf[n]]]
        Cuts == {Ascending(E) : E \in {F \in SUBSET (0 .. top) : Cardinality(F) = 4}}
        Filled(S, e) ==
          /\ \A x \in S : e[1] <= x
          /\ \A i \in 1 .. 4 : Slice(S, e[i], IF i = 4 THEN top + 1 ELSE e[i + 1]) # {}
    IN  UNION {{T(x[1], x[2], u, v) :
                   u \in {w \in {x[2][1], x[2][1] - 1} : w >= 0},
                   v \in {w \in {x[2][3], x[2][3] - 1} :
                             \A z \in x[1] : z < x[2][3] => z < w}} :
               x \in {y \in (SUBSET (0 .. top)) \X Cuts : Filled(y[1], y[2])}}

\* Each tree of T with at most one unreadable node below the root.
WithBadBlock(T) ==
    UNION {{[t EXCEPT !.bad = B] : B \in {{}} \cup {{n} : n \in t.nodes \ {t.root}}} : t \in T}
=============================================================================
