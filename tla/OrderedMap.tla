----------------------------- MODULE OrderedMap -----------------------------
(***************************************************************************)
(* What a client of a B-tree is promised by the pair upper_bound, prev     *)
(* (get_paddr, convert_v_oid, read_file): the last record at or below its  *)
(* argument, found in one atomic step, or an error when the medium fails.  *)
(***************************************************************************)
EXTENDS Integers

CONSTANTS Missing, Failed   \* the answers that are no record

VARIABLES records,  \* the keys of the map
          arg,      \* the argument of the last request
          waiting,  \* a request is outstanding
          answer    \* the key of the last answer, Missing or Failed

mapVars == <<records, arg, waiting, answer>>

\* r is the answer for q: the greatest key at or below q, if there is one.
IsFloor(q, r) ==
    \/ r = Missing /\ \A x \in records : q < x
    \/ /\ r \in records
       /\ r <= q
       /\ \A x \in records : x <= r \/ q < x

MapInit == records \subseteq Int /\ arg = 0 /\ waiting = FALSE /\ answer = Missing

MapRequest ==
    /\ ~waiting
    /\ arg' \in Int
    /\ waiting' = TRUE
    /\ UNCHANGED <<records, answer>>

MapReply ==
    /\ waiting
    /\ waiting' = FALSE
    /\ answer' = Failed \/ IsFloor(arg, answer')
    /\ UNCHANGED <<records, arg>>

MapNext == MapRequest \/ MapReply

MapSpec == MapInit /\ [][MapNext]_mapVars
=============================================================================
