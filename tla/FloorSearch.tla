---------------------------- MODULE FloorSearch ----------------------------
(***************************************************************************)
(* The lookup that volume::get_paddr, partition's convert_v_oid and        *)
(* read_file all make: kv = upper_bound(key), then prev(kv.key), which is  *)
(* meant to be the last record at or below key.  The second search starts  *)
(* from the key of SENTINEL when the first one finds nothing.              *)
(***************************************************************************)
EXTENDS BTree

CONSTANTS Missing, Failed

\* What numeric_limits<KeyType>::max() is for: SENTINEL's key is above every record.
ASSUME SentinelIsLast == \A t \in Trees : \A x \in t.under[t.root] : x < SentinelKey

\* The answers that are no record differ from every entry.
ASSUME AnswerAssumption ==
    \A t \in Trees : Missing \notin Results(t) /\ Failed \notin Results(t)

VARIABLES key,      \* the argument of the lookup
          step,     \* "idle", "upper" or "prev": the search it waits for
          found     \* the entry of the last lookup, Missing or Failed

floorVars == <<btreeVars, key, step, found>>

FloorInit ==
    /\ BTreeInit
    /\ key = 0
    /\ step = "idle"
    /\ found = Missing

LookUp(q) ==
    /\ step = "idle"
    /\ Begin("upper_bound", q)
    /\ key' = q
    /\ step' = "upper"
    /\ UNCHANGED found

\* Mutant: the second search starts from the lookup's argument.
StepBack_FromKey ==
    /\ step = "upper"
    /\ phase = "answered"
    /\ Begin("prev", key)
    /\ step' = "prev"
    /\ UNCHANGED <<key, found>>

StepBack ==
    /\ step = "upper"
    /\ phase = "answered"
    /\ Begin("prev", ret.key)
    /\ step' = "prev"
    /\ UNCHANGED <<key, found>>

Finish ==
    /\ step = "prev"
    /\ phase = "answered"
    /\ step' = "idle"
    /\ found' = IF ret = SENTINEL THEN Missing ELSE ret
    /\ UNCHANGED <<btreeVars, key>>

\* The exception of a bad block leaves the lookup at once.
Unwind ==
    /\ step # "idle"
    /\ phase = "threw"
    /\ step' = "idle"
    /\ found' = Failed
    /\ UNCHANGED <<btreeVars, key>>

FloorStep ==
    \/ SearchStep /\ UNCHANGED <<key, step, found>>
    \/ StepBack
    \/ Finish
    \/ Unwind

FloorNext == FloorStep \/ \E q \in Queries : LookUp(q)

FloorSpec == FloorInit /\ [][FloorNext]_floorVars /\ WF_floorVars(FloorStep)

-----------------------------------------------------------------------------
(* Properties *)

FloorTypeOK ==
    /\ BTreeTypeOK
    /\ key \in Int
    /\ step \in {"idle", "upper", "prev"}
    /\ found \in Results(tree) \cup {Missing, Failed}

\* The lookup answers with the last record at or below its argument, value
\* included, and with nothing exactly when there is no such record.
FoundIsFloor ==
    step = "idle" =>
        \/ found \in {Missing, Failed}
        \/ /\ IsRecord(found)
           /\ found.key \in Records
           /\ found.key <= key
           /\ \A x \in Records : x <= found.key \/ key < x

\* The inductive invariant of the lookup: the searches keep theirs, and the
\* argument of the second one separates the records at or below key from those
\* above it, whether it is a record's key, an index entry's or SENTINEL's.
FloorIInv ==
    /\ BTreeIInv
    /\ FloorTypeOK
    /\ tree.under[tree.root] \subseteq {x \in Int : x < SentinelKey}
    /\ Missing \notin Results(tree) /\ Failed \notin Results(tree)
    /\ step = "upper" => op = "upper_bound" /\ k = key
    /\ step = "prev" => op = "prev" /\ \A x \in Records : x <= key <=> x < k
    /\ FoundIsFloor

\* The lookup, block by block, is a lookup in an ordered map in one step.
Map == INSTANCE OrderedMap WITH
    records <- Records,
    arg     <- key,
    waiting <- step # "idle",
    answer  <- IF found \in {Missing, Failed} THEN found ELSE found.key

ImplementsMap == Map!MapSpec
=============================================================================
