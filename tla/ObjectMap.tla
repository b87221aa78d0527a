----------------------------- MODULE ObjectMap -----------------------------
(***************************************************************************)
(* Virtual object ids to block addresses: volume::get_paddr over a         *)
(* volume's object map and convert_v_oid over the container's.  The keys   *)
(* of an object map are omap_key_t pairs (oid, xid) in lexicographic       *)
(* order; one oid has a version for every transaction that rewrote it, and *)
(* the reader must take the last one its own superblock's transaction saw. *)
(***************************************************************************)
EXTENDS FloorSearch

CONSTANTS Oids, Xids,       \* object and transaction identifiers
          OmapKey(_, _),    \* the place of (oid, xid) in the order of omap_key_t
          Error             \* get_paddr throws

ASSUME XidAssumption == Oids \subseteq Int /\ Xids \subseteq Int

\* operator<=> of omap_key_t: oid first, xid next.
ASSUME OmapKeyOrder ==
    \A o, p \in Oids, x, y \in Xids :
        /\ OmapKey(o, x) \in Int
        /\ OmapKey(o, x) < OmapKey(p, y) <=> o < p \/ (o = p /\ x < y)

\* The trees are object maps, the queries are keys of object maps.
ASSUME OmapTrees ==
    \A t \in Trees : \A r \in t.under[t.root] : \E o \in Oids, x \in Xids : r = OmapKey(o, x)
ASSUME OmapQueries == \A o \in Oids, x \in Xids : OmapKey(o, x) \in Queries

\* To throw is not to answer with an entry.
ASSUME ErrorAssumption == \A t \in Trees : Error \notin Results(t)

VARIABLES xid,      \* o_xid of the superblock the map is read under
          oid,      \* the argument of get_paddr
          paddr     \* what get_paddr returned: the entry that holds ov_paddr, or Error

omapVars == <<floorVars, xid, oid, paddr>>

ok_oid(r) == CHOOSE o \in Oids : \E x \in Xids : r = OmapKey(o, x)

ObjectMapInit ==
    /\ FloorInit
    /\ xid \in Xids
    /\ oid \in Oids
    /\ paddr = Error

GetPaddr(o) ==
    /\ LookUp(OmapKey(o, xid))
    /\ oid' = o
    /\ UNCHANGED <<xid, paddr>>

Searching ==
    /\ \/ SearchStep /\ UNCHANGED <<key, step, found>>
       \/ StepBack
    /\ UNCHANGED <<xid, oid, paddr>>

\* Mutant: the object id of the entry found is not compared.
Deliver_AnyOid ==
    /\ Finish
    /\ paddr' = IF ret = SENTINEL THEN Error ELSE ret
    /\ UNCHANGED <<xid, oid>>

\* Mutant: only the version of the reader's own transaction is accepted.
Deliver_ExactXid ==
    /\ Finish
    /\ paddr' = IF ret.key # OmapKey(oid, xid) THEN Error ELSE ret
    /\ UNCHANGED <<xid, oid>>

\* The entry found is a version of oid only if its key says so; SENTINEL's key
\* is of no object.
Deliver ==
    /\ Finish
    /\ paddr' = IF ret = SENTINEL \/ ok_oid(ret.key) # oid THEN Error ELSE ret
    /\ UNCHANGED <<xid, oid>>

Fail ==
    /\ Unwind
    /\ paddr' = Error
    /\ UNCHANGED <<xid, oid>>

ObjectMapStep == Searching \/ Deliver \/ Fail

ObjectMapNext == ObjectMapStep \/ \E o \in Oids : GetPaddr(o)

ObjectMapSpec == ObjectMapInit /\ [][ObjectMapNext]_omapVars /\ WF_omapVars(ObjectMapStep)

-----------------------------------------------------------------------------
(* Properties *)

\* The transactions that wrote a version of o.
Versions(o) == {x \in Xids : OmapKey(o, x) \in Records}

\* get_paddr answers with the newest version of the object its transaction may
\* see: never a version of another object, of a later transaction, or an old one.
NewestVisibleVersion ==
    step = "idle" /\ paddr # Error =>
        \E x \in Versions(oid) :
            /\ paddr.key = OmapKey(oid, x)
            /\ IsRecord(paddr)
            /\ x <= xid
            /\ \A y \in Versions(oid) : y <= x \/ xid < y

\* get_paddr throws only when the object has no version the transaction may
\* see, or when a block of the map is bad.
ErrorMeansUnmapped ==
    [][Deliver /\ paddr' = Error => \A y \in Versions(oid) : xid < y]_omapVars

=============================================================================
