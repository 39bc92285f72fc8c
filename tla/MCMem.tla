-------------------------------- MODULE MCMem --------------------------------
(* The memory components, one of them in each behaviour: the object pool,    *)
(* the allocator of the shared area, the page allocator, the block pool and  *)
(* the shared pointer.                                                       *)
EXTENDS ObjPool, XStaticAlloc, MemMgr, MemPool, RefPtr

VARIABLE part           \* which one runs

MCBlockType == <<4, 8, 16>>

MCInit ==
    /\ Init /\ SaInit /\ PgInit /\ MpInit /\ RpInit
    /\ part \in {"objects", "area", "pages", "blocks", "pointers"}
    /\ part # "blocks" => mpWord = 8

\* Bound: a second reset of the object pool is the RetryInitObj that follows a ClearPool.
ResetPair == resets = 1 /\ resets' = 2 => stale /\ dead' = dead

MCNext ==
    /\ \/ part = "objects" /\ Next /\ ResetPair /\ UNCHANGED <<saVars, pgVars, mpVars, rpVars>>
       \/ part = "area" /\ SaNext /\ UNCHANGED <<vars, pgVars, mpVars, rpVars>>
       \/ part = "pages" /\ PgNext /\ UNCHANGED <<vars, saVars, mpVars, rpVars>>
       \/ part = "blocks" /\ MpNext /\ UNCHANGED <<vars, saVars, pgVars, rpVars>>
       \/ part = "pointers" /\ RpNext /\ UNCHANGED <<vars, saVars, pgVars, mpVars>>
    /\ UNCHANGED part

MCSpec == MCInit /\ [][MCNext]_<<vars, saVars, pgVars, mpVars, rpVars, part>>

\* The variables of the component that runs keep their types.
MemTypeOK ==
    CASE part = "objects" -> TypeOK
      [] part = "area" -> SaTypeOK
      [] part = "pages" -> PgTypeOK
      [] part = "blocks" -> MpTypeOK
      [] part = "pointers" -> RpTypeOK

\* Both scans are first fit: Alloc of the object pool (ObjPool.h, FindAvailable) over its
\* slots, Alloc of the page allocator (MemMgr.cpp, FindAvailable) over its list of pages.
FirstFits == [](part = "objects" => FirstFit) /\ FirstRun

\* What the shared area (XStaticAlloc.cpp) and the page allocator (MemMgr.cpp) have handed
\* out never overlaps, whatever was freed, merged, reloaded and squeezed before, and until
\* a reload no byte of the area is lost.
Apart ==
    /\ part = "area" => BlocksApart /\ NothingLost
    /\ part = "pages" => RunsApart
=============================================================================
