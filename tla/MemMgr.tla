------------------------------- MODULE MemMgr -------------------------------
(***************************************************************************)
(* Mem/MemMgr: pages obtained from the system, each with a string of flags *)
(* that says which of its units are in use.  Alloc(n) takes the first run  *)
(* of n free units of the first page that has one and appends a page when  *)
(* none has; Free(p, n) gives the run back.                                *)
(***************************************************************************)
EXTENDS Integers, FiniteSets, FiniteSetsExt, SequencesExt

CONSTANTS
    PageLen,    \* SYSMEMPAGE: 4096 in the code
    NodeLen,    \* sizeof(EleNode)
    Unit,       \* nUnit, Init's blockSize
    MaxRun,     \* bound: the largest n of Alloc(n)
    MaxPages    \* bound: Alloc is not called when it might append one more

ASSUME PageAssumption ==
    /\ PageLen \in Nat /\ NodeLen \in Nat /\ NodeLen < PageLen /\ Unit \in Nat \ {0}
    /\ MaxRun \in Nat /\ MaxPages \in Nat

VARIABLES
    pgUp,       \* Init has run and the object lives
    pgFlags,    \* pFlag of each page, in the order of the list
    pgHeld,     \* the runs callers hold
    pgFault     \* the list pEleHead points to was freed, or never was one

pgVars == <<pgUp, pgFlags, pgHeld, pgFault>>

\* |EleNode|flags|units| => NodeLen + x*Unit + x + 1 = PageLen
UnitsPerPage == (PageLen - NodeLen - 1) \div (Unit + 1)

\* Expend: a page whose flags are all '0' goes to the end of the list.
Expend(pages) == Append(pages, [i \in 1..UnitsPerPage |-> 0])

PgInit == pgUp = FALSE /\ pgFlags = <<>> /\ pgHeld = {} /\ pgFault = FALSE

PgStart ==
    /\ ~ pgUp /\ ~ pgFault
    /\ pgUp' = TRUE /\ pgFlags' = Expend(<<>>)
    /\ UNCHANGED <<pgHeld, pgFault>>

\* Bug: two zeros with a one between them count as neighbours.
MutantRunLength(flags, i, before) == IF flags[i] # 0 THEN before ELSE before + 1

\* count after the i-th flag: the zeros in a row that end there, before of them ending at
\* the flag before it.
RunLength(flags, i, before) == IF flags[i] # 0 THEN 0 ELSE before + 1

Counts(flags) ==
    LET count[i \in 0..Len(flags)] == IF i = 0 THEN 0 ELSE RunLength(flags, i, count[i - 1])
    IN  count

\* The first unit of the run, or -1.
PgFindAvailable(flags, n) ==
    LET count == Counts(flags)
        last == {i \in 1..Len(flags) : count[i] = n}
    IN  IF last = {} THEN -1 ELSE Min(last) - n + 1

PagesWith(n) == {p \in 1..Len(pgFlags) : PgFindAvailable(pgFlags[p], n) # -1}

\* The page Alloc takes the run from.
MutantPageFor(n) == IF PagesWith(n) = {} THEN Len(pgFlags) + 1 ELSE Max(PagesWith(n))
PageFor(n) == IF PagesWith(n) = {} THEN Len(pgFlags) + 1 ELSE Min(PagesWith(n))

Marked(flags, i, n, c) == [k \in DOMAIN flags |-> IF k \in i..(i + n - 1) THEN c ELSE flags[k]]

\* A run no page has room for costs a page, also when a page is too small for it: then
\* NULL is returned and the page stays.
PgAlloc(n) ==
    /\ pgUp /\ Len(pgFlags) < MaxPages
    /\ LET p == PageFor(n)
           pages == IF p \in DOMAIN pgFlags THEN pgFlags ELSE Expend(pgFlags)
           i == PgFindAvailable(pages[p], n)
       IN  IF i = -1
           THEN pgFlags' = pages /\ UNCHANGED pgHeld
           ELSE /\ pgFlags' = [pages EXCEPT ![p] = Marked(@, i, n, 1)]
                /\ pgHeld' = pgHeld \cup {[page |-> p, unit |-> i, n |-> n]}
    /\ UNCHANGED <<pgUp, pgFault>>

PgFree(r) ==
    /\ pgUp
    /\ pgFlags' = [pgFlags EXCEPT ![r.page] = Marked(@, r.unit, r.n, 0)]
    /\ pgHeld' = pgHeld \ {r}
    /\ UNCHANGED <<pgUp, pgFault>>

\* The destructor frees every page.
PgDestroy ==
    /\ pgUp /\ pgUp' = FALSE /\ pgFlags' = <<>> /\ pgHeld' = {}
    /\ UNCHANGED pgFault

\* operator= destroys the pages and leaves pEleHead pointing to the first of them: the
\* Init that follows walks the freed list.
PgAssign ==
    /\ pgUp
    /\ pgUp' = FALSE /\ pgFlags' = <<>> /\ pgHeld' = {} /\ pgFault' = TRUE

\* The copy constructor calls Init with a pEleHead nobody has set.
PgCopy ==
    /\ ~ pgUp /\ ~ pgFault /\ pgFault' = TRUE
    /\ UNCHANGED <<pgUp, pgFlags, pgHeld>>

PgNext ==
    \/ PgStart \/ PgDestroy \/ PgAssign \/ PgCopy
    \/ \E n \in 1..MaxRun : PgAlloc(n)
    \/ \E r \in pgHeld : PgFree(r)

PgSpec == PgInit /\ [][PgNext]_pgVars

-----------------------------------------------------------------------------
(* Properties *)

PgTypeOK ==
    /\ pgUp \in BOOLEAN /\ pgFault \in BOOLEAN
    /\ pgFlags \in Seq([1..UnitsPerPage -> {0, 1}])
    /\ pgHeld \subseteq [page : 1..MaxPages, unit : 1..UnitsPerPage, n : 1..MaxRun]

PgUnits(r) == {r.page} \X (r.unit..(r.unit + r.n - 1))

\* The runs callers hold lie inside their pages, share no unit, and are exactly the
\* units flagged '1', after any mix of Alloc and Free of different lengths.
RunsApart ==
    /\ UNION {PgUnits(r) : r \in pgHeld}
         = {u \in (1..Len(pgFlags)) \X (1..UnitsPerPage) : pgFlags[u[1]][u[2]] = 1}
    /\ \A r, s \in pgHeld : r = s \/ PgUnits(r) \cap PgUnits(s) = {}

RunIn(flags, n) == {i \in 1..(UnitsPerPage - n + 1) : \A k \in i..(i + n - 1) : flags[k] = 0}

\* Alloc is first fit over the whole list: the run it hands out is the first free run
\* of its page, and no page before it has one.
FirstRun ==
    [][\A r \in pgHeld' \ pgHeld :
         /\ \A p \in 1..(r.page - 1) : RunIn(pgFlags[p], r.n) = {}
         /\ r.page \in DOMAIN pgFlags => r.unit = Min(RunIn(pgFlags[r.page], r.n))]_pgVars
=============================================================================
