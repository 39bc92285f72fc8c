---------------------------- MODULE XStaticAlloc ----------------------------
(***************************************************************************)
(* Mem/XStaticAlloc: an allocator whose bookkeeping lives in the managed   *)
(* area itself, so that a later object (another process, or the same one   *)
(* after a restart) finds the blocks again.  The area is                   *)
(*   | head | flag bits | records (start, length) | memory |               *)
(* and, when the memory is used up, blocks are taken from the end of the   *)
(* record area ("squeezed").  Addresses count bytes from the flag area.    *)
(* What is in the area outlives the object; the three maps do not.         *)
(***************************************************************************)
EXTENDS Integers, FiniteSets, FiniteSetsExt, SequencesExt, Maps

CONSTANTS
    Total,      \* bytes behind the head
    RecSize,    \* sizeof(RangeInfo): 16 in the code
    Bits,       \* BITS_PER_BYTE: 8 in the code
    Lens,       \* the lengths Alloc is called with
    MaxLoads    \* bound: Refresh calls and restarts

ASSUME StaticAssumption ==
    /\ Total \in Nat /\ RecSize \in Nat \ {0} /\ Bits \in Nat \ {0}
    /\ Total * Bits >= 1 + Bits * (RecSize + 1)      \* room for one record and one byte
    /\ Lens \subseteq Nat \ {0} /\ MaxLoads \in Nat

VARIABLES
    saUp,           \* an object has been initialised on the area
    saFormatted,    \* the area begins with STATIC_UNIQUE_SYMBOL
    saRecord,       \* the records whose flag bit is set: index |-> <<start, length>>
    saCount,        \* pCount[0]
    saOffset,       \* *m_pRecordOffset
    saMap,          \* m_RecordMap: address |-> index
    saInfo,         \* m_RecordInfo: address |-> length
    saRange,        \* m_RangeSet: address |-> length
    saHeld,         \* the blocks callers hold, whoever manages the area: address |-> length
    saLoads,
    saTorn          \* why the bookkeeping cannot be trusted any more

saMaps == <<saMap, saInfo, saRange>>
saArea == <<saFormatted, saRecord, saCount, saOffset>>
saVars == <<saUp, saArea, saMaps, saHeld, saLoads, saTorn>>

\* total = head + x/8 + sizeof(RangeInfo)*x + x, solved for x
NMaxCount == (Total * Bits) \div (1 + Bits * (RecSize + 1))
FlagLen == (NMaxCount + Bits - 1) \div Bits
RecordStart == FlagLen
\* m_pStart
SaBegin == RecordStart + NMaxCount * RecSize

RecordBytes(i) == (RecordStart + i * RecSize)..(RecordStart + (i + 1) * RecSize - 1)
SaBytes(f) == UNION {a..(a + f[a] - 1) : a \in DOMAIN f}
SaFlags == DOMAIN saRecord
SaFlagBits == 0..(FlagLen * Bits - 1)

SaInit ==
    /\ saUp = FALSE /\ saFormatted = FALSE
    /\ saRecord = EmptyMap /\ saCount = 0 /\ saOffset = 0
    /\ saMap = EmptyMap /\ saInfo = EmptyMap /\ saRange = EmptyMap
    /\ saHeld = EmptyMap /\ saLoads = 0 /\ saTorn = {}

-----------------------------------------------------------------------------
(* Init, Refresh and the destructor *)

\* The free ranges LoadBlockArea derives from the blocks: the gap before the first, and
\* what follows the others up to the next block, except the last but one; what follows
\* the last only when it is not also the first.
Gaps(info) ==
    LET at == DOMAIN info
        followed == {a \in at : at # {a} /\ Cardinality({b \in at : b > a}) # 1}
        front == IF \A a \in at : a > SaBegin THEN {SaBegin} ELSE {}
        starts == {a + info[a] : a \in followed} \cup front
        next(s) == Min({b \in at \cup {Total} : b > s})
    IN  [s \in starts \ (at \cup {Total}) |-> next(s) - s]

LoadBlockArea ==
    LET rec(a) == CHOOSE i \in SaFlags : saRecord[i][1] = a
        addrs == {saRecord[i][1] : i \in SaFlags}
        info == [a \in addrs |-> saRecord[rec(a)][2]]
    IN  /\ saMap' = [a \in addrs |-> rec(a)]
        /\ saInfo' = info
        /\ saRange' = Gaps(info)

FormatBlockArea ==
    /\ saFormatted' = TRUE /\ saRecord' = EmptyMap /\ saCount' = 0 /\ saOffset' = 0
    /\ saMap' = EmptyMap /\ saInfo' = EmptyMap /\ saRange' = With(EmptyMap, SaBegin, Total - SaBegin)

\* IsRawBlockArea decides which.
SaStart ==
    /\ ~ saUp /\ saUp' = TRUE
    /\ IF saFormatted THEN LoadBlockArea /\ UNCHANGED saArea ELSE FormatBlockArea
    /\ UNCHANGED <<saHeld, saLoads, saTorn>>

\* The object is destroyed, or its process dies between two calls; the area stays.
SaStop ==
    /\ saUp /\ saLoads < MaxLoads /\ saTorn = {}
    /\ saUp' = FALSE /\ saLoads' = saLoads + 1
    /\ saMap' = EmptyMap /\ saInfo' = EmptyMap /\ saRange' = EmptyMap
    /\ UNCHANGED <<saArea, saHeld, saTorn>>

SaRefresh ==
    /\ saUp /\ saLoads < MaxLoads /\ saTorn = {}
    /\ saLoads' = saLoads + 1
    /\ LoadBlockArea
    /\ UNCHANGED <<saUp, saArea, saHeld, saTorn>>

-----------------------------------------------------------------------------
(* Alloc *)

\* nCurIndex after the first scan: the bit of the last used record, or the last bit
\* when no record is used.
LastUsed ==
    IF \E i \in SaFlags : Cardinality({j \in SaFlags : j <= i}) = saCount
    THEN CHOOSE i \in SaFlags : Cardinality({j \in SaFlags : j <= i}) = saCount
    ELSE FlagLen * Bits - 1

\* A block of len bytes can be cut from the end of the record area: one record more
\* than the ones in use must remain.
MutantCanSqueeze(len) == (SaBegin - saOffset) - (RecordStart + LastUsed * RecSize) >= len
CanSqueeze(len) ==
    LET pExtBegin == RecordStart + (LastUsed + 2) * RecSize
        pEnd == SaBegin - saOffset
    IN  pEnd - pExtBegin >= len

FirstRange(len) == Min({a \in DOMAIN saRange : saRange[a] >= len})
HasRange(len) == \E a \in DOMAIN saRange : saRange[a] >= len

\* The index for the new record: the first clear bit; when every bit is set the loop
\* leaves the last one.
NewIndex == IF SaFlagBits \ SaFlags # {} THEN Min(SaFlagBits \ SaFlags) ELSE FlagLen * Bits - 1

\* Set the bit, write the record and the maps, count the block.  An index behind the
\* record area is neither recorded nor counted; a bit that was set already loses its
\* record; a record that reaches into a squeezed block, or into a range that will be
\* handed out, overwrites it and is overwritten by its owner.
Recorded(a, len) ==
    /\ saHeld' = With(saHeld, a, len)
    /\ IF NewIndex >= NMaxCount \/ NewIndex \in SaFlags
         THEN /\ saTorn' = {"exhausted"}
              /\ UNCHANGED <<saRecord, saCount, saMap, saInfo>>
         ELSE /\ saRecord' = With(saRecord, NewIndex, <<a, len>>)
              /\ saCount' = saCount + 1
              /\ saMap' = Inserted(saMap, a, NewIndex)
              /\ saInfo' = Inserted(saInfo, a, len)
              /\ saTorn' = IF RecordBytes(NewIndex) \cap (SaBytes(saHeld') \cup SaBytes(saRange')) # {}
                           THEN {"overlap"} ELSE {}
    /\ UNCHANGED <<saUp, saFormatted, saLoads>>

AllocFromRange(len) ==
    /\ saUp /\ saTorn = {} /\ HasRange(len)
    /\ LET a == FirstRange(len)
           left == Without(saRange, a)
       IN  /\ saRange' = IF saRange[a] > len THEN With(left, a + len, saRange[a] - len) ELSE left
           /\ Recorded(a, len)
    /\ UNCHANGED saOffset

AllocSqueezed(len) ==
    /\ saUp /\ saTorn = {} /\ ~ HasRange(len) /\ CanSqueeze(len)
    /\ saOffset' = saOffset + len
    /\ UNCHANGED saRange
    /\ Recorded(SaBegin - saOffset - len, len)

-----------------------------------------------------------------------------
(* Free *)

\* Neighbouring free ranges become one.
SaMerged(r) ==
    LET ends == {a + r[a] : a \in DOMAIN r}
    IN  [a \in DOMAIN r \ ends |-> Min({e \in ends \ DOMAIN r : e > a}) - a]

\* A first range that begins where the squeezed blocks begin goes back to the record
\* area, as far as it belongs to it.
MutantGivenBack(r, off) ==      \* bug: the whole range is dropped
    IF off > 0 /\ DOMAIN r # {} /\ Min(DOMAIN r) = SaBegin - off
    THEN [range |-> Without(r, Min(DOMAIN r)), offset |-> Max({0, off - r[Min(DOMAIN r)]})]
    ELSE [range |-> r, offset |-> off]
GivenBack(r, off) ==
    LET a == Min(DOMAIN r)
    IN  IF off > 0 /\ DOMAIN r # {} /\ a = SaBegin - off
        THEN IF r[a] <= off
             THEN [range |-> Without(r, a), offset |-> off - r[a]]
             ELSE [range |-> With(Without(r, a), SaBegin, r[a] - off), offset |-> 0]
        ELSE [range |-> r, offset |-> off]

SaFree(a) ==
    /\ saUp /\ saTorn = {} /\ a \in DOMAIN saInfo
    /\ saRecord' = Without(saRecord, saMap[a])
    /\ saCount' = saCount - 1
    /\ saMap' = Without(saMap, a) /\ saInfo' = Without(saInfo, a)
    /\ saHeld' = Without(saHeld, a)
    /\ LET g == GivenBack(SaMerged(Inserted(saRange, a, saInfo[a])), saOffset)
       IN  saRange' = g.range /\ saOffset' = g.offset
    /\ UNCHANGED <<saUp, saFormatted, saLoads, saTorn>>

SaNext ==
    \/ SaStart \/ SaStop \/ SaRefresh
    \/ \E len \in Lens : AllocFromRange(len) \/ AllocSqueezed(len)
    \/ \E a \in DOMAIN saHeld : SaFree(a)

SaSpec == SaInit /\ [][SaNext]_saVars

-----------------------------------------------------------------------------
(* Properties *)

SaTypeOK ==
    /\ saUp \in BOOLEAN /\ saFormatted \in BOOLEAN
    /\ SaFlags \subseteq 0..(NMaxCount - 1) /\ saCount \in 0..NMaxCount
    /\ saOffset \in 0..(NMaxCount * RecSize)
    /\ saTorn \subseteq {"exhausted", "overlap"} /\ saLoads \in 0..MaxLoads

\* GetNormalAvailableSize: the bytes that are not record area.
NormalAvailableSize == Total - SaBegin + saOffset

\* As long as the records have not run out or grown into the memory, the blocks callers
\* hold are the ones the area records, however often it was reloaded: they share no byte
\* with each other, with a record in use or with a range Alloc may still hand out, and the
\* count and the squeezed area agree with them.
BlocksApart ==
    saTorn = {} =>
      /\ \A a, b \in DOMAIN saHeld : a < b => a + saHeld[a] <= b
      /\ (SaBytes(saHeld) \cup SaBytes(saRange))
           \cap (0..(FlagLen - 1) \cup UNION {RecordBytes(i) : i \in SaFlags}) = {}
      /\ saCount = Cardinality(SaFlags)
      /\ {saRecord[i] : i \in SaFlags} = {<<a, saHeld[a]>> : a \in DOMAIN saHeld}
      /\ SaBytes(saHeld) \cap SaBytes(saRange) = {}
      /\ SaBytes(saHeld) \cup SaBytes(saRange) \subseteq (SaBegin - saOffset)..(Total - 1)

\* Until the area is reloaded no byte is lost: what is held and what is free make up
\* the memory and the squeezed part of the record area, and free ranges never touch.
NothingLost ==
    saTorn = {} /\ saUp /\ saLoads = 0 =>
      /\ Cardinality(SaBytes(saHeld) \cup SaBytes(saRange)) = NormalAvailableSize
      /\ \A a \in DOMAIN saRange : a + saRange[a] \notin DOMAIN saRange
=============================================================================
