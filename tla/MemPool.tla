------------------------------- MODULE MemPool -------------------------------
(***************************************************************************)
(* Mem/MemPool: buffers cut into nodes of a few lengths (m_pools); a node  *)
(* that is larger than the request is split into chips, which may be split *)
(* again; free chips and freed nodes are listed by length (m_poolset), and *)
(* a thread merges the chips of a node none of which is in use.  Every     *)
(* operation runs under m_lock and is one step.                            *)
(*                                                                         *)
(* A node is named by its path: <<length, place in the vector>> and then   *)
(* the key of each chip on the way down.  An address is Far times the      *)
(* number of the buffer plus the offset in it.                             *)
(***************************************************************************)
EXTENDS Integers, FiniteSets, FiniteSetsExt, SequencesExt, TLC, Maps

CONSTANTS
    BlockType,      \* blockType
    DefaultBlock,   \* DEFAULTBLOCK
    DefaultCount,   \* DEFAULTCOUNT
    WordSizes,      \* sizeof(size_t) of the builds
    ReqLens,        \* the lengths Alloc and Realloc are called with
    MaxHeld,        \* bound: blocks held at a time
    MaxBufs         \* bound: buffers taken from the system

ASSUME PoolAssumption ==
    /\ BlockType \in Seq(Nat \ {0}) /\ BlockType # <<>> /\ DefaultBlock \in Nat \ {0}
    /\ DefaultCount \in Nat \ {0} /\ WordSizes \subseteq Nat
    /\ ReqLens \subseteq Nat \ {0} /\ MaxHeld \in Nat /\ MaxBufs \in Nat

VARIABLES
    mpWord,     \* sizeof(size_t) of this build
    mpBufs,     \* the lengths of m_OriginalBuffer
    mpNodes,    \* every node: path |-> [start, len, st]
    mpSet,      \* m_poolset: length |-> sequence of paths
    mpRecord,   \* m_record: address |-> path
    mpHeld,     \* the blocks callers hold: address |-> length
    mpFault     \* what the code did that C++ gives no meaning to, or "ok"

mpVars == <<mpWord, mpBufs, mpNodes, mpSet, mpRecord, mpHeld, mpFault>>

Far == 1000
BufLen == DefaultBlock * DefaultCount

Chips(nodes, p) == {q \in DOMAIN nodes : Len(q) = Len(p) + 1 /\ IsPrefix(p, q)}
Below(nodes, p) == {q \in DOMAIN nodes : IsPrefix(p, q)}
PoolOf(nodes, len) == {p \in DOMAIN nodes : Len(p) = 2 /\ p[1] = len}

\* GetRemain: the free bytes under a node.
GetRemain(nodes, p) ==
    MapThenSumSet(LAMBDA q : nodes[q].len, {q \in Below(nodes, p) : nodes[q].st = "none"})

-----------------------------------------------------------------------------
(* UpdatePools *)

UseSize(i) == IF i <= 2 THEN DefaultBlock \div 2 ELSE DefaultBlock

\* push_back of k nodes of one length, the first at address a.
Pushed(nodes, len, a, k) ==
    LET c == Cardinality(PoolOf(nodes, len))
        at == {<<len, c + j>> : j \in 1..k}
    IN  [p \in DOMAIN nodes \cup at |->
           IF p \in at THEN [start |-> a + (p[2] - c - 1) * len, len |-> len, st |-> "none"]
           ELSE nodes[p]]

\* GetRemainByType(t) > GetCapacityByType(t)/10*3
Enough(nodes, t) ==
    LET pool == PoolOf(nodes, t)
    IN  MapThenSumSet(LAMBDA p : GetRemain(nodes, p), pool)
          > ((Cardinality(pool) * t) \div 10) * 3

\* One turn of the for loop, for type i; s.init is bInit.
Cut(s, i) ==
    IF ~ s.init /\ Enough(s.nodes, BlockType[i]) THEN [s EXCEPT !.full = @ + 1]
    ELSE IF s.off <= BufLen
      THEN [s EXCEPT !.nodes = Pushed(@, BlockType[i], s.base + s.off,
                                      UseSize(i) \div BlockType[i]),
                     !.off = @ + UseSize(i)]
      ELSE s

\* One pass of the do loop.  One that adds nothing and does not set bInit is repeated for
\* ever.
Pass(s) ==
    LET t == FoldLeft(Cut, [s EXCEPT !.full = 0], [i \in 1..Len(BlockType) |-> i])
        u == [t EXCEPT !.init = @ \/ t.full = mpWord]
    IN  [u EXCEPT !.hang = u.off <= BufLen /\ u.off = s.off /\ u.init = s.init]

\* The do loop: a pass that does not hang sets bInit or adds a byte at least.
Passes(s) ==
    FoldLeft(LAMBDA t, k : IF t.off > BufLen \/ t.hang THEN t ELSE Pass(t),
             s, [k \in 1..(BufLen + 2) |-> k])

\* What the last chunk leaves over becomes a node of its own length.
WithTail(s) ==
    LET off == s.off - UseSize(Len(BlockType))
    IN  IF ~ s.hang /\ off < BufLen THEN Pushed(s.nodes, BufLen - off, s.base + off, 1) ELSE s.nodes

UpdatePools(nodes, base, init) ==
    LET s == Passes([nodes |-> nodes, base |-> base, off |-> 0, full |-> 0,
                     init |-> init, hang |-> FALSE])
    IN  [nodes |-> WithTail(s), hang |-> s.hang]

MpInit ==
    /\ mpWord \in WordSizes
    /\ mpBufs = <<BufLen>>
    /\ mpNodes = UpdatePools(EmptyMap, Far, TRUE).nodes
    /\ mpSet = EmptyMap /\ mpRecord = EmptyMap /\ mpHeld = EmptyMap /\ mpFault = "ok"

-----------------------------------------------------------------------------
(* Alloc: st is the state the steps of one call work on *)

MpState == [bufs |-> mpBufs, nodes |-> mpNodes, set |-> mpSet, rec |-> mpRecord, fault |-> mpFault]

\* GetCorrectLessChipLen
CorrectLen(len) ==
    IF len > DefaultBlock THEN ((len + DefaultBlock - 1) \div DefaultBlock) * DefaultBlock ELSE len

\* UpdatePools' own nodes that leave their buffer or share bytes with another one.
Unsound(st, p) ==
    LET n == st.nodes[<<p[1], p[2]>>]
    IN  \/ (n.start % Far) + n.len > st.bufs[n.start \div Far]
        \/ \E q \in DOMAIN st.nodes : /\ Len(q) = 2 /\ q # <<p[1], p[2]>>
                                      /\ st.nodes[q].start = n.start /\ st.nodes[q].len = n.len

\* GetAvailableAddress: the node below p that GetAddress is called for.  Of the chips
\* of a split node only the first is looked at.
Candidate(nodes, p) ==
    LET at[q \in DOMAIN nodes] ==
          IF nodes[q].st # "alloc" THEN q
          ELSE at[Append(q, Min({c[Len(c)] : c \in Chips(nodes, q)}))]
    IN  at[p]

Available(nodes, p, len) ==
    LET q == Candidate(nodes, p) IN nodes[q].st = "none" /\ nodes[q].len >= len

\* The vector of the set for a length.
Listed(set, len) == IF len \in DOMAIN set THEN set[len] ELSE <<>>

\* GetAddress: the node as it is, or a chip of the wanted length and one of the rest.
\* Two chips of one length are one entry of mChips.
GetAddress(st, q, len) ==
    LET n == st.nodes[q]
        rest == n.len - len
        used == Append(q, len)
        free == Append(q, rest)
        split == Inserted(Inserted([st.nodes EXCEPT ![q].st = "alloc"],
                     used, [start |-> n.start, len |-> len, st |-> "use"]),
                     free, [start |-> n.start + len, len |-> rest, st |-> "none"])
    IN  IF rest = 0
        THEN [st EXCEPT !.nodes[q].st = "use", !.rec = Inserted(@, n.start, q), !.got = q]
        ELSE [st EXCEPT !.nodes = split, !.rec = Inserted(@, n.start, used),
                        !.set = With(@, rest, Append(Listed(@, rest), free)), !.got = used,
                        !.fault = IF rest = len THEN "halves" ELSE @]

\* Bug: the entry that was used stays in the list.
MutantTaken(set, len, i) == set
Taken(set, len, i) == [set EXCEPT ![len] = RemoveAt(@, i)]

\* m_poolset has a list for this length: its last entry is used, if there is one.
FromList(st, len) ==
    LET l == st.set[len]
        q == l[Len(l)]
    IN  IF l = <<>> THEN [st EXCEPT !.fault = "empty"]
        ELSE [st EXCEPT !.rec = Inserted(@, st.nodes[q].start, q), !.nodes[q].st = "use",
                        !.set = Taken(@, len, Len(l)), !.got = q]

\* The first entry of a longer length that can be split, in the order of the map.
Splittable(st, len) ==
    {x \in {k \in DOMAIN st.set : k >= len} \X (1..MaxHeld * 4) :
        x[2] <= Len(st.set[x[1]]) /\ Available(st.nodes, st.set[x[1]][x[2]], len)}
Least(pairs) == CHOOSE a \in pairs : \A b \in pairs : a[1] < b[1] \/ (a[1] = b[1] /\ a[2] <= b[2])

FromLonger(st, len) ==
    LET s == Least(Splittable(st, len))
    IN  [GetAddress(st, Candidate(st.nodes, st.set[s[1]][s[2]]), len)
           EXCEPT !.set = IF s[1] \in DOMAIN @ THEN Taken(@, s[1], s[2]) ELSE @]

\* A length above the block types gets a buffer and a pool of its own, once.
WithBuffer(st, len) ==
    IF len > Last(BlockType) /\ PoolOf(st.nodes, len) = {}
    THEN [st EXCEPT !.bufs = Append(@, len),
                    !.nodes = Pushed(@, len, Far * (Len(st.bufs) + 1), 1)]
    ELSE st

InPools(st, len) ==
    {p \in DOMAIN st.nodes : Len(p) = 2 /\ p[1] >= len /\ Available(st.nodes, p, len)}

\* expand(), u being what UpdatePools made, and the search of the pool of exactly this
\* length.  The vectors that grow move their nodes: pointers into them are left in
\* m_record and m_poolset.
Expanded(st, len, u) ==
    LET grown == {p[1] : p \in {p \in DOMAIN u.nodes \ DOMAIN st.nodes : Len(p) = 2}}
        pointers == {st.rec[a] : a \in DOMAIN st.rec}
                      \cup UNION {ToSet(st.set[k]) : k \in DOMAIN st.set}
        fit == {p \in PoolOf(u.nodes, len) : GetRemain(u.nodes, p) >= len}
        next == [st EXCEPT !.nodes = u.nodes, !.bufs = Append(@, BufLen)]
    IN  IF u.hang THEN [st EXCEPT !.fault = "endless"]
        ELSE IF \E p \in pointers : p[1] \in grown THEN [st EXCEPT !.fault = "moved"]
        ELSE IF PoolOf(u.nodes, len) = {} THEN [st EXCEPT !.fault = "end"]
        ELSE IF fit = {} THEN next
        ELSE GetAddress(next, Least(fit), len)

AllocImpl(st, len) ==
    LET b == WithBuffer(st, len)
    IN  IF len \in DOMAIN st.set THEN FromList(st, len)
        ELSE IF Splittable(st, len) # {} THEN WithBuffer(FromLonger(st, len), len)
        ELSE IF InPools(b, len) # {}
          THEN GetAddress(b, Candidate(b.nodes, Least(InPools(b, len))), len)
        ELSE Expanded(b, len, UpdatePools(b.nodes, Far * (Len(b.bufs) + 1), FALSE))

\* The new values of the variables after a call, drop being the address it gave back.
MpLeave(st, len, drop) ==
    LET bad == st.fault = "ok" /\ st.got # <<>> /\ Unsound(st, st.got)
        a == st.nodes[st.got].start
        kept == IF drop = 0 THEN mpHeld ELSE Without(mpHeld, drop)
    IN  /\ mpFault' = IF bad THEN "layout" ELSE st.fault
        /\ mpBufs' = st.bufs /\ mpNodes' = st.nodes /\ mpSet' = st.set /\ mpRecord' = st.rec
        /\ mpHeld' = IF st.fault # "ok" \/ st.got = <<>> THEN mpHeld ELSE With(kept, a, len)
        /\ UNCHANGED mpWord

MpMay == mpFault = "ok" /\ Len(mpBufs) < MaxBufs
Call == MpState @@ [got |-> <<>>]

MpAlloc(len) ==
    /\ MpMay /\ Cardinality(DOMAIN mpHeld) < MaxHeld
    /\ MpLeave(AllocImpl(Call, CorrectLen(len)), CorrectLen(len), 0)

-----------------------------------------------------------------------------
(* Free and Realloc *)

Freed(st, a) ==
    LET q == st.rec[a]
        len == st.nodes[q].len
    IN  [st EXCEPT !.nodes[q].st = "none", !.rec = Without(@, a),
                   !.set = With(@, len, Append(Listed(@, len), q))]

MpFree(a) ==
    /\ mpFault = "ok"
    /\ LET st == Freed(Call, a)
       IN  /\ mpNodes' = st.nodes /\ mpSet' = st.set /\ mpRecord' = st.rec
           /\ mpHeld' = Without(mpHeld, a)
    /\ UNCHANGED <<mpWord, mpBufs, mpFault>>

\* The old block's whole length is copied into the new one.
Realloc(a, len) ==
    /\ MpMay /\ mpNodes[mpRecord[a]].len # len
    /\ LET st == AllocImpl(Call, CorrectLen(len))
           moved == Freed(st, a)
       IN  IF st.fault # "ok" \/ st.got = <<>> THEN MpLeave(st, CorrectLen(len), 0)
           ELSE MpLeave([moved EXCEPT !.fault =
                         IF mpHeld[a] > CorrectLen(len) THEN "copied too much" ELSE @],
                      CorrectLen(len), a)

\* The thread's pass: MergeFree on every node.  A split node with no chip in use is whole
\* again, and its chips leave the lists; one that is not listed is erased all the same.
Whole(nodes) ==
    {p \in DOMAIN nodes : nodes[p].st = "alloc" /\ \A q \in Below(nodes, p) : nodes[q].st # "use"}

Merge ==
    /\ mpFault = "ok" /\ Whole(mpNodes) # {}
    /\ LET gone == UNION {Below(mpNodes, p) \ {p} : p \in Whole(mpNodes)}
           top == Whole(mpNodes) \ gone
       IN  IF \E q \in gone : q \notin ToSet(Listed(mpSet, mpNodes[q].len))
           THEN mpFault' = "erased end" /\ UNCHANGED <<mpNodes, mpSet>>
           ELSE /\ mpNodes' = [p \in DOMAIN mpNodes \ gone |->
                                 IF p \in top THEN [mpNodes[p] EXCEPT !.st = "none"] ELSE mpNodes[p]]
                /\ mpSet' = [k \in DOMAIN mpSet |-> SelectSeq(mpSet[k], LAMBDA q : q \notin gone)]
                /\ UNCHANGED mpFault
    /\ UNCHANGED <<mpWord, mpBufs, mpRecord, mpHeld>>

MpNext ==
    \/ Merge
    \/ \E len \in ReqLens : MpAlloc(len) \/ \E a \in DOMAIN mpHeld : Realloc(a, len)
    \/ \E a \in DOMAIN mpHeld : MpFree(a)

MpSpec == MpInit /\ [][MpNext]_mpVars

-----------------------------------------------------------------------------
(* Properties *)

MpTypeOK ==
    /\ mpBufs \in Seq(Nat) /\ Len(mpBufs) <= MaxBufs
    /\ \A p \in DOMAIN mpNodes : mpNodes[p] \in [start : Nat, len : Nat, st : {"none", "use", "alloc"}]
    /\ mpFault \in {"ok", "empty", "halves", "layout", "endless", "moved", "end",
                    "copied too much", "erased end"}

\* Until the code does something undefined, the blocks in callers' hands are disjoint, lie
\* in their buffers and are the ones m_record would free; no list offers a chip that is
\* in use, and none offers the same one twice.
ChipsApart ==
    mpFault = "ok" =>
      /\ DOMAIN mpRecord = DOMAIN mpHeld
      /\ \A a \in DOMAIN mpHeld : mpNodes[mpRecord[a]] = [start |-> a, len |-> mpHeld[a], st |-> "use"]
      /\ \A a, b \in DOMAIN mpHeld : a < b => a + mpHeld[a] <= b
      /\ \A a \in DOMAIN mpHeld : (a % Far) + mpHeld[a] <= mpBufs[a \div Far]
      /\ \A k \in DOMAIN mpSet :
           \A i, j \in DOMAIN mpSet[k] :
             /\ mpNodes[mpSet[k][i]].st = "none" /\ mpNodes[mpSet[k][i]].len = k
             /\ i # j => mpSet[k][i] # mpSet[k][j]
=============================================================================
