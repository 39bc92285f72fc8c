------------------------------ MODULE Mem_proofs ------------------------------
(***************************************************************************)
(* Proofs about the memory components: the shared pointer, the object pool, *)
(* the page allocator and the allocator of the shared area, each for every *)
(* value of its constants, and the run of all of them.  The block pool is  *)
(* left to TLC.                                                            *)
(***************************************************************************)
EXTENDS MCMem, TLAPS, FiniteSetTheorems, SequenceTheorems, NaturalsInduction, WellFoundedInduction

\* A nonempty set of naturals has a least element.
LEMMA LeastIn ==
    ASSUME NEW T \in SUBSET Nat, T # {}
    PROVE  \E x \in T : \A y \in T : x <= y
<1> DEFINE R == {ss \in Nat \X Nat : ss[1] < ss[2]}
<1>1. IsWellFoundedOn(R, Nat)
  BY NatLessThanWellFounded DEF OpToRel
<1> HIDE DEF R
<1>2. PICK x \in T : \A y \in T : ~ (<<y, x>> \in R)
  BY <1>1, WFMin
<1>3. ASSUME NEW y \in T PROVE x <= y
  <2>1. ~ (<<y, x>> \in R) /\ x \in Nat /\ y \in Nat
    BY <1>2
  <2>2. ~ (y < x)
    BY <2>1 DEF R
  <2>. QED BY <2>1, <2>2
<1>. QED BY <1>3

LEMMA MinIs ==
    ASSUME NEW T \in SUBSET Nat, T # {}
    PROVE  Min(T) \in T /\ \A y \in T : Min(T) <= y
<1>1. \E x \in T : \A y \in T : x <= y
  BY LeastIn
<1>. QED BY <1>1 DEF Min

\* A nonempty set of naturals with a bound has a greatest element.
LEMMA GreatestIn ==
    ASSUME NEW T \in SUBSET Nat, NEW m \in Nat, T # {}, \A x \in T : x <= m
    PROVE  \E x \in T : \A y \in T : y <= x
<1> DEFINE R == {z \in Nat : \E x \in T : z = m - x}
<1>1. R \in SUBSET Nat
  OBVIOUS
<1>2. R # {}
  <2>1. PICK x \in T : TRUE
    OBVIOUS
  <2>2. m - x \in R
    BY <2>1
  <2>. QED BY <2>2
<1>3. \A y \in T : m - y \in R
  OBVIOUS
<1>4. \A z \in R : z \in Nat /\ \E x \in T : z = m - x
  OBVIOUS
<1> HIDE DEF R
<1>5. PICK z \in R : \A y \in R : z <= y
  BY <1>1, <1>2, LeastIn
<1>6. PICK x \in T : z = m - x
  BY <1>4, <1>5
<1>7. ASSUME NEW y \in T PROVE y <= x
  <2>1. z <= m - y
    BY <1>3, <1>5
  <2>2. m \in Nat /\ x \in Nat /\ y \in Nat
    OBVIOUS
  <2>. QED BY <1>6, <2>1, <2>2
<1>. QED BY <1>7

\* Division rounds down.
LEMMA DivideIs ==
    ASSUME NEW x \in Nat, NEW d \in Nat \ {0}
    PROVE  x \div d \in Nat /\ (x \div d) * d <= x /\ (x >= d => x \div d >= 1)
  OBVIOUS

-----------------------------------------------------------------------------
(***************************************************************************)
(* The shared pointer, for any number of pointers and objects: as long as  *)
(* an object's pointers are of one mode, it is deleted once and none of    *)
(* its users is left with it unaware.                                      *)
(***************************************************************************)

\* The table and the pointers agree: who is registered refers to the object; who refers to
\* an object is registered or was told that it is gone; and only the pointer made from the
\* raw address is not weak.
Table == \A o \in RefObjs : \A p \in rpRef[o] : p \in rpLive /\ rpData[p] = o
Referring(p) ==
    rpData[p] # NullObj =>
        /\ rpData[p] \in rpMade
        /\ p \in rpRef[rpData[p]] \/ rpHasFree[p]
        /\ rpHasFree[p] => rpData[p] \in rpDeleted
        /\ ~ rpWeak[p] => ~ rpHasFree[p]
OneStrong ==
    \A p, q \in rpLive :
        rpData[p] = rpData[q] /\ rpData[p] # NullObj /\ ~ rpWeak[p] /\ ~ rpWeak[q] => p = q
Registered == Table /\ OneStrong /\ \A p \in rpLive : Referring(p)

OneMode ==
    \A p, q \in rpLive :
        rpData[p] = rpData[q] /\ rpData[p] # NullObj /\ ~ (rpLoop[p] <=> rpLoop[q])
            => rpData[p] \in rpMixed

\* A pointer to an object that is gone, and was not mixed, knows it.
Knows(p) == rpData[p] \in rpDeleted /\ rpData[p] \notin rpMixed => rpLoop[p] /\ rpHasFree[p]

RefInv ==
    /\ RpTypeOK /\ Registered /\ OneMode
    /\ rpTwice => rpMixed # {}
    /\ \A p \in rpLive : Knows(p)

\* NowMixed notes the objects with pointers of both modes.
LEMMA ModeStep ==
    ASSUME RpTypeOK', NowMixed PROVE OneMode' /\ rpMixed \subseteq rpMixed'
<1>1. rpMixed \subseteq rpMixed'
  BY DEF NowMixed
<1>2. ASSUME NEW p \in rpLive', NEW q \in rpLive', rpData'[p] = rpData'[q], rpData'[p] # NullObj,
             ~ (rpLoop'[p] <=> rpLoop'[q])
      PROVE  rpData'[p] \in rpMixed'
  <2>1. rpData'[p] \in RefObjs
    BY <1>2 DEF RpTypeOK
  <2>2. rpLoop'[p] # rpLoop'[q]
    BY <1>2
  <2>. QED BY <1>2, <2>1, <2>2 DEF NowMixed
<1>. QED BY <1>1, <1>2 DEF OneMode

\* NowMixed adds only objects that were wrapped.
LEMMA MixedMade ==
    ASSUME NowMixed, rpMixed \subseteq rpMade', \A p \in rpLive' : rpData'[p] \in RefObjs => rpData'[p] \in rpMade'
    PROVE  rpMixed' \subseteq rpMade'
  BY DEF NowMixed

\* A new pointer on a new object.
LEMMA WrapStep ==
    ASSUME RefInv, NEW p \in Ptrs, NEW o \in RefObjs, Wrap(p, o) PROVE RefInv'
<1> USE RefAssumption DEF RefInv
<1>1. /\ p \notin rpLive /\ o \notin rpMade /\ o # NullObj
      /\ rpLive' = rpLive \cup {p} /\ rpMade' = rpMade \cup {o}
      /\ UNCHANGED <<rpDeleted, rpTwice>> /\ NowMixed
      /\ rpData' = [rpData EXCEPT ![p] = o] /\ rpWeak' = [rpWeak EXCEPT ![p] = FALSE]
      /\ rpLoop' = [rpLoop EXCEPT ![p] = FALSE] /\ rpHasFree' = [rpHasFree EXCEPT ![p] = FALSE]
      /\ rpRef' = [rpRef EXCEPT ![o] = rpRef[o] \cup {p}]
  BY DEF Wrap, AddRef
<1>2. /\ rpData'[p] = o /\ ~ rpWeak'[p] /\ ~ rpLoop'[p] /\ ~ rpHasFree'[p]
      /\ rpRef'[o] = rpRef[o] \cup {p} /\ \A x \in RefObjs \ {o} : rpRef'[x] = rpRef[x]
  BY <1>1 DEF RpTypeOK
<1>3. \A q \in Ptrs \ {p} : /\ rpData'[q] = rpData[q] /\ (rpWeak'[q] <=> rpWeak[q])
                            /\ (rpLoop'[q] <=> rpLoop[q]) /\ (rpHasFree'[q] <=> rpHasFree[q])
  BY <1>1 DEF RpTypeOK
<1>4. \A q \in rpLive' : rpData'[q] \in RefObjs => rpData'[q] \in rpMade'
  BY <1>1, <1>2, <1>3 DEF RpTypeOK, Registered, Referring
<1>5. rpMixed' \subseteq rpMade'
  BY <1>1, <1>4, MixedMade DEF RpTypeOK
<1>6. RpTypeOK'
  BY <1>1, <1>5 DEF RpTypeOK
<1>7. OneMode' /\ rpMixed \subseteq rpMixed'
  BY <1>1, <1>6, ModeStep
<1>8. Table'
  BY <1>1, <1>2, <1>3 DEF RpTypeOK, Registered, Table
<1>9. ASSUME NEW q \in rpLive' PROVE Referring(q)' /\ Knows(q)'
  <2>1. CASE q = p
    BY <1>1, <1>2, <2>1 DEF Referring, Knows, RpTypeOK
  <2>2. CASE q # p
    <3>1. q \in rpLive /\ q \in Ptrs /\ Referring(q) /\ Knows(q)
      BY <1>1, <2>2 DEF RpTypeOK, Registered
    <3>. QED BY <1>1, <1>2, <1>3, <1>7, <2>2, <3>1 DEF Referring, Knows, RpTypeOK
  <2>. QED BY <2>1, <2>2
<1>10. OneStrong'
  <2>1. \A q \in rpLive : rpData[q] # o /\ q \in Ptrs \ {p}
    BY <1>1 DEF RpTypeOK, Registered, Referring
  <2>. QED BY <1>1, <1>2, <1>3, <2>1 DEF Registered, OneStrong
<1>. QED BY <1>1, <1>6, <1>7, <1>8, <1>9, <1>10 DEF Registered

\* A copy has the mode and the knowledge of its original.
LEMMA CopyStep ==
    ASSUME RefInv, NEW p \in Ptrs, NEW q \in Ptrs, CopyPtr(p, q) PROVE RefInv'
<1> USE RefAssumption DEF RefInv
<1>1. PICK w \in BOOLEAN, l \in BOOLEAN, f \in BOOLEAN :
        /\ p \notin rpLive /\ q \in rpLive
        /\ rpLive' = rpLive \cup {p}
        /\ UNCHANGED <<rpMade, rpDeleted, rpTwice>> /\ NowMixed
        /\ rpData' = [rpData EXCEPT ![p] = rpData[q]]
        /\ rpData[q] # NullObj => w /\ l = rpLoop[q] /\ f = rpHasFree[q]
        /\ rpWeak' = [rpWeak EXCEPT ![p] = w] /\ rpLoop' = [rpLoop EXCEPT ![p] = l]
        /\ rpHasFree' = [rpHasFree EXCEPT ![p] = f]
        /\ rpRef' = AddRef(rpRef, rpData[q], p)
  BY DEF CopyPtr
<1>2. /\ rpData'[p] = rpData[q] /\ (rpWeak'[p] <=> w) /\ (rpLoop'[p] <=> l) /\ (rpHasFree'[p] <=> f)
      /\ rpData[q] # NullObj => w /\ (l <=> rpLoop[q]) /\ (f <=> rpHasFree[q])
  BY <1>1 DEF RpTypeOK
<1>3. \A x \in Ptrs \ {p} : /\ rpData'[x] = rpData[x] /\ (rpWeak'[x] <=> rpWeak[x])
                            /\ (rpLoop'[x] <=> rpLoop[x]) /\ (rpHasFree'[x] <=> rpHasFree[x])
  BY <1>1 DEF RpTypeOK
<1>4. /\ rpRef' \in [RefObjs -> SUBSET Ptrs]
      /\ \A x \in RefObjs : rpRef'[x] = IF x = rpData[q] THEN rpRef[x] \cup {p} ELSE rpRef[x]
  BY <1>1 DEF RpTypeOK, AddRef
<1>5. Referring(q) /\ Knows(q) /\ p # q
  BY <1>1 DEF Registered
<1>6. \A x \in rpLive' : rpData'[x] \in RefObjs => rpData'[x] \in rpMade'
  BY <1>1, <1>2, <1>3, <1>5 DEF RpTypeOK, Registered, Referring
<1>7. rpMixed' \subseteq rpMade'
  BY <1>1, <1>6, MixedMade DEF RpTypeOK
<1>8. RpTypeOK'
  BY <1>1, <1>4, <1>7 DEF RpTypeOK
<1>9. OneMode' /\ rpMixed \subseteq rpMixed'
  BY <1>1, <1>8, ModeStep
<1>10. Table'
  BY <1>1, <1>2, <1>3, <1>4 DEF RpTypeOK, Registered, Table
<1>11. ASSUME NEW x \in rpLive' PROVE Referring(x)' /\ Knows(x)'
  <2>1. CASE x = p
    BY <1>1, <1>2, <1>4, <1>5, <1>9, <2>1 DEF Referring, Knows, RpTypeOK
  <2>2. CASE x # p
    <3>1. x \in rpLive /\ x \in Ptrs /\ Referring(x) /\ Knows(x)
      BY <1>1, <2>2 DEF RpTypeOK, Registered
    <3>. QED BY <1>1, <1>3, <1>4, <1>9, <2>2, <3>1 DEF Referring, Knows, RpTypeOK
  <2>. QED BY <2>1, <2>2
<1>12. OneStrong'
  <2>1. \A x \in rpLive : x \in Ptrs \ {p}
    BY <1>1 DEF RpTypeOK
  <2>2. rpData'[p] # NullObj => rpWeak'[p]
    BY <1>2
  <2>. QED BY <1>1, <1>3, <2>1, <2>2 DEF Registered, OneStrong
<1>. QED BY <1>1, <1>8, <1>9, <1>10, <1>11, <1>12 DEF Registered

\* A pointer enters loop mode.
LEMMA LoopStep ==
    ASSUME RefInv, NEW p \in Ptrs, EnableLoopRefMode(p) PROVE RefInv'
<1> USE RefAssumption DEF RefInv
<1>1. /\ p \in rpLive /\ rpLoop' = [rpLoop EXCEPT ![p] = TRUE] /\ NowMixed
      /\ UNCHANGED <<rpLive, rpData, rpWeak, rpHasFree, rpRef, rpMade, rpDeleted, rpTwice>>
  BY DEF EnableLoopRefMode
<1>2. \A q \in rpLive : q \in Ptrs /\ Referring(q) /\ Knows(q)
  BY DEF RpTypeOK, Registered
<1>3. rpMixed' \subseteq rpMade'
  <2>1. \A q \in rpLive' : rpData'[q] \in RefObjs => rpData'[q] \in rpMade'
    BY <1>1, <1>2 DEF Referring
  <2>. QED BY <1>1, <2>1, MixedMade DEF RpTypeOK
<1>4. RpTypeOK'
  BY <1>1, <1>3 DEF RpTypeOK
<1>5. OneMode' /\ rpMixed \subseteq rpMixed'
  BY <1>1, <1>4, ModeStep
<1>6. \A q \in rpLive : rpLoop[q] => rpLoop'[q]
  BY <1>1, <1>2 DEF RpTypeOK
<1>7. Registered'
  BY <1>1 DEF Registered, Table, OneStrong, Referring
<1>8. \A q \in rpLive' : Knows(q)'
  BY <1>1, <1>2, <1>5, <1>6 DEF Knows
<1>. QED BY <1>1, <1>4, <1>5, <1>7, <1>8

\* Letting go of an object: its owner deletes it and tells the others, another pointer is
\* taken off the table and, when it is the last that counts, may delete the object.  `hf`, `ref`
\* and `del` are the flags, the table and the deleted objects then.
Leaves(p, hf, ref, del) ==
    /\ p \in rpLive
    /\ Owns(p) => del = rpDeleted \cup {rpData[p]}
    /\ ~ Owns(p) => \/ del = rpDeleted
                    \/ /\ del = rpDeleted \cup {rpData[p]} /\ rpData[p] # NullObj
                       /\ ~ rpLoop[p] /\ \A q \in rpRef[rpData[p]] : q = p
    /\ \A q \in Ptrs \ {p} : hf[q] <=> rpHasFree[q] \/ (Owns(p) /\ q \in rpRef[rpData[p]])
    /\ \A x \in RefObjs :
          ref[x] = IF x # rpData[p] THEN rpRef[x] ELSE IF Owns(p) THEN {} ELSE rpRef[x] \ {p}

\* What is true of the others then.
Remain(p, hf, ref, del) ==
    /\ \A x \in RefObjs : \A q \in ref[x] : q # p /\ q \in rpLive /\ rpData[q] = x
    /\ \A q \in rpLive \ {p} : rpData[q] # NullObj =>
          /\ q \in ref[rpData[q]] \/ hf[q]
          /\ hf[q] => rpData[q] \in del
          /\ ~ rpWeak[q] => ~ hf[q]
          /\ rpData[q] \in del /\ rpData[q] \notin rpMixed => rpLoop[q] /\ hf[q]
    /\ (Owns(p) \/ ~ rpLoop[p]) /\ rpData[p] \in rpDeleted => rpData[p] \in rpMixed
    /\ del \subseteq rpMade

\* The users that remain are registered or told.
LEMMA LetGo ==
    ASSUME RefInv, NEW p, NEW hf, NEW ref, NEW del, Leaves(p, hf, ref, del)
    PROVE  Remain(p, hf, ref, del)
<1> USE RefAssumption DEF RefInv
<1>0. /\ p \in rpLive
      /\ Owns(p) => del = rpDeleted \cup {rpData[p]}
      /\ ~ Owns(p) => \/ del = rpDeleted
                      \/ /\ del = rpDeleted \cup {rpData[p]} /\ rpData[p] # NullObj
                         /\ ~ rpLoop[p] /\ \A q \in rpRef[rpData[p]] : q = p
      /\ \A q \in Ptrs \ {p} : hf[q] <=> rpHasFree[q] \/ (Owns(p) /\ q \in rpRef[rpData[p]])
      /\ \A x \in RefObjs :
            ref[x] = IF x # rpData[p] THEN rpRef[x] ELSE IF Owns(p) THEN {} ELSE rpRef[x] \ {p}
  BY DEF Leaves
<1>1. Referring(p) /\ Knows(p) /\ p \in Ptrs /\ (rpData[p] # NullObj => rpData[p] \in RefObjs)
  BY <1>0 DEF RpTypeOK, Registered
<1>2. ASSUME NEW x \in RefObjs, NEW q \in ref[x] PROVE q # p /\ q \in rpLive /\ rpData[q] = x
  <2>1. q \in rpRef[x] /\ (x = rpData[p] => q # p)
    BY <1>0, <1>2
  <2>2. q \in rpLive /\ rpData[q] = x
    BY <1>0, <2>1 DEF Registered, Table
  <2>. QED BY <2>1, <2>2
<1>3. (Owns(p) \/ ~ rpLoop[p]) /\ rpData[p] \in rpDeleted => rpData[p] \in rpMixed
  BY <1>0, <1>1 DEF Knows, Owns
<1>4. del \subseteq rpMade
  BY <1>0, <1>1 DEF Referring, RpTypeOK, Owns
<1>5. ASSUME NEW q \in rpLive \ {p}, rpData[q] # NullObj
      PROVE  /\ q \in ref[rpData[q]] \/ hf[q]
             /\ hf[q] => rpData[q] \in del
             /\ ~ rpWeak[q] => ~ hf[q]
             /\ rpData[q] \in del /\ rpData[q] \notin rpMixed => rpLoop[q] /\ hf[q]
  <2>1. q \in Ptrs \ {p} /\ rpData[q] \in RefObjs /\ Referring(q) /\ Knows(q)
    BY <1>0, <1>5 DEF RpTypeOK, Registered
  <2>2. hf[q] <=> rpHasFree[q] \/ (Owns(p) /\ q \in rpRef[rpData[p]])
    BY <1>0, <2>1
  <2>3. CASE rpData[q] # rpData[p]
    <3>1. ~ (Owns(p) /\ q \in rpRef[rpData[p]])
      BY <1>0, <1>1, <2>3 DEF Registered, Table, Owns
    <3>2. ref[rpData[q]] = rpRef[rpData[q]]
      BY <1>0, <2>1, <2>3
    <3>3. rpData[q] \in del <=> rpData[q] \in rpDeleted
      BY <1>0, <2>3
    <3>. QED BY <1>5, <2>1, <2>2, <3>1, <3>2, <3>3 DEF Referring, Knows
  <2>4. CASE rpData[q] = rpData[p] /\ Owns(p)
    <3>1. hf[q]
      BY <1>0, <1>5, <2>1, <2>2, <2>4 DEF Referring
    <3>2. rpWeak[q]
      BY <1>0, <1>5, <2>4 DEF Registered, OneStrong, Owns
    <3>3. rpData[q] \notin rpMixed => rpLoop[q]
      BY <1>0, <1>5, <2>4 DEF OneMode, Owns
    <3>. QED BY <1>0, <2>4, <3>1, <3>2, <3>3
  <2>5. CASE rpData[q] = rpData[p] /\ ~ Owns(p) /\ del # rpDeleted
    <3>1. q \notin rpRef[rpData[q]]
      BY <1>0, <1>5, <2>5
    <3>2. rpHasFree[q] /\ rpData[q] \in rpDeleted
      BY <1>0, <1>5, <2>1, <3>1 DEF Referring
    <3>3. rpData[q] \in rpMixed
      BY <1>0, <1>3, <2>5, <3>2
    <3>. QED BY <1>0, <1>5, <2>1, <2>2, <2>5, <3>2, <3>3 DEF Referring
  <2>6. CASE rpData[q] = rpData[p] /\ ~ Owns(p) /\ del = rpDeleted
    <3>1. ref[rpData[q]] = rpRef[rpData[q]] \ {p}
      BY <1>0, <2>1, <2>6
    <3>. QED BY <1>5, <2>1, <2>2, <2>6, <3>1 DEF Referring, Knows
  <2>. QED BY <2>3, <2>4, <2>5, <2>6
<1>. QED BY <1>2, <1>3, <1>4, <1>5 DEF Remain

\* A strong pointer in loop mode that does not own refers to nothing.
LEMMA Ownerless ==
    ASSUME RefInv, NEW p \in rpLive, rpLoop[p], ~ rpWeak[p], ~ Owns(p)
    PROVE  rpData[p] = NullObj
  BY DEF RefInv, Registered, Referring, Owns

\* ~RefPtr
LEMMA DestroyStep ==
    ASSUME RefInv, NEW p \in Ptrs, Destroy(p) PROVE RefInv'
<1> USE RefAssumption DEF RefInv
<1> DEFINE o == rpData[p]
           left == DelRef(rpRef, o, p)
           last == IF o = NullObj THEN FALSE ELSE left[o] = {}
           gone == Owns(p) \/ (~ rpLoop[p] /\ last)
<1>1. /\ p \in rpLive /\ rpLive' = rpLive \ {p} /\ UNCHANGED <<rpMade, rpMixed>>
      /\ rpRef' = IF Owns(p) THEN Forgotten(o) ELSE IF rpLoop[p] /\ ~ rpWeak[p] THEN rpRef ELSE left
      /\ rpHasFree' = [IF Owns(p) THEN Told(o) ELSE rpHasFree EXCEPT ![p] = FALSE]
      /\ IF gone THEN Deleted(o) ELSE UNCHANGED <<rpDeleted, rpTwice>>
      /\ rpData' = [rpData EXCEPT ![p] = NullObj]
      /\ rpWeak' = [rpWeak EXCEPT ![p] = FALSE] /\ rpLoop' = [rpLoop EXCEPT ![p] = FALSE]
  BY DEF Destroy
<1>2. o \in RefObjs \cup {NullObj} /\ gone \in BOOLEAN /\ Owns(p) \in BOOLEAN
  BY DEF RpTypeOK, Owns
<1>3. gone => o # NullObj
  BY DEF Owns
<1>4. rpDeleted' = IF gone THEN rpDeleted \cup {o} ELSE rpDeleted
  BY <1>1, <1>3 DEF Deleted
<1>5. rpTwice' <=> rpTwice \/ (gone /\ o \in rpDeleted)
  BY <1>1 DEF Deleted, RpTypeOK
<1>6. /\ rpHasFree' \in [Ptrs -> BOOLEAN]
      /\ \A q \in Ptrs \ {p} : rpHasFree'[q] <=> rpHasFree[q] \/ (Owns(p) /\ q \in rpRef[o])
  <2>1. CASE Owns(p)
    <3>1. o # NullObj
      BY <2>1 DEF Owns
    <3>. QED BY <1>1, <2>1, <3>1 DEF Told, RpTypeOK
  <2>2. CASE ~ Owns(p)
    BY <1>1, <2>2 DEF RpTypeOK
  <2>. QED BY <2>1, <2>2
<1>7. /\ rpRef' \in [RefObjs -> SUBSET Ptrs]
      /\ \A x \in RefObjs :
            rpRef'[x] = IF x # o THEN rpRef[x] ELSE IF Owns(p) THEN {} ELSE rpRef[x] \ {p}
  <2>1. CASE Owns(p)
    BY <1>1, <2>1 DEF Forgotten, RpTypeOK
  <2>2. CASE ~ Owns(p) /\ o = NullObj
    BY <1>1, <2>2 DEF DelRef, RpTypeOK
  <2>3. CASE ~ Owns(p) /\ o # NullObj
    <3>1. ~ (rpLoop[p] /\ ~ rpWeak[p])
      BY <1>1, <2>3, Ownerless
    <3>. QED BY <1>1, <1>2, <2>3, <3>1 DEF DelRef, RpTypeOK
  <2>. QED BY <2>1, <2>2, <2>3
<1>8. gone /\ ~ Owns(p) => ~ rpLoop[p] /\ \A q \in rpRef[o] : q = p
  BY <1>2 DEF DelRef, RpTypeOK
<1>9. \A q \in rpLive \ {p} : /\ q \in Ptrs /\ rpData'[q] = rpData[q] /\ (rpWeak'[q] <=> rpWeak[q])
                              /\ (rpLoop'[q] <=> rpLoop[q])
  BY <1>1 DEF RpTypeOK
<1> HIDE DEF gone, left, last
<1>10. /\ \A x \in RefObjs : \A q \in rpRef'[x] : q # p /\ q \in rpLive /\ rpData[q] = x
       /\ \A q \in rpLive \ {p} : rpData[q] # NullObj =>
             /\ q \in rpRef'[rpData[q]] \/ rpHasFree'[q]
             /\ rpHasFree'[q] => rpData[q] \in rpDeleted'
             /\ ~ rpWeak[q] => ~ rpHasFree'[q]
             /\ rpData[q] \in rpDeleted' /\ rpData[q] \notin rpMixed => rpLoop[q] /\ rpHasFree'[q]
       /\ (Owns(p) \/ ~ rpLoop[p]) /\ o \in rpDeleted => o \in rpMixed
       /\ rpDeleted' \subseteq rpMade
  <2>1. /\ Owns(p) => rpDeleted' = rpDeleted \cup {o}
        /\ ~ Owns(p) => \/ rpDeleted' = rpDeleted
                        \/ /\ rpDeleted' = rpDeleted \cup {o} /\ o # NullObj
                           /\ ~ rpLoop[p] /\ \A q \in rpRef[o] : q = p
    BY <1>3, <1>4, <1>8 DEF gone
  <2>2. Leaves(p, rpHasFree', rpRef', rpDeleted')
    BY <1>1, <1>6, <1>7, <2>1 DEF Leaves
  <2>3. Remain(p, rpHasFree', rpRef', rpDeleted')
    BY <2>2, LetGo
  <2>. QED BY <2>3 DEF Remain
<1>11. RpTypeOK'
  <2>1. rpTwice' \in BOOLEAN
    BY <1>1 DEF Deleted, RpTypeOK
  <2>. QED BY <1>1, <1>6, <1>7, <1>10, <2>1 DEF RpTypeOK
<1>12. Table'
  BY <1>1, <1>9, <1>10 DEF Table
<1>13. OneStrong' /\ OneMode'
  BY <1>1, <1>9 DEF Registered, OneStrong, OneMode
<1>14. ASSUME NEW q \in rpLive' PROVE Referring(q)' /\ Knows(q)'
  <2>1. q \in rpLive \ {p} /\ Referring(q) /\ rpData[q] \in RefObjs \cup {NullObj}
    BY <1>1 DEF Registered, RpTypeOK
  <2>2. NullObj \notin rpDeleted'
    BY <1>11 DEF RpTypeOK
  <2>. QED BY <1>1, <1>9, <1>10, <2>1, <2>2 DEF Referring, Knows
<1>15. rpTwice' => rpMixed' # {}
  BY <1>1, <1>5, <1>10 DEF gone
<1>. QED BY <1>11, <1>12, <1>13, <1>14, <1>15 DEF Registered

\* operator=: the old object is let go, then p refers to q's object as q does.
LEMMA AssignStep ==
    ASSUME RefInv, NEW p \in Ptrs, NEW q \in Ptrs, Assign(p, q) PROVE RefInv'
<1> USE RefAssumption DEF RefInv
<1> DEFINE o == rpData[p]
           new == rpData[q]
           weak == rpLoop[p] /\ ~ Owns(p) /\ rpWeak[p] /\ o # NullObj
           stays == rpLoop[p] /\ ~ Owns(p) /\ ~ weak
           known == IF Owns(p) THEN Told(o) ELSE IF weak THEN [rpHasFree EXCEPT ![p] = FALSE]
                    ELSE rpHasFree
           ref == IF Owns(p) THEN Forgotten(o) ELSE IF stays THEN rpRef ELSE DelRef(rpRef, o, p)
<1>1. /\ p \in rpLive /\ q \in rpLive /\ p # q /\ UNCHANGED <<rpLive, rpMade>> /\ NowMixed
      /\ IF Owns(p) THEN Deleted(o) ELSE UNCHANGED <<rpDeleted, rpTwice>>
      /\ rpData' = [rpData EXCEPT ![p] = IF new = NullObj /\ stays THEN o ELSE new]
      /\ rpWeak' = [rpWeak EXCEPT ![p] = IF new # NullObj THEN TRUE ELSE rpWeak[p] /\ ~ weak]
      /\ rpHasFree' = IF new # NullObj THEN [known EXCEPT ![p] = known[q]] ELSE known
      /\ rpLoop' = [rpLoop EXCEPT ![p] = IF new # NullObj THEN rpLoop[q] ELSE rpLoop[p]]
      /\ rpRef' = AddRef(ref, new, p)
  BY DEF Assign
<1>2. /\ o \in RefObjs \cup {NullObj} /\ new \in RefObjs \cup {NullObj} /\ Owns(p) \in BOOLEAN
      /\ (Owns(p) => o # NullObj)
  BY DEF RpTypeOK, Owns
<1>3. stays => o = NullObj
  BY <1>1, Ownerless
<1>4. rpDeleted' = IF Owns(p) THEN rpDeleted \cup {o} ELSE rpDeleted
  BY <1>1, <1>2 DEF Deleted
<1>5. rpTwice' <=> rpTwice \/ (Owns(p) /\ o \in rpDeleted)
  BY <1>1 DEF Deleted, RpTypeOK
<1>6. /\ known \in [Ptrs -> BOOLEAN]
      /\ \A x \in Ptrs \ {p} : known[x] <=> rpHasFree[x] \/ (Owns(p) /\ x \in rpRef[o])
  <2>1. CASE Owns(p)
    BY <1>2, <2>1 DEF Told, RpTypeOK
  <2>2. CASE ~ Owns(p)
    BY <2>2 DEF RpTypeOK
  <2>. QED BY <2>1, <2>2
<1>7. /\ ref \in [RefObjs -> SUBSET Ptrs]
      /\ \A x \in RefObjs :
            ref[x] = IF x # o THEN rpRef[x] ELSE IF Owns(p) THEN {} ELSE rpRef[x] \ {p}
  <2>1. CASE Owns(p)
    BY <2>1 DEF Forgotten, RpTypeOK
  <2>2. CASE ~ Owns(p) /\ o = NullObj
    BY <2>2 DEF DelRef, RpTypeOK
  <2>3. CASE ~ Owns(p) /\ o # NullObj
    BY <1>2, <1>3, <2>3 DEF DelRef, RpTypeOK
  <2>. QED BY <2>1, <2>2, <2>3
<1>8. rpData' = [rpData EXCEPT ![p] = new]
  BY <1>1, <1>3
<1>9. rpRef' \in [RefObjs -> SUBSET Ptrs]
      /\ \A x \in RefObjs : rpRef'[x] = IF x = new THEN ref[x] \cup {p} ELSE ref[x]
  <2> HIDE DEF ref
  <2>1. rpRef' = IF new = NullObj THEN ref ELSE [ref EXCEPT ![new] = @ \cup {p}]
    BY <1>1 DEF AddRef
  <2>2. CASE new = NullObj
    BY <1>7, <2>1, <2>2
  <2>3. CASE new \in RefObjs
    <3>1. rpRef' = [ref EXCEPT ![new] = ref[new] \cup {p}] /\ ref \in [RefObjs -> SUBSET Ptrs]
      BY <1>7, <2>1, <2>3
    <3>. QED BY <2>3, <3>1
  <2>. QED BY <1>2, <2>2, <2>3
<1> HIDE DEF weak, stays, known, ref
<1>10. /\ \A x \in RefObjs : \A y \in ref[x] : y # p /\ y \in rpLive /\ rpData[y] = x
       /\ \A y \in rpLive \ {p} : rpData[y] # NullObj =>
             /\ y \in ref[rpData[y]] \/ known[y]
             /\ known[y] => rpData[y] \in rpDeleted'
             /\ ~ rpWeak[y] => ~ known[y]
             /\ rpData[y] \in rpDeleted' /\ rpData[y] \notin rpMixed => rpLoop[y] /\ known[y]
       /\ (Owns(p) \/ ~ rpLoop[p]) /\ o \in rpDeleted => o \in rpMixed
       /\ rpDeleted' \subseteq rpMade
  <2>1. /\ Owns(p) => rpDeleted' = rpDeleted \cup {o}
        /\ ~ Owns(p) => rpDeleted' = rpDeleted
    BY <1>4
  <2>2. Leaves(p, known, ref, rpDeleted')
    BY <1>1, <1>6, <1>7, <2>1 DEF Leaves
  <2>3. Remain(p, known, ref, rpDeleted')
    BY <2>2, LetGo
  <2>. QED BY <2>3 DEF Remain
<1>11. \A x \in rpLive \ {p} :
          /\ x \in Ptrs /\ rpData'[x] = rpData[x] /\ (rpWeak'[x] <=> rpWeak[x])
          /\ (rpLoop'[x] <=> rpLoop[x]) /\ (rpHasFree'[x] <=> known[x])
  BY <1>1, <1>6, <1>8 DEF RpTypeOK
<1>12. /\ rpData'[p] = new
       /\ new # NullObj => rpWeak'[p] /\ (rpLoop'[p] <=> rpLoop[q]) /\ (rpHasFree'[p] <=> known[q])
  BY <1>1, <1>6, <1>8 DEF RpTypeOK
<1>13. /\ rpWeak' \in [Ptrs -> BOOLEAN] /\ rpLoop' \in [Ptrs -> BOOLEAN]
       /\ rpHasFree' \in [Ptrs -> BOOLEAN] /\ rpTwice' \in BOOLEAN
  <2>1. (IF new # NullObj THEN TRUE ELSE rpWeak[p] /\ ~ weak) \in BOOLEAN
    BY DEF weak
  <2>2. (IF new # NullObj THEN rpLoop[q] ELSE rpLoop[p]) \in BOOLEAN
    BY DEF RpTypeOK
  <2>3. rpTwice' \in BOOLEAN
    BY <1>1 DEF Deleted, RpTypeOK
  <2>. QED BY <1>1, <1>6, <2>1, <2>2, <2>3 DEF RpTypeOK
<1>14. \A x \in rpLive' : rpData'[x] \in RefObjs => rpData'[x] \in rpMade'
  BY <1>1, <1>11, <1>12 DEF Registered, Referring
<1>15. RpTypeOK'
  <2>1. rpMixed' \subseteq rpMade'
    BY <1>1, <1>14, MixedMade DEF RpTypeOK
  <2>2. rpData' \in [Ptrs -> RefObjs \cup {NullObj}]
    BY <1>2, <1>8 DEF RpTypeOK
  <2>. QED BY <1>1, <1>9, <1>10, <1>13, <2>1, <2>2 DEF RpTypeOK
<1>16. OneMode' /\ rpMixed \subseteq rpMixed'
  BY <1>1, <1>15, ModeStep
<1>17. Table'
  <2> SUFFICES ASSUME NEW x \in RefObjs, NEW y \in rpRef'[x] PROVE y \in rpLive /\ rpData'[y] = x
    BY <1>1 DEF Table
  <2>1. CASE y = p
    BY <1>1, <1>9, <1>10, <1>12, <2>1
  <2>2. CASE y # p
    <3>1. y \in ref[x]
      BY <1>9, <2>2
    <3>. QED BY <1>10, <1>11, <2>2, <3>1
  <2>. QED BY <2>1, <2>2
<1>18. OneStrong'
  BY <1>1, <1>11, <1>12 DEF Registered, OneStrong
<1>19. NullObj \notin rpDeleted'
  BY <1>15 DEF RpTypeOK
<1>20. ASSUME NEW x \in rpLive \ {p} PROVE Referring(x)' /\ Knows(x)'
  <2>1. Referring(x) /\ rpData[x] \in RefObjs \cup {NullObj}
    BY DEF Registered, RpTypeOK
  <2>2. rpData[x] \in RefObjs => (x \in ref[rpData[x]] => x \in rpRef'[rpData[x]])
    BY <1>9
  <2>. QED BY <1>1, <1>10, <1>11, <1>16, <1>19, <2>1, <2>2 DEF Referring, Knows
<1>21. Referring(p)' /\ Knows(p)'
  <2>1. CASE new = NullObj
    BY <1>12, <1>19, <2>1 DEF Referring, Knows
  <2>2. CASE new # NullObj
    <3>1. q \in rpLive \ {p} /\ rpData'[q] = new /\ (rpHasFree'[q] <=> known[q])
          /\ (rpLoop'[q] <=> rpLoop[q])
      BY <1>1, <1>11
    <3>2. Referring(q)' /\ Knows(q)'
      BY <1>20, <3>1
    <3>3. p \in rpRef'[new]
      BY <1>2, <1>9, <2>2
    <3>. QED BY <1>12, <2>2, <3>1, <3>2, <3>3 DEF Referring, Knows
  <2>. QED BY <2>1, <2>2
<1>22. \A x \in rpLive' : Referring(x)' /\ Knows(x)'
  BY <1>1, <1>20, <1>21
<1>23. rpTwice' => rpMixed' # {}
  BY <1>5, <1>10, <1>16
<1>. QED BY <1>15, <1>16, <1>17, <1>18, <1>22, <1>23 DEF Registered

\* The table, the known and the deletions agree.
THEOREM RefInductive == RpSpec => []RefInv
<1>1. RpInit => RefInv
  <2> SUFFICES ASSUME RpInit PROVE RefInv
    OBVIOUS
  <2>1. RpTypeOK
    BY DEF RpInit, RpTypeOK
  <2>. QED BY <2>1 DEF RpInit, RefInv, Registered, Table, OneStrong, OneMode
<1>2. RefInv /\ [RpNext]_rpVars => RefInv'
  <2> SUFFICES ASSUME RefInv, [RpNext]_rpVars PROVE RefInv'
    OBVIOUS
  <2>1. CASE RpNext
    BY <2>1, WrapStep, CopyStep, LoopStep, DestroyStep, AssignStep DEF RpNext
  <2>2. CASE UNCHANGED rpVars
    BY <2>2 DEF rpVars, rpPtrVars, RefInv, RpTypeOK, Registered, Table, OneStrong, Referring,
                OneMode, Knows
  <2>. QED BY <2>1, <2>2
<1>. QED BY <1>1, <1>2, PTL DEF RpSpec

\* While the pointers of an object are of one mode, the object is not deleted under a user
\* and not twice, whatever is copied, assigned and destroyed in which order (RefPtr.h, ~RefPtr,
\* operator= and NotifyFree), and the table keeps no pointer that is gone.
THEOREM RefSafe == RpSpec => []NotDeletedUnderUser
<1>1. RefInv => NotDeletedUnderUser
  <2> SUFFICES ASSUME RefInv PROVE NotDeletedUnderUser
    OBVIOUS
  <2>1. \A p \in rpLive : rpData[p] \in rpDeleted \ rpMixed => rpLoop[p] /\ rpHasFree[p]
    BY DEF RefInv, Knows
  <2>2. \A o \in RefObjs : rpRef[o] \subseteq rpLive
    BY DEF RefInv, Registered, Table
  <2>. QED BY <2>1, <2>2 DEF RefInv, NotDeletedUnderUser
<1>. QED BY <1>1, RefInductive, PTL

-----------------------------------------------------------------------------
(***************************************************************************)
(* The object pool.                                                        *)
(***************************************************************************)

\* The loop before the first slot.
NoRun == [count |-> 0, start |-> 0, next |-> 0]
\* f is what the loop knows after each of the first k slots.
Scans(f, fl, n, k) ==
    f = [i \in 0..k |-> IF i = 0 THEN NoRun ELSE Scanned(fl, n, f[i - 1], i)]

LEMMA ScansLonger ==
    ASSUME NEW fl, NEW n, NEW k \in Nat, NEW f, Scans(f, fl, n, k)
    PROVE  \E g : Scans(g, fl, n, k + 1)
<1> DEFINE g == [i \in 0..(k + 1) |-> IF i <= k THEN f[i] ELSE Scanned(fl, n, f[k], k + 1)]
<1>1. ASSUME NEW i \in 0..(k + 1) PROVE g[i] = IF i = 0 THEN NoRun ELSE Scanned(fl, n, g[i - 1], i)
  <2>1. CASE i = 0
    BY <2>1 DEF Scans
  <2>2. CASE i \in 1..k
    <3>1. f[i] = Scanned(fl, n, f[i - 1], i)
      BY <2>2 DEF Scans
    <3>2. g[i] = f[i] /\ i - 1 \in 0..(k + 1) /\ i - 1 <= k /\ i # 0
      BY <2>2
    <3>3. g[i - 1] = f[i - 1]
      BY <3>2
    <3>. QED BY <3>1, <3>2, <3>3
  <2>3. CASE i = k + 1
    <3>1. g[i] = Scanned(fl, n, f[k], i) /\ i - 1 = k /\ i # 0
      BY <2>3
    <3>2. g[k] = f[k]
      OBVIOUS
    <3>. QED BY <3>1, <3>2
  <2>. QED BY <2>1, <2>2, <2>3
<1>2. g = [i \in 0..(k + 1) |-> IF i = 0 THEN NoRun ELSE Scanned(fl, n, g[i - 1], i)]
  <2> DEFINE G(i) == IF i <= k THEN f[i] ELSE Scanned(fl, n, f[k], k + 1)
             H(i) == IF i = 0 THEN NoRun ELSE Scanned(fl, n, g[i - 1], i)
  <2>1. \A i \in 0..(k + 1) : G(i) = H(i)
    BY <1>1
  <2>2. g = [i \in 0..(k + 1) |-> G(i)]
    OBVIOUS
  <2> HIDE DEF g, G, H
  <2>3. g = [i \in 0..(k + 1) |-> H(i)]
    BY <2>1, <2>2
  <2>. QED BY <2>3 DEF H
<1>. QED BY <1>2 DEF Scans

\* The recursion of FindAvailable's loop is well defined.
LEMMA ScanIs ==
    ASSUME NEW fl, Len(fl) \in Nat, NEW n PROVE Scans(Scan(fl, n), fl, n, Len(fl))
<1> DEFINE Bad == {k \in Nat : ~ \E f : Scans(f, fl, n, k)}
<1>1. \E f : Scans(f, fl, n, 0)
  <2>1. [i \in 0..0 |-> NoRun] = [i \in 0..0 |-> IF i = 0 THEN NoRun ELSE Scanned(fl, n, [j \in 0..0 |-> NoRun][i - 1], i)]
    OBVIOUS
  <2>. QED BY <2>1 DEF Scans
<1>2. Bad = {}
  <2>. SUFFICES ASSUME Bad # {} PROVE FALSE
    OBVIOUS
  <2>1. PICK k \in Bad : \A y \in Bad : k <= y
    BY LeastIn
  <2>2. k \in Nat /\ ~ \E f : Scans(f, fl, n, k)
    OBVIOUS
  <2>3. k # 0
    BY <1>1, <2>2
  <2>4. k - 1 \in Nat /\ ~ k <= k - 1
    BY <2>2, <2>3
  <2>5. k - 1 \notin Bad
    BY <2>1, <2>4
  <2>6. PICK f : Scans(f, fl, n, k - 1)
    BY <2>4, <2>5
  <2>7. \E g : Scans(g, fl, n, (k - 1) + 1)
    BY <2>4, <2>6, ScansLonger
  <2>. QED BY <2>2, <2>7
<1>3. \E f : Scans(f, fl, n, Len(fl))
  BY <1>2
<1>. QED BY <1>3 DEF Scan, Scans, NoRun

Runs == [count : Nat, start : Nat, next : Nat]
\* The n slots from a on are free.
FreeRun(fl, a, n) == \A j \in a..(a + n - 1) : fl[j] = 0
\* What the loop knows after slot i is true of the slots so far: the run it counts is a run
\* of free slots, a run of free slots that ends at i is part of it, and n free slots in a
\* row have not begun before it.
RunKnown(fl, n, r, i) ==
    /\ r \in Runs /\ r.count <= n
    /\ r.count > 0 => /\ r.start \in 1..i /\ r.next = r.start + r.count /\ r.next <= i + 1
                      /\ FreeRun(fl, r.start, r.count)
    /\ r.count < n =>
          /\ \A a \in 1..i : FreeRun(fl, a, i + 1 - a) => r.count > 0 /\ r.next = i + 1 /\ r.start <= a
          /\ \A a \in 1..i : a + n - 1 <= i => ~ FreeRun(fl, a, n)
    /\ r.count = n => \A a \in 1..Len(fl) : a + n - 1 <= Len(fl) /\ FreeRun(fl, a, n) => r.start <= a

LEMMA RunStep ==
    ASSUME NEW fl, Len(fl) \in Nat, NEW n \in Nat \ {0}, NEW r, NEW i \in 1..Len(fl),
           RunKnown(fl, n, r, i - 1)
    PROVE  RunKnown(fl, n, Scanned(fl, n, r, i), i)
<1> DEFINE s == Scanned(fl, n, r, i)
<1>0. r \in Runs /\ r.count \in Nat /\ r.start \in Nat /\ r.next \in Nat /\ i \in Nat /\ i - 1 \in Nat /\ n \in Nat
  BY DEF RunKnown, Runs
<1>1. CASE r.count = n
  <2>1. s = r
    BY <1>1 DEF Scanned
  <2>. QED BY <1>0, <1>1, <2>1 DEF RunKnown
<1>2. CASE r.count # n /\ fl[i] # 0
  <2>1. s = r
    BY <1>2 DEF Scanned
  <2>2. r.count < n
    BY <1>0, <1>2 DEF RunKnown
  <2>3. ASSUME NEW a \in 1..i PROVE ~ FreeRun(fl, a, i + 1 - a)
    <3>1. i \in a..(a + (i + 1 - a) - 1)
      BY <1>0
    <3>. QED BY <3>1, <1>2 DEF FreeRun
  <2>4. ASSUME NEW a \in 1..i, a + n - 1 <= i PROVE ~ FreeRun(fl, a, n)
    <3>1. CASE a + n - 1 = i
      <4>1. i \in a..(a + n - 1)
        BY <1>0, <3>1
      <4>. QED BY <4>1, <1>2 DEF FreeRun
    <3>2. CASE a + n - 1 <= i - 1
      <4>1. a \in 1..(i - 1)
        BY <1>0, <3>2
      <4>. QED BY <4>1, <2>2, <3>2 DEF RunKnown
    <3>. QED BY <1>0, <2>4, <3>1, <3>2
  <2>5. r.count > 0 => r.start \in 1..i /\ r.next <= i + 1
    BY <1>0 DEF RunKnown
  <2>. QED BY <1>0, <1>2, <2>1, <2>2, <2>3, <2>4, <2>5 DEF RunKnown
<1>3. CASE r.count # n /\ fl[i] = 0
  <2>0. r.count < n
    BY <1>0, <1>3 DEF RunKnown
  \* The run that ends at i.
  <2>1. /\ s \in Runs /\ s.count \in 1..n /\ s.start \in 1..i /\ s.next = i + 1
        /\ s.start + s.count = i + 1
        /\ FreeRun(fl, s.start, s.count)
        /\ \A a \in 1..i : FreeRun(fl, a, i + 1 - a) => s.start <= a
    <3>1. CASE r.count > 0 /\ i = r.next
      <4>1. s = [count |-> r.count + 1, start |-> r.start, next |-> i + 1]
        BY <1>3, <3>1 DEF Scanned
      <4> HIDE DEF s
      <4>2. s.count = r.count + 1 /\ s.start = r.start /\ s.next = i + 1 /\ s \in Runs
        BY <4>1, <1>0 DEF Runs
      <4>3. r.start \in 1..(i - 1) /\ r.next = r.start + r.count /\ FreeRun(fl, r.start, r.count)
        BY <3>1 DEF RunKnown
      <4>a. r.start \in Nat /\ r.start <= i - 1 /\ r.start >= 1 /\ r.start + r.count = i
        BY <1>0, <3>1, <4>3
      <4>c. PICK c \in Nat, b \in Nat : c = r.count /\ b = r.start /\ s.count = c + 1 /\ s.start = b
        BY <1>0, <4>2
      <4>d. b + c = i /\ 1 <= b /\ c < n
        BY <4>a, <4>c, <2>0
      <4>e. b + (c + 1) - 1 = i /\ b + c - 1 = i - 1 /\ c + 1 \in 1..n /\ b \in 1..i /\ b + (c + 1) = i + 1
        BY <1>0, <4>d
      <4>b. s.start + s.count - 1 = i /\ r.start + r.count - 1 = i - 1 /\ s.start = r.start
        BY <4>c, <4>e
      <4>4. \A j \in s.start..(s.start + s.count - 1) : j = i \/ j \in r.start..(r.start + r.count - 1)
        <5>1. \A j \in r.start..i : j = i \/ j \in r.start..(i - 1)
          BY <1>0, <4>a
        <5>. QED BY <5>1, <4>b
      <4>5. FreeRun(fl, s.start, s.count)
        BY <4>3, <4>4, <1>3 DEF FreeRun
      <4>6. ASSUME NEW a \in 1..i, FreeRun(fl, a, i + 1 - a) PROVE s.start <= a
        <5>1. CASE a = i
          BY <5>1, <4>2, <4>3, <1>0
        <5>2. CASE a # i
          <6>1. a \in 1..(i - 1) /\ \A j \in a..(a + ((i - 1) + 1 - a) - 1) : j \in a..(a + (i + 1 - a) - 1)
            BY <1>0, <5>2
          <6>2. FreeRun(fl, a, (i - 1) + 1 - a)
            BY <6>1, <4>6 DEF FreeRun
          <6>. QED BY <6>1, <6>2, <2>0, <4>2 DEF RunKnown
        <5>. QED BY <5>1, <5>2
      <4>7. s.count \in 1..n /\ s.start \in 1..i /\ s.start + s.count = i + 1
        BY <4>c, <4>e
      <4>. QED BY <4>2, <4>5, <4>6, <4>7
    <3>2. CASE ~ (r.count > 0 /\ i = r.next)
      <4>1. s = [count |-> 1, start |-> i, next |-> i + 1]
        BY <1>3, <3>2 DEF Scanned
      <4>2. s.count = 1 /\ s.start = i /\ s.next = i + 1 /\ s \in Runs
        BY <4>1, <1>0 DEF Runs
      <4>3. FreeRun(fl, s.start, s.count)
        <5>1. \A j \in i..(i + 1 - 1) : j = i
          BY <1>0
        <5>. QED BY <5>1, <4>2, <1>3 DEF FreeRun
      <4>4. ASSUME NEW a \in 1..i, FreeRun(fl, a, i + 1 - a) PROVE s.start <= a
        <5>1. CASE a # i
          <6>1. a \in 1..(i - 1) /\ \A j \in a..(a + ((i - 1) + 1 - a) - 1) : j \in a..(a + (i + 1 - a) - 1)
            BY <1>0, <5>1
          <6>2. FreeRun(fl, a, (i - 1) + 1 - a)
            BY <6>1, <4>4 DEF FreeRun
          <6>3. r.count > 0 /\ r.next = (i - 1) + 1
            BY <6>1, <6>2, <2>0 DEF RunKnown
          <6>. QED BY <6>3, <3>2, <1>0
        <5>. QED BY <5>1, <4>2, <1>0
      <4>. QED BY <1>0, <4>2, <4>3, <4>4
    <3>. QED BY <3>1, <3>2
  <2> HIDE DEF s
  <2>2. ASSUME NEW a \in 1..i, a + n - 1 <= i, FreeRun(fl, a, n) PROVE s.count = n
    <3>1. CASE a + n - 1 = i
      <4>1. i + 1 - a = n
        BY <1>0, <3>1
      <4>2. s.start <= a
        BY <4>1, <2>1, <2>2
      <4>. QED BY <4>1, <4>2, <2>1, <1>0
    <3>2. CASE a + n - 1 <= i - 1
      <4>1. a \in 1..(i - 1)
        BY <1>0, <3>2
      <4>. QED BY <4>1, <2>0, <2>2, <3>2 DEF RunKnown
    <3>. QED BY <1>0, <2>2, <3>1, <3>2
  <2>3. ASSUME s.count = n, NEW a \in 1..Len(fl), FreeRun(fl, a, n) PROVE s.start <= a
    <3>. SUFFICES ASSUME a < s.start PROVE FALSE
      BY <2>1, <1>0
    <3>1. a \in 1..(i - 1) /\ a + n - 1 <= i - 1
      BY <2>1, <2>3, <1>0
    <3>. QED BY <3>1, <2>0, <2>3 DEF RunKnown
  <2>. QED BY <1>0, <2>1, <2>2, <2>3 DEF RunKnown, s
<1>. QED BY <1>1, <1>2, <1>3

\* FindAvailable returns the least slot at which n free slots begin, or -1.
LEMMA FindIs ==
    ASSUME NEW fl, Len(fl) \in Nat, NEW n \in Nat \ {0}
    PROVE  \/ /\ FindAvailable(fl, n) = -1
              /\ \A a \in 1..Len(fl) : a + n - 1 <= Len(fl) => ~ FreeRun(fl, a, n)
           \/ /\ FindAvailable(fl, n) \in 1..Len(fl)
              /\ FindAvailable(fl, n) + n - 1 <= Len(fl)
              /\ FreeRun(fl, FindAvailable(fl, n), n)
              /\ \A a \in 1..Len(fl) : a + n - 1 <= Len(fl) /\ FreeRun(fl, a, n) => FindAvailable(fl, n) <= a
<1> DEFINE f == Scan(fl, n)
           Bad == {k \in 0..Len(fl) : ~ RunKnown(fl, n, f[k], k)}
<1>1. Scans(f, fl, n, Len(fl))
  BY ScanIs
<1> HIDE DEF f
<1>2. f[0] = NoRun /\ \A k \in 1..Len(fl) : f[k] = Scanned(fl, n, f[k - 1], k)
  BY <1>1 DEF Scans
<1>3. RunKnown(fl, n, f[0], 0)
  <2>1. NoRun \in Runs /\ NoRun.count = 0
    BY DEF NoRun, Runs
  <2>2. 1..0 = {}
    OBVIOUS
  <2>. QED BY <1>2, <2>1, <2>2 DEF RunKnown
<1>4. Bad = {}
  <2>. SUFFICES ASSUME Bad # {} PROVE FALSE
    OBVIOUS
  <2>0. Bad \in SUBSET Nat
    OBVIOUS
  <2>1. PICK k \in Bad : \A y \in Bad : k <= y
    BY <2>0, LeastIn
  <2>2. k \in 1..Len(fl) /\ ~ RunKnown(fl, n, f[k], k)
    BY <1>3
  <2>3. k - 1 \in 0..Len(fl) /\ ~ k <= k - 1
    BY <2>2
  <2>4. RunKnown(fl, n, f[k - 1], k - 1)
    BY <2>1, <2>3
  <2>5. RunKnown(fl, n, Scanned(fl, n, f[k - 1], k), k)
    BY <2>2, <2>4, RunStep
  <2>. QED BY <1>2, <2>2, <2>5
<1>5. PICK r : r = f[Len(fl)]
  OBVIOUS
<1>6. RunKnown(fl, n, r, Len(fl))
  BY <1>4, <1>5
<1>7. r \in Runs /\ r.count \in Nat /\ r.start \in Nat /\ r.next \in Nat
  BY <1>6 DEF RunKnown, Runs
<1>8. FindAvailable(fl, n) = IF r.count = n THEN r.start ELSE -1
  BY <1>5 DEF FindAvailable, f
<1>9. CASE r.count = n
  <2>1. r.start \in 1..Len(fl) /\ r.start + n - 1 <= Len(fl) /\ FreeRun(fl, r.start, n)
    BY <1>6, <1>7, <1>9 DEF RunKnown
  <2>. QED BY <1>6, <1>8, <1>9, <2>1 DEF RunKnown
<1>10. CASE r.count # n
  BY <1>6, <1>7, <1>8, <1>10 DEF RunKnown
<1>. QED BY <1>9, <1>10

\* The scan is the first fit for every vector of flags.
LEMMA FirstFitIs == ASSUME Size \in Nat PROVE FirstFit
<1>. SUFFICES ASSUME NEW n \in 1..MaxN
     PROVE LET Fits == {i \in 1..Size : i + n - 1 <= Size /\ \A j \in i..(i + n - 1) : flags[j] = 0}
           IN  IF Fits = {} THEN FindAvailable(flags, n) = -1
               ELSE /\ FindAvailable(flags, n) \in Fits
                    /\ \A i \in Fits : FindAvailable(flags, n) <= i
  BY DEF FirstFit
<1> DEFINE Fits == {i \in 1..Size : i + n - 1 <= Size /\ \A j \in i..(i + n - 1) : flags[j] = 0}
<1>1. n \in Nat \ {0}
  BY ConstantAssumption
<1>2. \A i : i \in Fits <=> i \in 1..Size /\ i + n - 1 <= Size /\ FreeRun(flags, i, n)
  BY DEF FreeRun
<1> HIDE DEF Fits
<1>3. \/ FindAvailable(flags, n) = -1 /\ \A a \in 1..Size : a + n - 1 <= Size => ~ FreeRun(flags, a, n)
      \/ /\ FindAvailable(flags, n) \in Fits
         /\ \A a \in Fits : FindAvailable(flags, n) <= a
  BY <1>1, <1>2, FindIs DEF Size
<1>4. IF Fits = {} THEN FindAvailable(flags, n) = -1
      ELSE /\ FindAvailable(flags, n) \in Fits
           /\ \A i \in Fits : FindAvailable(flags, n) <= i
  BY <1>2, <1>3
<1>. QED BY <1>4 DEF Fits

Shape ==
    /\ nMax \in Nat /\ Size = nMax
    /\ flags \in [1..nMax -> {0, 1}] /\ objs \in [1..nMax -> 0..born]
    /\ born \in Nat /\ dead \subseteq 1..born
    /\ stale \in BOOLEAN

LEMMA SeqLen == ASSUME NEW n \in Nat, NEW S, NEW f \in [1..n -> S] PROVE Len(f) = n
  OBVIOUS

LEMMA DoubledIs == ASSUME nMax \in Nat PROVE Doubled \in 0..(2 * nMax)
  BY ConstantAssumption DEF Doubled

\* The expansion: what was there below the middle, and new objects above it.
LEMMA ExpandIs ==
    ASSUME Shape, NEW k \in 0..Fresh, Expand(k)
    PROVE  /\ Doubled \in Nat /\ nMax' = Doubled /\ Size' = Doubled /\ born' = born + k
           /\ Doubled \div 2 \in 0..nMax /\ Doubled \div 2 + k <= Doubled /\ k \in Nat
           /\ flags' \in [1..Doubled -> {0, 1}]
           /\ \A i \in 1..Doubled : flags'[i] = IF i <= nMax THEN flags[i] ELSE 0
           /\ objs' \in [1..Doubled -> 0..born']
           /\ \A i \in 1..Doubled : objs'[i] = IF i <= Doubled \div 2 THEN objs[i]
                                               ELSE IF i <= Doubled \div 2 + k THEN born + i - Doubled \div 2
                                               ELSE 0
<1> DEFINE D == Doubled
           h == Doubled \div 2
<1>1. D \in 0..(2 * nMax) /\ nMax \in Nat
  BY DoubledIs DEF Shape
<1>2. D \in Nat /\ h \in 0..nMax /\ h \in Nat /\ h <= D
  BY <1>1
<1>3. k \in Nat /\ h + k <= D
  BY <1>2 DEF Fresh
<1>4. nMax' = D /\ born' = born + k /\ born \in Nat /\ Size = nMax
  BY DEF Expand, Shape
<1> HIDE DEF D, h
<1>5. /\ flags' = [i \in 1..D |-> IF i <= nMax THEN flags[i] ELSE 0]
      /\ objs' = [i \in 1..D |-> IF i <= h THEN objs[i] ELSE IF i <= h + k THEN born + i - h ELSE 0]
  BY <1>4 DEF Expand, D, h
<1>6. flags' \in [1..D -> {0, 1}]
  BY <1>1, <1>2, <1>5 DEF Shape
<1>7. \A i \in 1..D : (IF i <= h THEN objs[i] ELSE IF i <= h + k THEN born + i - h ELSE 0) \in 0..(born + k)
  <2>. TAKE i \in 1..D
  <2>1. CASE i <= h
    <3>1. i \in 1..nMax
      BY <1>1, <1>2, <2>1
    <3>2. objs[i] \in 0..born
      BY <3>1 DEF Shape
    <3>. QED BY <2>1, <3>2, <1>3, <1>4
  <2>2. CASE ~ i <= h
    BY <2>2, <1>2, <1>3, <1>4
  <2>. QED BY <2>1, <2>2
<1>8. objs' \in [1..D -> 0..(born + k)]
  BY <1>5, <1>7
<1>9. Size' = D
  BY <1>2, <1>6, SeqLen DEF Size
<1>. QED BY <1>2, <1>3, <1>4, <1>5, <1>6, <1>8, <1>9 DEF D, h

DeadInv == Shape /\ NoDeadObject

LEMMA DeadExpand ==
    ASSUME DeadInv, NEW k \in 0..Fresh, Expand(k), UNCHANGED <<dead, stale>> PROVE DeadInv'
<1> DEFINE h == Doubled \div 2
<1>1. /\ Doubled \in Nat /\ nMax' = Doubled /\ Size' = Doubled /\ born' = born + k
      /\ h \in 0..nMax /\ h + k <= Doubled /\ k \in Nat
      /\ flags' \in [1..Doubled -> {0, 1}] /\ objs' \in [1..Doubled -> 0..born']
      /\ \A i \in 1..Doubled : objs'[i] = IF i <= h THEN objs[i]
                                          ELSE IF i <= h + k THEN born + i - h ELSE 0
  BY ExpandIs DEF DeadInv
<1>2. Shape /\ born \in Nat /\ dead \subseteq 1..born /\ nMax \in Nat /\ Size = nMax /\ stale \in BOOLEAN
  BY DEF DeadInv, Shape
<1> HIDE DEF h
<1>3. dead' \subseteq 1..born'
  BY <1>1, <1>2
<1>4. Shape'
  BY <1>1, <1>2, <1>3 DEF Shape
<1>5. ASSUME ~ stale', NEW i \in 1..Doubled PROVE objs'[i] \notin dead'
  <2>1. CASE i <= h
    <3>1. i \in 1..Size /\ objs'[i] = objs[i]
      BY <1>1, <1>2, <2>1
    <3>. QED BY <3>1, <1>5 DEF DeadInv, NoDeadObject
  <2>2. CASE ~ i <= h
    BY <1>1, <1>2, <2>2
  <2>. QED BY <2>1, <2>2
<1>. QED BY <1>1, <1>4, <1>5 DEF DeadInv, NoDeadObject

LEMMA WithFlagsIs ==
    ASSUME Shape, NEW from, NEW n, NEW f \in {0, 1}
    PROVE  WithFlags(from, n, f) \in [1..nMax -> {0, 1}]
  BY DEF Shape, WithFlags

LEMMA DeadStep == ASSUME DeadInv, [Next]_vars PROVE DeadInv'
<1>. USE DEF DeadInv
<1>1. CASE UNCHANGED vars
  BY <1>1 DEF vars, slotVars, Shape, NoDeadObject, Size
<1>2. ASSUME NEW t \in Threads, NEW n \in 1..MaxN, AllocEnter(t, n) PROVE DeadInv'
  BY <1>2 DEF AllocEnter, slotVars, Shape, NoDeadObject, Size
<1>3. ASSUME NEW t \in Threads, AllocFits(t) PROVE DeadInv'
  BY <1>3 DEF AllocFits, slotVars, Shape, NoDeadObject, Size
<1>4. ASSUME NEW t \in Threads, AllocGrows(t) PROVE DeadInv'
  <2>1. Doubled \in Nat /\ Doubled \div 2 <= Doubled /\ Doubled \div 2 \in Nat
    BY DoubledIs DEF Shape
  <2>2. Fresh \in 0..Fresh
    BY <2>1 DEF Fresh
  <2>3. Expand(Fresh) /\ UNCHANGED <<dead, stale>>
    BY <1>4 DEF AllocGrows
  <2>. QED BY <2>2, <2>3, DeadExpand
<1>5. ASSUME NEW t \in Threads, AllocFails(t) PROVE DeadInv'
  <2>1. PICK k \in 0..(Fresh - 1) : Expand(k)
    BY <1>5 DEF AllocFails
  <2>2. Doubled \in Nat /\ Doubled \div 2 \in Nat
    BY DoubledIs DEF Shape
  <2>3. k \in 0..Fresh
    BY <2>2 DEF Fresh
  <2>4. UNCHANGED <<dead, stale>>
    BY <1>5 DEF AllocFails
  <2>. QED BY <2>1, <2>3, <2>4, DeadExpand
<1>6. ASSUME NEW t \in Threads, AllocMark(t) PROVE DeadInv'
  <2>1. UNCHANGED <<nMax, objs, born, dead, stale>>
    BY <1>6 DEF AllocMark
  <2>2. flags' = flags \/ flags' = WithFlags(idx[t], req[t], 1)
    BY <1>6 DEF AllocMark
  <2>3. flags' \in [1..nMax -> {0, 1}]
    BY <2>2, WithFlagsIs DEF Shape
  <2>4. Size' = Size
    BY <2>3, SeqLen DEF Shape, Size
  <2>. QED BY <2>1, <2>3, <2>4 DEF Shape, NoDeadObject
<1>7. ASSUME NEW t \in Threads, NEW a \in held[t], Free(t, a) PROVE DeadInv'
  <2>1. UNCHANGED <<nMax, objs, born, dead, stale>>
    BY <1>7 DEF Free
  <2>2. flags' = flags \/ flags' = WithFlags(FirstWith(a[1]), a[2], 0)
    BY <1>7 DEF Free
  <2>3. flags' \in [1..nMax -> {0, 1}]
    BY <2>2, WithFlagsIs DEF Shape
  <2>4. Size' = Size
    BY <2>3, SeqLen DEF Shape, Size
  <2>. QED BY <2>1, <2>3, <2>4 DEF Shape, NoDeadObject
<1>8. ASSUME NEW t \in Threads, ClearPool(t) PROVE DeadInv'
  <2>1. UNCHANGED <<nMax, objs, born>> /\ stale' = TRUE
    BY <1>8 DEF ClearPool
  <2>2. flags' = [i \in 1..nMax |-> 0]
    BY <1>8 DEF ClearPool, Shape
  <2>3. flags' \in [1..nMax -> {0, 1}]
    BY <2>2
  <2>4. Size' = nMax
    BY <2>3, SeqLen DEF Shape, Size
  <2>5. dead' = dead \cup ({objs[i] : i \in 1..nMax} \ {0})
    BY <1>8 DEF ClearPool, Shape
  <2>6. \A i \in 1..nMax : objs[i] = 0 \/ objs[i] \in 1..born
    BY DEF Shape
  <2>7. dead' \subseteq 1..born
    BY <2>5, <2>6 DEF Shape
  <2>. QED BY <2>1, <2>3, <2>4, <2>7 DEF Shape, NoDeadObject
<1>9. ASSUME NEW t \in Threads, RetryInitObj(t) PROVE DeadInv'
  <2>1. PICK k \in 0..nMax :
          /\ objs' = [i \in 1..nMax |-> IF i \in 1..k THEN born + i ELSE IF i = k + 1 THEN 0 ELSE objs[i]]
          /\ born' = born + k
          /\ stale' = (stale /\ k < nMax)
    BY <1>9 DEF RetryInitObj, RetryFrom, Shape
  <2>2. UNCHANGED <<nMax, flags, dead>> /\ Size' = Size
    BY <1>9 DEF RetryInitObj, Size
  <2>3. born \in Nat /\ k \in Nat /\ nMax \in Nat
    BY DEF Shape
  <2>4. ASSUME NEW i \in 1..nMax
        PROVE  (IF i \in 1..k THEN born + i ELSE IF i = k + 1 THEN 0 ELSE objs[i]) \in 0..(born + k)
    <3>1. objs[i] \in 0..born
      BY DEF Shape
    <3>. QED BY <3>1, <2>3
  <2>5. objs' \in [1..nMax -> 0..(born + k)]
    BY <2>1, <2>4
  <2>6. dead' \subseteq 1..born'
    BY <2>1, <2>2, <2>3 DEF Shape
  <2>7. ASSUME ~ stale', NEW i \in 1..nMax PROVE objs'[i] \notin dead
    <3>0. dead \subseteq 1..born
      BY DEF Shape
    <3>1. CASE i \in 1..k
      BY <2>1, <2>3, <3>0, <3>1
    <3>2. CASE i \notin 1..k
      <4>0. k < nMax
        BY <2>3, <3>2
      <4>1. ~ stale
        BY <2>1, <2>7, <4>0
      <4>2. objs[i] \notin dead
        BY <4>1 DEF NoDeadObject, Shape
      <4>. QED BY <2>1, <3>0, <3>2, <4>2
    <3>. QED BY <3>1, <3>2
  <2>. QED BY <2>1, <2>2, <2>5, <2>6, <2>7 DEF Shape, NoDeadObject
<1>. QED BY <1>1, <1>2, <1>3, <1>4, <1>5, <1>6, <1>7, <1>8, <1>9 DEF Next

LEMMA DeadStart == ASSUME Init PROVE DeadInv
<1>1. InitSize \in Nat
  BY ConstantAssumption
<1>2. flags \in [1..InitSize -> {0, 1}] /\ objs \in [1..InitSize -> 0..InitSize]
  BY <1>1 DEF Init
<1>3. Size = InitSize
  BY <1>1, <1>2, SeqLen DEF Size
<1>. QED BY <1>1, <1>2, <1>3 DEF Init, DeadInv, Shape, NoDeadObject

\* Unless ClearPool was not followed by a RetryInitObj that succeeded, no slot holds an
\* object that Destroy deleted: for any threads, with and without the lock, across
\* expansions that fail, and at any capacity.
THEOREM DeadNever == Spec => []NoDeadObject
<1>1. DeadInv => NoDeadObject
  BY DEF DeadInv
<1>. QED BY DeadStart, DeadStep, <1>1, PTL DEF Spec

\* FindAvailable is the first fit in every state of the pool.
THEOREM FirstFitAlways == Spec => []FirstFit
<1>1. DeadInv => FirstFit
  BY FirstFitIs DEF DeadInv, Shape
<1>. QED BY DeadStart, DeadStep, <1>1, PTL DEF Spec

-----------------------------------------------------------------------------
(* One thread: what is marked is what was handed out *)

\* The capacities the pool can reach by doubling are in Caps, and m_nMax does not wrap to
\* a smaller capacity than it had, other than 0: so it is up to 2^15 slots, and for ever
\* when Init was called with a power of two.
WrapsToNone(Caps) ==
    /\ InitSize \in Caps
    /\ \A c \in Caps : (2 * c) % Width <= MaxCap => (2 * c) % Width \in {0, 2 * c} \cap Caps

Distinct == \A i, j \in 1..nMax : objs[i] = objs[j] /\ objs[i] # 0 => i = j
Chosen(t) ==
    /\ pc[t] \in {"find", "mark"} => req[t] \in 1..MaxN
    /\ pc[t] = "mark" => /\ idx[t] \in 1..nMax /\ idx[t] + req[t] - 1 <= nMax
                         /\ FreeRun(flags, idx[t], req[t])
Placed(t) ==
    \A a \in held[t] :
        /\ a[1] \in 1..born /\ a[2] \in 1..MaxN
        /\ \A j \in 1..nMax : objs[j] = a[1] => j + a[2] - 1 <= nMax
MarkedHeld(t) ==
    /\ \A a, b \in held[t] : a # b => Slots(a) \cap Slots(b) = {}
    /\ \A i \in 1..nMax : flags[i] = 1 <=> \E a \in held[t] : i \in Slots(a)
Kept(t) == Chosen(t) /\ Distinct /\ Placed(t) /\ MarkedHeld(t)

\* Where an allocation is, when objects are distinct.
LEMMA SlotsIs ==
    ASSUME Shape, Distinct, NEW a, NEW j \in 1..nMax, objs[j] = a[1], objs[j] # 0
    PROVE  Slots(a) = {i \in 1..nMax : i \in j..(j + a[2] - 1)}
<1>1. \A k \in 1..nMax : objs[k] = a[1] <=> k = j
  BY DEF Distinct
<1>. QED BY <1>1 DEF Slots, Shape

LEMMA SlotsNone ==
    ASSUME Shape, NEW a, ~ \E j \in 1..nMax : objs[j] = a[1] PROVE Slots(a) = {}
  BY DEF Slots, Shape

LEMMA SlotsSame == ASSUME UNCHANGED objs, Size' = Size, NEW a PROVE Slots(a)' = Slots(a)
  BY DEF Slots

LEMMA KeptMark ==
    ASSUME DeadInv, NEW t \in Threads, Kept(t), DOMAIN held = Threads, DOMAIN pc = Threads, AllocMark(t), DeadInv'
    PROVE  Kept(t)'
<1>0. Shape /\ Shape' /\ Chosen(t) /\ Distinct /\ Placed(t) /\ MarkedHeld(t)
  BY DEF DeadInv, Kept
<1>1. UNCHANGED <<nMax, objs, born, idx, req>> /\ pc[t] = "mark" /\ pc'[t] = "idle"
  BY DEF AllocMark
<1>2. Size' = Size /\ Size = nMax /\ nMax \in Nat
  BY <1>0, <1>1 DEF Shape
<1>3. Chosen(t)' /\ Distinct'
  BY <1>0, <1>1 DEF Chosen, Distinct
<1>4. PICK i \in 1..nMax : i = idx[t]
  BY <1>0, <1>1 DEF Chosen
<1>5. PICK n \in 1..MaxN : n = req[t]
  BY <1>0, <1>1 DEF Chosen
<1>6. i + n - 1 <= nMax /\ FreeRun(flags, i, n) /\ n \in Nat
  BY <1>0, <1>1, <1>4, <1>5, ConstantAssumption DEF Chosen
<1>7. CASE objs[i] = 0
  <2>1. UNCHANGED <<flags, held>>
    BY <1>4, <1>7 DEF AllocMark
  <2>2. Placed(t)'
    BY <1>0, <1>1, <2>1 DEF Placed
  <2>3. MarkedHeld(t)'
    BY <1>0, <1>1, <1>2, <2>1, SlotsSame DEF MarkedHeld
  <2>. QED BY <1>3, <2>2, <2>3 DEF Kept
<1>8. CASE objs[i] # 0
  <2>1. PICK o : o = objs[i]
    OBVIOUS
  <2>2. o \in 1..born /\ o # 0
    BY <1>0, <1>8, <2>1 DEF Shape
  <2>3. /\ held'[t] = held[t] \cup {<<o, n>>}
        /\ \A j \in 1..nMax : flags'[j] = IF j \in i..(i + n - 1) THEN 1 ELSE flags[j]
    BY <1>2, <1>4, <1>5, <1>8, <2>1 DEF AllocMark, WithFlags
  <2>4. PICK a : a = <<o, n>>
    OBVIOUS
  <2>5. a[1] = o /\ a[2] = n /\ held'[t] = held[t] \cup {a}
    BY <2>3, <2>4
  <2>6. Slots(a) = {j \in 1..nMax : j \in i..(i + n - 1)}
    BY <1>0, <1>8, <2>1, <2>5, SlotsIs
  <2>7. \A b : Slots(b)' = Slots(b)
    BY <1>1, <1>2, SlotsSame
  <2>8. Placed(t)'
    <3>1. \A j \in 1..nMax : objs[j] = o => j = i
      BY <1>0, <2>1, <2>2 DEF Distinct
    <3>2. \A j \in 1..nMax : objs[j] = a[1] => j + a[2] - 1 <= nMax
      BY <1>6, <2>5, <3>1
    <3>. QED BY <1>0, <1>1, <2>2, <2>5, <3>2 DEF Placed
  <2>9. ASSUME NEW b \in held[t] PROVE Slots(a) \cap Slots(b) = {}
    <3>1. \A j \in Slots(b) : j \in 1..nMax /\ flags[j] = 1
      BY <1>0, <1>2 DEF MarkedHeld, Slots
    <3>2. \A j \in Slots(a) : flags[j] = 0
      BY <1>6, <2>6 DEF FreeRun
    <3>. QED BY <3>1, <3>2
  <2>10. ASSUME NEW x \in held'[t], NEW y \in held'[t], x # y PROVE Slots(x)' \cap Slots(y)' = {}
    <3>1. Slots(x) \cap Slots(y) = {}
      BY <1>0, <2>5, <2>9, <2>10 DEF MarkedHeld
    <3>. QED BY <2>7, <3>1
  <2>11. ASSUME NEW j \in 1..nMax PROVE flags'[j] = 1 <=> \E x \in held'[t] : j \in Slots(x)
    <3>1. CASE j \in i..(i + n - 1)
      BY <2>3, <2>5, <2>6, <3>1
    <3>2. CASE j \notin i..(i + n - 1)
      <4>1. flags'[j] = flags[j] /\ j \notin Slots(a)
        BY <2>3, <2>6, <3>2
      <4>2. flags[j] = 1 <=> \E x \in held[t] : j \in Slots(x)
        BY <1>0 DEF MarkedHeld
      <4>. QED BY <2>5, <4>1, <4>2
    <3>. QED BY <3>1, <3>2
  <2>12. MarkedHeld(t)'
    BY <1>1, <2>7, <2>10, <2>11 DEF MarkedHeld
  <2>. QED BY <1>3, <2>8, <2>12 DEF Kept
<1>. QED BY <1>7, <1>8

LEMMA KeptFree ==
    ASSUME DeadInv, NEW t \in Threads, Kept(t), DOMAIN held = Threads, NEW a \in held[t], Free(t, a), DeadInv'
    PROVE  Kept(t)'
<1>0. Shape /\ Shape' /\ Chosen(t) /\ Distinct /\ Placed(t) /\ MarkedHeld(t)
  BY DEF DeadInv, Kept
<1>1. UNCHANGED <<nMax, objs, born, idx, req, pc>> /\ pc[t] = "idle" /\ held'[t] = held[t] \ {a}
  BY DEF Free
<1>2. Size' = Size /\ Size = nMax /\ nMax \in Nat
  BY <1>0, <1>1 DEF Shape
<1>3. Chosen(t)' /\ Distinct' /\ Placed(t)'
  BY <1>0, <1>1 DEF Chosen, Distinct, Placed
<1>4. \A b : Slots(b)' = Slots(b)
  BY <1>1, <1>2, SlotsSame
<1>5. \A x, y \in held'[t] : x # y => Slots(x)' \cap Slots(y)' = {}
  BY <1>0, <1>1, <1>4 DEF MarkedHeld
<1>6. \A j \in 1..nMax : flags'[j] = IF j \in Slots(a) THEN 0 ELSE flags[j]
  <2>1. CASE ~ \E j \in 1..nMax : objs[j] = a[1]
    <3>1. Slots(a) = {}
      BY <1>0, <2>1, SlotsNone
    <3>2. flags' = flags
      BY <1>2, <2>1 DEF Free
    <3>. QED BY <3>1, <3>2
  <2>2. CASE \E j \in 1..nMax : objs[j] = a[1]
    <3>1. PICK j \in 1..nMax : objs[j] = a[1]
      BY <2>2
    <3>2. a[1] # 0
      BY <1>0 DEF Placed
    <3>3. Slots(a) = {i \in 1..nMax : i \in j..(j + a[2] - 1)}
      BY <1>0, <3>1, <3>2, SlotsIs
    <3>4. \A k \in 1..nMax : objs[k] = a[1] <=> k = j
      BY <1>0, <3>1, <3>2 DEF Distinct
    <3>5. FirstWith(a[1]) = j
      <4>1. \A k \in 1..(j - 1) : k \in 1..nMax /\ k # j
        BY <1>2
      <4>2. \A i \in 1..nMax : objs[i] = a[1] /\ (\A k \in 1..(i - 1) : objs[k] # a[1]) <=> i = j
        BY <3>4, <4>1
      <4>. QED BY <1>2, <4>2 DEF FirstWith
    <3>6. flags' = WithFlags(j, a[2], 0)
      BY <1>2, <3>1, <3>5 DEF Free
    <3>. QED BY <1>2, <3>3, <3>6 DEF WithFlags
  <2>. QED BY <2>1, <2>2
<1>7. ASSUME NEW j \in 1..nMax PROVE flags'[j] = 1 <=> \E x \in held'[t] : j \in Slots(x)
  <2>0. flags[j] = 1 <=> \E x \in held[t] : j \in Slots(x)
    BY <1>0 DEF MarkedHeld
  <2>1. CASE j \in Slots(a)
    <3>1. flags'[j] = 0
      BY <1>6, <2>1
    <3>2. \A x \in held[t] : x # a => j \notin Slots(x)
      BY <1>0, <2>1 DEF MarkedHeld
    <3>. QED BY <1>1, <3>1, <3>2
  <2>2. CASE j \notin Slots(a)
    BY <1>1, <1>6, <2>0, <2>2
  <2>. QED BY <2>1, <2>2
<1>8. MarkedHeld(t)'
  BY <1>1, <1>4, <1>5, <1>7 DEF MarkedHeld
<1>. QED BY <1>3, <1>8 DEF Kept

\* An expansion to twice the capacity, or to nothing, leaves what is handed out in place.
LEMMA KeptExpand ==
    ASSUME DeadInv, NEW t \in Threads, Distinct, Placed(t), MarkedHeld(t), DeadInv',
           NEW k \in 0..Fresh, Expand(k), Doubled \in {0, 2 * nMax}, UNCHANGED held
    PROVE  Distinct' /\ Placed(t)' /\ MarkedHeld(t)'
<1>0. Shape /\ Shape' /\ nMax \in Nat /\ Size = nMax /\ born \in Nat
  BY DEF DeadInv, Shape
<1>1. /\ nMax' = Doubled /\ Size' = Doubled /\ born' = born + k /\ k \in Nat
      /\ \A i \in 1..Doubled : flags'[i] = IF i <= nMax THEN flags[i] ELSE 0
      /\ \A i \in 1..Doubled : objs'[i] = IF i <= Doubled \div 2 THEN objs[i]
                                          ELSE IF i <= Doubled \div 2 + k THEN born + i - Doubled \div 2
                                          ELSE 0
  BY <1>0, ExpandIs
<1>2. CASE Doubled = 0
  <2>1. nMax' = 0 /\ 1..0 = {}
    BY <1>1, <1>2
  <2>2. \A a : Slots(a)' = {}
    BY <1>1, <1>2, <2>1 DEF Slots
  <2>3. \A a \in held'[t] : a[1] \in 1..born' /\ a[2] \in 1..MaxN
    BY <1>0, <1>1 DEF Placed
  <2>. QED BY <2>1, <2>2, <2>3 DEF Distinct, Placed, MarkedHeld
<1>3. CASE Doubled = 2 * nMax
  <2>1. /\ nMax' = 2 * nMax /\ Size' = 2 * nMax
        /\ \A i \in 1..(2 * nMax) : flags'[i] = IF i <= nMax THEN flags[i] ELSE 0
        /\ \A i \in 1..(2 * nMax) : objs'[i] = IF i <= nMax THEN objs[i]
                                               ELSE IF i <= nMax + k THEN born + i - nMax ELSE 0
    <3>1. Doubled \div 2 = nMax
      BY <1>0, <1>3
    <3>. QED BY <1>1, <1>3, <3>1
  <2>2. \A i \in 1..nMax : objs[i] \in 0..born
    BY <1>0 DEF Shape
  <2>3. \A i \in 1..nMax' : /\ i <= nMax => i \in 1..nMax /\ objs'[i] = objs[i]
                            /\ ~ i <= nMax => objs'[i] = 0 \/ objs'[i] = born + i - nMax
    BY <1>0, <2>1
  <2>4. Distinct'
    <3>. SUFFICES ASSUME NEW i \in 1..nMax', NEW j \in 1..nMax', objs'[i] = objs'[j], objs'[i] # 0
                  PROVE  i = j
      BY DEF Distinct
    <3>1. i \in Int /\ j \in Int
      OBVIOUS
    <3>2. CASE i <= nMax /\ j <= nMax
      BY <2>3, <3>2 DEF Distinct
    <3>3. CASE ~ i <= nMax /\ ~ j <= nMax
      BY <1>0, <2>3, <3>1, <3>3
    <3>4. CASE i <= nMax /\ ~ j <= nMax
      BY <1>0, <2>2, <2>3, <3>1, <3>4
    <3>5. CASE ~ i <= nMax /\ j <= nMax
      BY <1>0, <2>2, <2>3, <3>1, <3>5
    <3>. QED BY <3>2, <3>3, <3>4, <3>5
  <2>5. ASSUME NEW a \in held[t]
        PROVE  /\ \A j \in 1..nMax' : objs'[j] = a[1] <=> j \in 1..nMax /\ objs[j] = a[1]
               /\ \A j \in 1..nMax : objs[j] = a[1] => j + a[2] - 1 <= nMax
               /\ a[2] \in Int /\ a[1] \in 1..born
    <3>1. a[1] \in 1..born /\ a[2] \in Int /\ \A j \in 1..nMax : objs[j] = a[1] => j + a[2] - 1 <= nMax
      BY ConstantAssumption DEF Placed
    <3>2. \A j \in 1..nMax' : objs'[j] = a[1] <=> j \in 1..nMax /\ objs[j] = a[1]
      BY <1>0, <2>2, <2>3, <3>1
    <3>. QED BY <3>1, <3>2
  <2>6. ASSUME NEW a \in held[t] PROVE Slots(a)' = Slots(a)
    <3>1. \A i \in 1..nMax', j \in 1..nMax' : objs'[j] = a[1] /\ i \in j..(j + a[2] - 1) =>
             i \in 1..nMax /\ j \in 1..nMax /\ objs[j] = a[1]
      BY <1>0, <2>5
    <3>2. \A i \in 1..nMax, j \in 1..nMax : i \in 1..nMax' /\ j \in 1..nMax'
      BY <1>0, <2>1
    <3>3. \A i : i \in Slots(a)' <=> i \in 1..nMax' /\ \E j \in 1..nMax' : objs'[j] = a[1] /\ i \in j..(j + a[2] - 1)
      BY <2>1 DEF Slots
    <3>4. \A i : i \in Slots(a) <=> i \in 1..nMax /\ \E j \in 1..nMax : objs[j] = a[1] /\ i \in j..(j + a[2] - 1)
      BY <1>0 DEF Slots
    <3>5. \A i : i \in Slots(a)' <=> i \in Slots(a)
      BY <2>5, <3>1, <3>2, <3>3, <3>4
    <3>. QED BY <3>3, <3>4, <3>5
  <2>7. Placed(t)'
    <3>1. \A a \in held[t] : a[1] \in 1..born' /\ a[2] \in 1..MaxN
      BY <1>0, <1>1 DEF Placed
    <3>2. \A a \in held[t] : \A j \in 1..nMax' : objs'[j] = a[1] => j + a[2] - 1 <= nMax'
      BY <1>0, <2>1, <2>5
    <3>. QED BY <3>1, <3>2 DEF Placed
  <2>8. \A a, b \in held'[t] : a # b => Slots(a)' \cap Slots(b)' = {}
    BY <2>6 DEF MarkedHeld
  <2>9. ASSUME NEW i \in 1..nMax' PROVE flags'[i] = 1 <=> \E a \in held[t] : i \in Slots(a)
    <3>1. CASE i <= nMax
      <4>1. i \in 1..nMax /\ flags'[i] = flags[i]
        BY <1>0, <2>1, <3>1
      <4>. QED BY <4>1 DEF MarkedHeld
    <3>2. CASE ~ i <= nMax
      <4>1. flags'[i] = 0 /\ i \notin 1..nMax
        BY <1>0, <2>1, <3>2
      <4>2. \A a \in held[t] : i \notin Slots(a)
        BY <1>0, <4>1 DEF Slots
      <4>. QED BY <4>1, <4>2
    <3>. QED BY <3>1, <3>2
  <2>10. MarkedHeld(t)'
    BY <2>6, <2>8, <2>9 DEF MarkedHeld
  <2>. QED BY <2>4, <2>7, <2>10
<1>. QED BY <1>2, <1>3

HeldTypes ==
    /\ pc \in [Threads -> {"idle", "find", "mark"}]
    /\ DOMAIN req = Threads /\ DOMAIN idx = Threads /\ DOMAIN held = Threads
    /\ resets \in Nat
HeldInv(Caps) ==
    /\ DeadInv /\ HeldTypes
    /\ \A t \in Threads : Threads = {t} => nMax \in Caps /\ (resets = 0 => Kept(t))

LEMMA TypesStep == ASSUME HeldTypes, [Next]_vars PROVE HeldTypes'
<1>. USE DEF HeldTypes
<1>1. CASE UNCHANGED vars
  BY <1>1 DEF vars
<1>2. ASSUME NEW t \in Threads, NEW n \in 1..MaxN, AllocEnter(t, n) PROVE HeldTypes'
  BY <1>2 DEF AllocEnter
<1>3. ASSUME NEW t \in Threads, AllocFits(t) PROVE HeldTypes'
  BY <1>3 DEF AllocFits
<1>4. ASSUME NEW t \in Threads, AllocGrows(t) PROVE HeldTypes'
  BY <1>4 DEF AllocGrows
<1>5. ASSUME NEW t \in Threads, AllocFails(t) PROVE HeldTypes'
  BY <1>5 DEF AllocFails
<1>6. ASSUME NEW t \in Threads, AllocMark(t) PROVE HeldTypes'
  BY <1>6 DEF AllocMark
<1>7. ASSUME NEW t \in Threads, NEW a \in held[t], Free(t, a) PROVE HeldTypes'
  BY <1>7 DEF Free
<1>8. ASSUME NEW t \in Threads, ClearPool(t) PROVE HeldTypes'
  BY <1>8 DEF ClearPool
<1>9. ASSUME NEW t \in Threads, RetryInitObj(t) PROVE HeldTypes'
  BY <1>9 DEF RetryInitObj
<1>. QED BY <1>1, <1>2, <1>3, <1>4, <1>5, <1>6, <1>7, <1>8, <1>9 DEF Next

\* The run FindAvailable returns can be marked.
LEMMA FoundFits ==
    ASSUME NEW fl, Len(fl) \in Nat, NEW n \in Nat \ {0}, FindAvailable(fl, n) # -1
    PROVE  /\ FindAvailable(fl, n) \in 1..Len(fl) /\ FindAvailable(fl, n) + n - 1 <= Len(fl)
           /\ FreeRun(fl, FindAvailable(fl, n), n)
  BY FindIs

LEMMA CapStep ==
    ASSUME NEW Caps \in SUBSET Nat, WrapsToNone(Caps), nMax \in Caps, Doubled <= MaxCap
    PROVE  Doubled \in {0, 2 * nMax} \cap Caps
  BY DEF WrapsToNone, Doubled

LEMMA KeptStep ==
    ASSUME NEW Caps \in SUBSET Nat, WrapsToNone(Caps), HeldInv(Caps), DeadInv', HeldTypes', [Next]_vars,
           NEW t \in Threads, Threads = {t}
    PROVE  nMax' \in Caps /\ (resets' = 0 => Kept(t)')
<1>0. /\ DeadInv /\ HeldTypes /\ nMax \in Caps /\ Shape /\ nMax \in Nat /\ Size = nMax /\ Shape'
      /\ DOMAIN pc = Threads /\ DOMAIN req = Threads /\ DOMAIN idx = Threads /\ DOMAIN held = Threads
      /\ resets = 0 => Kept(t)
  BY DEF HeldInv, HeldTypes, DeadInv, Shape
<1>1. CASE UNCHANGED vars
  <2>1. resets' = 0 => Kept(t)'
    BY <1>0, <1>1 DEF vars, slotVars, Kept, Chosen, Distinct, Placed, MarkedHeld, Slots, Size, FreeRun
  <2>. QED BY <1>0, <1>1, <2>1 DEF vars, slotVars
<1>2. ASSUME NEW n \in 1..MaxN, AllocEnter(t, n) PROVE nMax' \in Caps /\ (resets' = 0 => Kept(t)')
  <2>1. UNCHANGED <<nMax, flags, objs, born, idx, held, resets>> /\ pc'[t] = "find" /\ req'[t] = n
    BY <1>0, <1>2 DEF AllocEnter, slotVars
  <2>2. Kept(t) => Kept(t)'
    <3>1. Chosen(t)'
      BY <2>1 DEF Chosen
    <3>2. Distinct => Distinct'
      BY <2>1 DEF Distinct
    <3>3. Placed(t) => Placed(t)'
      BY <2>1 DEF Placed
    <3>4. MarkedHeld(t) => MarkedHeld(t)'
      BY <2>1 DEF MarkedHeld, Slots, Size
    <3>. QED BY <3>1, <3>2, <3>3, <3>4 DEF Kept
  <2>. QED BY <1>0, <2>1, <2>2
<1>3. ASSUME AllocFits(t) PROVE nMax' \in Caps /\ (resets' = 0 => Kept(t)')
  <2>1. /\ UNCHANGED <<nMax, flags, objs, born, req, held, resets>>
        /\ pc[t] = "find" /\ FindAvailable(flags, req[t]) # -1 /\ idx'[t] = FindAvailable(flags, req[t])
    BY <1>0, <1>3 DEF AllocFits, slotVars
  <2>2. ASSUME Kept(t) PROVE Kept(t)'
    <3>1. PICK n \in 1..MaxN : n = req[t]
      BY <2>1, <2>2 DEF Kept, Chosen
    <3>2. n \in Nat \ {0} /\ Len(flags) = nMax /\ Len(flags) \in Nat
      BY <1>0, ConstantAssumption DEF Size
    <3>3. /\ idx'[t] \in 1..nMax /\ idx'[t] + req'[t] - 1 <= nMax' /\ FreeRun(flags', idx'[t], req'[t])
          /\ req'[t] \in 1..MaxN
      BY <2>1, <3>1, <3>2, FoundFits
    <3>4. Chosen(t)'
      BY <2>1, <3>3 DEF Chosen
    <3>5. Distinct'
      BY <2>1, <2>2 DEF Kept, Distinct
    <3>6. Placed(t)'
      BY <2>1, <2>2 DEF Kept, Placed
    <3>7. MarkedHeld(t)'
      BY <2>1, <2>2 DEF Kept, MarkedHeld, Slots, Size
    <3>. QED BY <3>4, <3>5, <3>6, <3>7 DEF Kept
  <2>. QED BY <1>0, <2>1, <2>2
<1>4. ASSUME AllocGrows(t) PROVE nMax' \in Caps /\ (resets' = 0 => Kept(t)')
  <2>1. Doubled \in {0, 2 * nMax} /\ Doubled \in Caps
    BY <1>0, <1>4, CapStep DEF AllocGrows
  <2>2. Fresh \in 0..Fresh /\ Expand(Fresh)
    <3>1. Doubled \in Nat /\ Doubled \div 2 <= Doubled /\ Doubled \div 2 \in Nat
      BY <1>0, DoubledIs
    <3>. QED BY <1>4, <3>1 DEF Fresh, AllocGrows
  <2>3. UNCHANGED <<req, held, resets>> /\ pc[t] = "find"
    BY <1>4 DEF AllocGrows
  <2>4. nMax' = Doubled
    BY <2>2 DEF Expand
  <2>5. ASSUME Kept(t) PROVE Kept(t)'
    <3>1. Distinct' /\ Placed(t)' /\ MarkedHeld(t)'
      BY <1>0, <2>1, <2>2, <2>3, <2>5, KeptExpand DEF Kept
    <3>2. PICK n \in 1..MaxN : n = req[t]
      BY <2>3, <2>5 DEF Kept, Chosen
    <3>3. n \in Nat \ {0} /\ Len(flags') = nMax' /\ Len(flags') \in Nat
      BY <1>0, ConstantAssumption DEF Size, Shape
    <3>4. PICK i : i = FindAvailable(flags', n)
      OBVIOUS
    <3>5. idx'[t] = (IF i = -1 THEN 0 ELSE i) /\ pc'[t] = IF i = -1 THEN "idle" ELSE "mark"
      BY <1>0, <1>4, <3>2, <3>4 DEF AllocGrows
    <3>6. CASE i = -1
      BY <3>1, <3>5, <3>6 DEF Kept, Chosen
    <3>7. CASE i # -1
      <4>1. idx'[t] = i /\ req'[t] = n
        BY <2>3, <3>2, <3>5, <3>7
      <4>2. i \in 1..nMax' /\ i + n - 1 <= nMax' /\ FreeRun(flags', i, n)
        BY <3>3, <3>4, <3>7, FoundFits
      <4>3. Chosen(t)'
        BY <4>1, <4>2 DEF Chosen
      <4>. QED BY <3>1, <4>3 DEF Kept
    <3>. QED BY <3>6, <3>7
  <2>. QED BY <1>0, <2>1, <2>3, <2>4, <2>5
<1>5. ASSUME AllocFails(t) PROVE nMax' \in Caps /\ (resets' = 0 => Kept(t)')
  <2>1. Doubled \in {0, 2 * nMax} /\ Doubled \in Caps
    BY <1>0, <1>5, CapStep DEF AllocFails
  <2>2. PICK k \in 0..(Fresh - 1) : Expand(k)
    BY <1>5 DEF AllocFails
  <2>3. k \in 0..Fresh
    <3>1. Doubled \in Nat /\ Doubled \div 2 \in Nat
      BY <1>0, DoubledIs
    <3>. QED BY <3>1 DEF Fresh
  <2>4. UNCHANGED <<req, idx, held, resets>> /\ pc'[t] = "idle"
    BY <1>0, <1>5 DEF AllocFails
  <2>5. nMax' = Doubled
    BY <2>2 DEF Expand
  <2>6. ASSUME Kept(t) PROVE Kept(t)'
    <3>1. Distinct' /\ Placed(t)' /\ MarkedHeld(t)'
      BY <1>0, <2>1, <2>2, <2>3, <2>4, <2>6, KeptExpand DEF Kept
    <3>. QED BY <2>4, <3>1 DEF Kept, Chosen
  <2>. QED BY <1>0, <2>1, <2>4, <2>5, <2>6
<1>6. ASSUME AllocMark(t) PROVE nMax' \in Caps /\ (resets' = 0 => Kept(t)')
  <2>1. UNCHANGED <<nMax, resets>>
    BY <1>6 DEF AllocMark
  <2>2. Kept(t) => Kept(t)'
    BY <1>0, <1>6, KeptMark
  <2>. QED BY <1>0, <2>1, <2>2
<1>7. ASSUME NEW a \in held[t], Free(t, a) PROVE nMax' \in Caps /\ (resets' = 0 => Kept(t)')
  <2>1. UNCHANGED <<nMax, resets>>
    BY <1>7 DEF Free
  <2>2. Kept(t) => Kept(t)'
    BY <1>0, <1>7, KeptFree
  <2>. QED BY <1>0, <2>1, <2>2
<1>8. ASSUME ClearPool(t) \/ RetryInitObj(t) PROVE nMax' \in Caps /\ (resets' = 0 => Kept(t)')
  <2>1. resets' = resets + 1 /\ nMax' = nMax /\ resets \in Nat
    BY <1>0, <1>8 DEF ClearPool, RetryInitObj, HeldTypes
  <2>. QED BY <1>0, <2>1
<1>9. CASE Next
  <2>1. \/ \E n \in 1..MaxN : AllocEnter(t, n)
        \/ AllocFits(t) \/ AllocGrows(t) \/ AllocFails(t) \/ AllocMark(t)
        \/ \E a \in held[t] : Free(t, a)
        \/ ClearPool(t) \/ RetryInitObj(t)
    BY <1>9 DEF Next
  <2>. QED BY <2>1, <1>2, <1>3, <1>4, <1>5, <1>6, <1>7, <1>8
<1>. QED BY <1>1, <1>9

LEMMA HeldStep ==
    ASSUME NEW Caps \in SUBSET Nat, WrapsToNone(Caps), HeldInv(Caps), [Next]_vars PROVE HeldInv(Caps)'
<1>1. DeadInv' /\ HeldTypes'
  BY DeadStep, TypesStep DEF HeldInv
<1>2. ASSUME NEW t \in Threads, Threads = {t} PROVE nMax' \in Caps /\ (resets' = 0 => Kept(t)')
  BY <1>1, <1>2, KeptStep
<1>. QED BY <1>1, <1>2 DEF HeldInv

LEMMA HeldStart ==
    ASSUME NEW Caps \in SUBSET Nat, WrapsToNone(Caps), Init PROVE HeldInv(Caps)
<1>1. DeadInv
  BY DeadStart
<1>2. HeldTypes
  BY DEF Init, HeldTypes
<1>3. nMax \in Caps
  BY DEF Init, WrapsToNone
<1>4. ASSUME NEW t \in Threads PROVE Kept(t)
  <2>1. Chosen(t) /\ Placed(t) /\ held[t] = {}
    BY DEF Init, Chosen, Placed
  <2>2. Distinct
    BY DEF Init, Distinct
  <2>3. MarkedHeld(t)
    BY <2>1 DEF Init, MarkedHeld
  <2>. QED BY <2>1, <2>2, <2>3 DEF Kept
<1>. QED BY <1>1, <1>2, <1>3, <1>4 DEF HeldInv

LEMMA HeldSo ==
    ASSUME NEW Caps \in SUBSET Nat, HeldInv(Caps) PROVE ObjectsHeld
<1>0. NoDeadObject /\ Shape
  BY DEF HeldInv, DeadInv
<1>1. ASSUME Cardinality(Threads) = 1, resets = 0
      PROVE  NoSharing /\ {i \in 1..Size : flags[i] = 1} = UNION {Slots(x[2]) : x \in Holdings}
  <2>1. PICK t : Threads = {t}
    BY <1>1, FS_Singleton, ConstantAssumption
  <2>2. t \in Threads /\ MarkedHeld(t)
    BY <1>1, <2>1 DEF HeldInv, Kept
  <2>3. \A x : x \in Holdings <=> \E a \in held[t] : x = <<t, a>>
    BY <2>1 DEF Holdings
  <2>4. NoSharing
    <3>. SUFFICES ASSUME NEW x \in Holdings, NEW y \in Holdings, x # y PROVE Slots(x[2]) \cap Slots(y[2]) = {}
      BY DEF NoSharing
    <3>1. PICK a \in held[t] : x = <<t, a>>
      BY <2>3
    <3>2. PICK b \in held[t] : y = <<t, b>>
      BY <2>3
    <3>3. x[2] = a /\ y[2] = b /\ a # b
      BY <3>1, <3>2
    <3>. QED BY <2>2, <3>3 DEF MarkedHeld
  <2>5. UNION {Slots(x[2]) : x \in Holdings} = UNION {Slots(a) : a \in held[t]}
    <3>1. ASSUME NEW a \in held[t] PROVE \E x \in Holdings : x[2] = a
      <4>1. <<t, a>> \in Holdings /\ <<t, a>>[2] = a
        BY <2>3
      <4>. QED BY <4>1
    <3>2. ASSUME NEW x \in Holdings PROVE x[2] \in held[t]
      BY <2>3
    <3>. QED BY <3>1, <3>2
  <2>6. \A i : i \in UNION {Slots(a) : a \in held[t]} <=> i \in 1..Size /\ flags[i] = 1
    <3>1. \A a \in held[t] : Slots(a) \subseteq 1..Size
      BY DEF Slots
    <3>2. \A i \in 1..Size : flags[i] = 1 <=> \E a \in held[t] : i \in Slots(a)
      BY <1>0, <2>2 DEF MarkedHeld, Shape
    <3>. QED BY <3>1, <3>2
  <2>. QED BY <2>4, <2>5, <2>6
<1>. QED BY <1>0, <1>1 DEF ObjectsHeld, MarkedAreHeld

\* One thread is never handed a slot twice, and what is marked is what it holds, through
\* every Alloc, Free and expansion, complete or not; and no slot keeps a deleted object
\* outside ClearPool and RetryInitObj.  For any sizes of which the doubled capacity does
\* not wrap around to a smaller one.
THEOREM HeldAlways ==
    ASSUME NEW Caps \in SUBSET Nat, WrapsToNone(Caps) PROVE Spec => []ObjectsHeld
<1>1. Init => HeldInv(Caps)
  BY HeldStart
<1>2. HeldInv(Caps) /\ [Next]_vars => HeldInv(Caps)'
  BY HeldStep
<1>3. HeldInv(Caps) => ObjectsHeld
  BY HeldSo
<1>. QED BY <1>1, <1>2, <1>3, PTL DEF Spec

-----------------------------------------------------------------------------
(***************************************************************************)
(* The page allocator.                                                     *)
(***************************************************************************)

\* f is the count after each of the first k flags.
CountsTo(f, fl, k) ==
    f = [i \in 0..k |-> IF i = 0 THEN 0 ELSE RunLength(fl, i, f[i - 1])]

LEMMA CountsLonger ==
    ASSUME NEW fl, NEW k \in Nat, NEW f, CountsTo(f, fl, k)
    PROVE  \E g : CountsTo(g, fl, k + 1)
<1> DEFINE g == [i \in 0..(k + 1) |-> IF i <= k THEN f[i] ELSE RunLength(fl, k + 1, f[k])]
<1>1. ASSUME NEW i \in 0..(k + 1) PROVE g[i] = IF i = 0 THEN 0 ELSE RunLength(fl, i, g[i - 1])
  <2>1. CASE i = 0
    BY <2>1 DEF CountsTo
  <2>2. CASE i \in 1..k
    <3>1. f[i] = RunLength(fl, i, f[i - 1])
      BY <2>2 DEF CountsTo
    <3>2. g[i] = f[i] /\ i - 1 \in 0..(k + 1) /\ i - 1 <= k /\ i # 0
      BY <2>2
    <3>3. g[i - 1] = f[i - 1]
      BY <3>2
    <3>. QED BY <3>1, <3>2, <3>3
  <2>3. CASE i = k + 1
    <3>1. g[i] = RunLength(fl, i, f[k]) /\ i - 1 = k /\ i # 0
      BY <2>3
    <3>2. g[k] = f[k]
      OBVIOUS
    <3>. QED BY <3>1, <3>2
  <2>. QED BY <2>1, <2>2, <2>3
<1>2. g = [i \in 0..(k + 1) |-> IF i = 0 THEN 0 ELSE RunLength(fl, i, g[i - 1])]
  <2> DEFINE G(i) == IF i <= k THEN f[i] ELSE RunLength(fl, k + 1, f[k])
             H(i) == IF i = 0 THEN 0 ELSE RunLength(fl, i, g[i - 1])
  <2>1. \A i \in 0..(k + 1) : G(i) = H(i)
    BY <1>1
  <2>2. g = [i \in 0..(k + 1) |-> G(i)]
    OBVIOUS
  <2> HIDE DEF g, G, H
  <2>3. g = [i \in 0..(k + 1) |-> H(i)]
    BY <2>1, <2>2
  <2>. QED BY <2>3 DEF H
<1>. QED BY <1>2 DEF CountsTo

\* The recursion of the page allocator's loop is well defined.
LEMMA CountsIs ==
    ASSUME NEW fl, Len(fl) \in Nat PROVE CountsTo(Counts(fl), fl, Len(fl))
<1> DEFINE Bad == {k \in Nat : ~ \E f : CountsTo(f, fl, k)}
<1>1. \E f : CountsTo(f, fl, 0)
  <2>1. [i \in 0..0 |-> 0] = [i \in 0..0 |-> IF i = 0 THEN 0 ELSE RunLength(fl, i, [j \in 0..0 |-> 0][i - 1])]
    OBVIOUS
  <2>. QED BY <2>1 DEF CountsTo
<1>2. Bad = {}
  <2>. SUFFICES ASSUME Bad # {} PROVE FALSE
    OBVIOUS
  <2>1. PICK k \in Bad : \A y \in Bad : k <= y
    BY LeastIn
  <2>2. k \in Nat /\ ~ \E f : CountsTo(f, fl, k)
    OBVIOUS
  <2>3. k # 0
    BY <1>1, <2>2
  <2>4. k - 1 \in Nat /\ ~ k <= k - 1
    BY <2>2, <2>3
  <2>5. k - 1 \notin Bad
    BY <2>1, <2>4
  <2>6. PICK f : CountsTo(f, fl, k - 1)
    BY <2>4, <2>5
  <2>7. \E g : CountsTo(g, fl, (k - 1) + 1)
    BY <2>4, <2>6, CountsLonger
  <2>. QED BY <2>2, <2>7
<1>3. \E f : CountsTo(f, fl, Len(fl))
  BY <1>2
<1>. QED BY <1>3 DEF Counts, CountsTo

\* The count is the length of the longest run of zeros that ends there.
LongestRun(fl, c, i) ==
    /\ c \in 0..i
    /\ \A j \in (i - c + 1)..i : fl[j] = 0
    /\ c < i => fl[i - c] # 0

LEMMA CountKnown ==
    ASSUME NEW fl, Len(fl) \in Nat
    PROVE  /\ Counts(fl)[0] = 0
           /\ \A i \in 1..Len(fl) : Counts(fl)[i] = RunLength(fl, i, Counts(fl)[i - 1])
           /\ \A i \in 0..Len(fl) : LongestRun(fl, Counts(fl)[i], i)
<1> DEFINE f == Counts(fl)
           Bad == {k \in 0..Len(fl) : ~ LongestRun(fl, f[k], k)}
<1>1. CountsTo(f, fl, Len(fl))
  BY CountsIs
<1> HIDE DEF f
<1>2. f[0] = 0 /\ \A k \in 1..Len(fl) : f[k] = RunLength(fl, k, f[k - 1])
  BY <1>1 DEF CountsTo
<1>3. LongestRun(fl, f[0], 0)
  BY <1>2 DEF LongestRun
<1>4. Bad = {}
  <2>. SUFFICES ASSUME Bad # {} PROVE FALSE
    OBVIOUS
  <2>0. Bad \in SUBSET Nat
    OBVIOUS
  <2>1. PICK k \in Bad : \A y \in Bad : k <= y
    BY <2>0, LeastIn
  <2>2. k \in 1..Len(fl) /\ ~ LongestRun(fl, f[k], k)
    BY <1>3
  <2>3. k - 1 \in 0..Len(fl) /\ ~ k <= k - 1
    BY <2>2
  <2>4. LongestRun(fl, f[k - 1], k - 1)
    BY <2>1, <2>3
  <2>5. f[k] = IF fl[k] # 0 THEN 0 ELSE f[k - 1] + 1
    BY <1>2, <2>2 DEF RunLength
  <2>6. LongestRun(fl, f[k], k)
    <3>1. CASE fl[k] # 0
      <4>1. f[k] = 0 /\ k \in Nat /\ k - 0 = k
        BY <2>2, <2>5, <3>1
      <4>. QED BY <3>1, <4>1 DEF LongestRun
    <3>2. CASE fl[k] = 0
      <4>1. PICK c : c = f[k - 1]
        OBVIOUS
      <4>2. /\ c \in 0..(k - 1) /\ \A j \in ((k - 1) - c + 1)..(k - 1) : fl[j] = 0
            /\ c < k - 1 => fl[(k - 1) - c] # 0
        BY <2>4, <4>1 DEF LongestRun
      <4>3. f[k] = c + 1
        BY <2>5, <3>2, <4>1
      <4>4. /\ (k - 1) - c + 1 = k - (c + 1) + 1 /\ (k - 1) - c = k - (c + 1)
            /\ \A j \in (k - (c + 1) + 1)..k : j = k \/ j \in ((k - 1) - c + 1)..(k - 1)
            /\ c + 1 \in 0..k /\ (c + 1 < k => c < k - 1)
        BY <2>2, <4>2
      <4>5. LongestRun(fl, c + 1, k)
        BY <3>2, <4>2, <4>4 DEF LongestRun
      <4>. QED BY <4>3, <4>5
    <3>. QED BY <3>1, <3>2
  <2>. QED BY <2>2, <2>6
<1>. QED BY <1>2, <1>4 DEF f

\* FindAvailable of the page allocator is the first fit too.
LEMMA PgFindIs ==
    ASSUME NEW fl, Len(fl) \in Nat, NEW n \in Nat \ {0}
    PROVE  \/ /\ PgFindAvailable(fl, n) = -1
              /\ \A a \in 1..Len(fl) : a + n - 1 <= Len(fl) => ~ FreeRun(fl, a, n)
           \/ /\ PgFindAvailable(fl, n) \in 1..Len(fl)
              /\ PgFindAvailable(fl, n) + n - 1 <= Len(fl)
              /\ FreeRun(fl, PgFindAvailable(fl, n), n)
              /\ \A a \in 1..Len(fl) : a + n - 1 <= Len(fl) /\ FreeRun(fl, a, n) => PgFindAvailable(fl, n) <= a
<1> DEFINE f == Counts(fl)
           last == {i \in 1..Len(fl) : f[i] = n}
<1>1. /\ f[0] = 0
      /\ \A i \in 1..Len(fl) : f[i] = RunLength(fl, i, f[i - 1])
      /\ \A i \in 0..Len(fl) : LongestRun(fl, f[i], i)
  BY CountKnown
<1>2. PgFindAvailable(fl, n) = IF last = {} THEN -1 ELSE Min(last) - n + 1
  BY DEF PgFindAvailable
<1> HIDE DEF f
<1>3. \A i \in 0..Len(fl) : f[i] \in 0..i
  BY <1>1 DEF LongestRun
\* Where n free flags end the count has reached n.
<1>4. ASSUME NEW a \in 1..Len(fl), a + n - 1 <= Len(fl), FreeRun(fl, a, n)
      PROVE  \E i \in last : i <= a + n - 1
  <2>1. PICK e \in 1..Len(fl) : e = a + n - 1
    BY <1>4
  <2>2. f[e] >= n
    <3>. SUFFICES ASSUME ~ f[e] >= n PROVE FALSE
      OBVIOUS
    <3>1. PICK c : c = f[e]
      OBVIOUS
    <3>2. c \in 0..e /\ c < n /\ (c < e => fl[e - c] # 0)
      BY <1>1, <1>3, <3>1 DEF LongestRun
    <3>3. e - c \in a..(a + n - 1) /\ c < e
      BY <2>1, <3>2
    <3>. QED BY <3>2, <3>3, <1>4 DEF FreeRun
  <2> DEFINE T == {i \in 1..Len(fl) : f[i] >= n}
  <2>3. T \in SUBSET Nat /\ e \in T
    BY <2>2
  <2>4. PICK i \in T : \A y \in T : i <= y
    BY <2>3, LeastIn
  <2>5. i \in 1..Len(fl) /\ f[i] >= n /\ i <= e /\ i - 1 \in 0..Len(fl)
    BY <2>3, <2>4
  <2>6. f[i - 1] < n
    <3>1. CASE i = 1
      BY <1>1, <3>1
    <3>2. CASE i # 1
      <4>1. i - 1 \in 1..Len(fl) /\ ~ i <= i - 1
        BY <2>5, <3>2
      <4>2. ~ f[i - 1] >= n
        BY <2>4, <4>1
      <4>. QED BY <1>3, <2>5, <4>2
    <3>. QED BY <3>1, <3>2
  <2>7. f[i] = IF fl[i] # 0 THEN 0 ELSE f[i - 1] + 1
    BY <1>1, <2>5 DEF RunLength
  <2>8. f[i] = n
    BY <1>3, <2>5, <2>6, <2>7
  <2>. QED BY <2>1, <2>5, <2>8
<1>5. CASE last = {}
  <2>1. PgFindAvailable(fl, n) = -1
    BY <1>2, <1>5
  <2>2. \A a \in 1..Len(fl) : a + n - 1 <= Len(fl) => ~ FreeRun(fl, a, n)
    BY <1>4, <1>5
  <2>. QED BY <2>1, <2>2
<1>6. CASE last # {}
  <2>1. PICK i : i = Min(last)
    OBVIOUS
  <2>2. i \in last /\ \A y \in last : i <= y
    <3>1. last \in SUBSET Nat
      OBVIOUS
    <3> HIDE DEF last
    <3>. QED BY <1>6, <2>1, <3>1, MinIs
  <2>3. i \in 1..Len(fl) /\ f[i] = n
    BY <2>2
  <2>4. PgFindAvailable(fl, n) = i - n + 1
    BY <1>2, <1>6, <2>1
  <2>5. n \in 0..i /\ \A j \in (i - n + 1)..i : fl[j] = 0
    BY <1>1, <2>3 DEF LongestRun
  <2>6. i - n + 1 \in 1..Len(fl) /\ (i - n + 1) + n - 1 <= Len(fl)
        /\ \A j \in (i - n + 1)..((i - n + 1) + n - 1) : j \in (i - n + 1)..i
    BY <2>3, <2>5
  <2>7. FreeRun(fl, i - n + 1, n)
    BY <2>5, <2>6 DEF FreeRun
  <2>8. ASSUME NEW a \in 1..Len(fl), a + n - 1 <= Len(fl), FreeRun(fl, a, n) PROVE i - n + 1 <= a
    <3>1. PICK y \in last : y <= a + n - 1
      BY <2>8, <1>4
    <3>2. i <= y /\ y \in 1..Len(fl)
      BY <2>2
    <3>. QED BY <2>3, <3>1, <3>2
  <2>. QED BY <2>4, <2>6, <2>7, <2>8
<1>. QED BY <1>5, <1>6

-----------------------------------------------------------------------------
(* The runs of pages *)

LEMMA PageUnits == UnitsPerPage \in Nat
<1>1. \A x \in Nat, d \in Nat \ {0} : x \div d \in Nat
  OBVIOUS
<1>2. PageLen - NodeLen - 1 \in Nat /\ Unit + 1 \in Nat \ {0}
  BY PageAssumption
<1>. QED BY <1>1, <1>2 DEF UnitsPerPage

Page == [1..UnitsPerPage -> {0, 1}]
\* The runs lie in the pages, no two share a unit, and the flags are the runs' units.
PgShape ==
    /\ pgFlags \in Seq(Page)
    /\ pgHeld \subseteq [page : 1..Len(pgFlags), unit : 1..UnitsPerPage, n : 1..MaxRun]
    /\ \A r \in pgHeld : r.unit + r.n - 1 <= UnitsPerPage
InRun(r, p, k) == r.page = p /\ k \in r.unit..(r.unit + r.n - 1)
PgInv ==
    /\ PgShape
    /\ ~ pgUp => pgFlags = <<>> /\ pgHeld = {}
    /\ \A p \in 1..Len(pgFlags), k \in 1..UnitsPerPage :
          pgFlags[p][k] = 1 <=> \E r \in pgHeld : InRun(r, p, k)
    /\ \A r, s \in pgHeld : \A p, k : InRun(r, p, k) /\ InRun(s, p, k) => r = s

LEMMA FlagsOfPage == ASSUME NEW fl \in Page PROVE Len(fl) = UnitsPerPage
  BY PageUnits DEF Page

LEMMA EmptyPage == [i \in 1..UnitsPerPage |-> 0] \in Page
  BY DEF Page

\* A page more changes nothing that is held.
LEMMA ExpendIs ==
    ASSUME PgShape
    PROVE  /\ Expend(pgFlags) \in Seq(Page) /\ Len(Expend(pgFlags)) = Len(pgFlags) + 1
           /\ \A p \in 1..Len(pgFlags) : Expend(pgFlags)[p] = pgFlags[p]
           /\ \A k \in 1..UnitsPerPage : Expend(pgFlags)[Len(pgFlags) + 1][k] = 0
<1>1. PICK e : e = [i \in 1..UnitsPerPage |-> 0]
  OBVIOUS
<1>2. e \in Page /\ \A k \in 1..UnitsPerPage : e[k] = 0
  BY <1>1, EmptyPage
<1>3. Expend(pgFlags) = Append(pgFlags, e) /\ pgFlags \in Seq(Page)
  BY <1>1 DEF Expend, PgShape
<1>. QED BY <1>2, <1>3, AppendProperties

\* The page Alloc takes: the first with a run of n free units, or the one behind the last.
LEMMA PageForIs ==
    ASSUME PgShape, NEW n \in Nat \ {0}
    PROVE  /\ PageFor(n) \in 1..(Len(pgFlags) + 1)
           /\ \A q \in 1..(PageFor(n) - 1) : PgFindAvailable(pgFlags[q], n) = -1
           /\ PageFor(n) \in 1..Len(pgFlags) => PgFindAvailable(pgFlags[PageFor(n)], n) # -1
<1>0. Len(pgFlags) \in Nat
  BY LenProperties DEF PgShape
<1>1. CASE PagesWith(n) = {}
  <2>1. PageFor(n) = Len(pgFlags) + 1
    BY <1>1 DEF PageFor
  <2>2. \A q \in 1..Len(pgFlags) : PgFindAvailable(pgFlags[q], n) = -1
    BY <1>1 DEF PagesWith
  <2>. QED BY <1>0, <2>1, <2>2
<1>2. CASE PagesWith(n) # {}
  <2>1. PagesWith(n) \in SUBSET Nat
    BY <1>0 DEF PagesWith
  <2>2. PICK p : p = PageFor(n)
    OBVIOUS
  <2>3. p \in PagesWith(n) /\ \A q \in PagesWith(n) : p <= q
    BY <1>2, <2>1, <2>2, MinIs DEF PageFor
  <2>4. p \in 1..Len(pgFlags) /\ PgFindAvailable(pgFlags[p], n) # -1
    BY <2>3 DEF PagesWith
  <2>5. ASSUME NEW q \in 1..(p - 1) PROVE PgFindAvailable(pgFlags[q], n) = -1
    <3>1. q \in 1..Len(pgFlags) /\ ~ p <= q
      BY <1>0, <2>4
    <3>. QED BY <2>3, <3>1 DEF PagesWith
  <2>. QED BY <1>0, <2>2, <2>4, <2>5
<1>. QED BY <1>1, <1>2

\* What Alloc(n) does: the page, the list with it and the run found there.
LEMMA AllocFinds ==
    ASSUME PgShape, NEW n \in 1..MaxRun, PgAlloc(n)
    PROVE  \E p \in 1..(Len(pgFlags) + 1), pages \in Seq(Page), i \in Int :
             /\ p = PageFor(n) /\ p \in 1..Len(pages) /\ Len(pages) >= Len(pgFlags)
             /\ Len(pages) <= Len(pgFlags) + 1
             /\ \A q \in 1..Len(pgFlags) : pages[q] = pgFlags[q]
             /\ \A q \in 1..Len(pages), k \in 1..UnitsPerPage : q > Len(pgFlags) => pages[q][k] = 0
             /\ i = PgFindAvailable(pages[p], n)
             /\ IF i = -1 THEN pgFlags' = pages /\ pgHeld' = pgHeld
                ELSE /\ pgFlags' = [pages EXCEPT ![p] = Marked(@, i, n, 1)]
                     /\ pgHeld' = pgHeld \cup {[page |-> p, unit |-> i, n |-> n]}
<1>0. n \in Nat \ {0} /\ Len(pgFlags) \in Nat /\ pgFlags \in Seq(Page) /\ DOMAIN pgFlags = 1..Len(pgFlags)
  BY PageAssumption, LenProperties DEF PgShape
<1>1. PICK p : p = PageFor(n)
  OBVIOUS
<1>2. p \in 1..(Len(pgFlags) + 1)
  BY <1>0, <1>1, PageForIs
<1>3. PICK pages : pages = IF p \in DOMAIN pgFlags THEN pgFlags ELSE Expend(pgFlags)
  OBVIOUS
<1>4. /\ pages \in Seq(Page) /\ p \in 1..Len(pages) /\ Len(pages) >= Len(pgFlags)
      /\ Len(pages) <= Len(pgFlags) + 1
      /\ \A q \in 1..Len(pgFlags) : pages[q] = pgFlags[q]
      /\ \A q \in 1..Len(pages), k \in 1..UnitsPerPage : q > Len(pgFlags) => pages[q][k] = 0
  <2>1. CASE p \in 1..Len(pgFlags)
    BY <1>0, <1>3, <2>1
  <2>2. CASE p \notin 1..Len(pgFlags)
    <3>1. pages = Expend(pgFlags) /\ p = Len(pgFlags) + 1
      BY <1>0, <1>2, <1>3, <2>2
    <3>. QED BY <1>0, <3>1, ExpendIs
  <2>. QED BY <2>1, <2>2
<1>5. PICK i : i = PgFindAvailable(pages[p], n)
  OBVIOUS
<1>6. i \in Int
  <2>1. pages[p] \in Page
    BY <1>4, ElementOfSeq
  <2>2. Len(pages[p]) \in Nat
    BY <2>1, FlagsOfPage, PageUnits
  <2>3. PgFindAvailable(pages[p], n) \in Int
    BY <1>0, <2>2, PgFindIs
  <2>. QED BY <1>5, <2>3
<1>7. IF i = -1 THEN pgFlags' = pages /\ pgHeld' = pgHeld
      ELSE /\ pgFlags' = [pages EXCEPT ![p] = Marked(@, i, n, 1)]
           /\ pgHeld' = pgHeld \cup {[page |-> p, unit |-> i, n |-> n]}
  BY <1>1, <1>3, <1>5 DEF PgAlloc
<1>. QED BY <1>1, <1>2, <1>4, <1>5, <1>6, <1>7

\* The run FindAvailable finds in a page.
LEMMA RunFound ==
    ASSUME NEW fl \in Page, NEW n \in 1..MaxRun, NEW i, i = PgFindAvailable(fl, n)
    PROVE  /\ i = -1 => RunIn(fl, n) = {}
           /\ i # -1 => /\ i \in 1..UnitsPerPage /\ i + n - 1 <= UnitsPerPage
                        /\ \A k \in i..(i + n - 1) : fl[k] = 0
                        /\ i = Min(RunIn(fl, n))
<1>0. n \in Nat \ {0} /\ Len(fl) = UnitsPerPage /\ UnitsPerPage \in Nat
  BY PageAssumption, FlagsOfPage, PageUnits
<1> DEFINE R == RunIn(fl, n)
<1>1. \A a : a \in R <=> a \in 1..UnitsPerPage /\ a + n - 1 <= UnitsPerPage /\ FreeRun(fl, a, n)
  BY <1>0 DEF RunIn, FreeRun
<1>2. R \in SUBSET Nat
  BY <1>0 DEF RunIn
<1> HIDE DEF R
<1>3. \/ i = -1 /\ \A a \in 1..UnitsPerPage : a + n - 1 <= UnitsPerPage => ~ FreeRun(fl, a, n)
      \/ i \in R /\ \A a \in R : i <= a
  BY <1>0, <1>1, PgFindIs
<1>4. CASE i = -1
  <2>1. R = {}
    BY <1>0, <1>1, <1>2, <1>3, <1>4
  <2>. QED BY <1>4, <2>1 DEF R
<1>5. CASE i # -1
  <2>1. i \in R /\ \A a \in R : i <= a
    BY <1>3, <1>5
  <2>2. Min(R) \in R /\ \A a \in R : Min(R) <= a
    BY <1>2, <2>1, MinIs
  <2>3. i = Min(R)
    <3>1. PICK m : m = Min(R)
      OBVIOUS
    <3>2. m \in R /\ m <= i /\ i <= m /\ m \in Nat /\ i \in Nat
      BY <1>2, <2>1, <2>2, <3>1
    <3>. QED BY <3>1, <3>2
  <2>. QED BY <1>1, <1>5, <2>1, <2>3 DEF R, FreeRun
<1>. QED BY <1>4, <1>5

LEMMA MarkedIs ==
    ASSUME NEW fl \in Page, NEW i, NEW n, NEW c \in {0, 1}
    PROVE  /\ Marked(fl, i, n, c) \in Page
           /\ \A k \in 1..UnitsPerPage : Marked(fl, i, n, c)[k] = IF k \in i..(i + n - 1) THEN c ELSE fl[k]
<1>1. DOMAIN fl = 1..UnitsPerPage /\ \A k \in 1..UnitsPerPage : fl[k] \in {0, 1}
  BY DEF Page
<1>. QED BY <1>1 DEF Marked, Page

LEMMA PagesExcept ==
    ASSUME NEW pages \in Seq(Page), NEW p \in 1..Len(pages), NEW fl \in Page
    PROVE  /\ [pages EXCEPT ![p] = fl] \in Seq(Page)
           /\ Len([pages EXCEPT ![p] = fl]) = Len(pages)
           /\ \A q \in 1..Len(pages) : [pages EXCEPT ![p] = fl][q] = IF q = p THEN fl ELSE pages[q]
  OBVIOUS

LEMMA PgAllocStep ==
    ASSUME PgInv, NEW n \in 1..MaxRun, PgAlloc(n) PROVE PgInv'
<1>0. PgShape /\ Len(pgFlags) \in Nat /\ n \in Nat \ {0} /\ UnitsPerPage \in Nat
  BY PageAssumption, LenProperties, PageUnits DEF PgInv, PgShape
<1>u. pgUp /\ pgUp' = pgUp
  BY DEF PgAlloc
<1>1. PICK p \in 1..(Len(pgFlags) + 1), pages \in Seq(Page), i \in Int :
             /\ p = PageFor(n) /\ p \in 1..Len(pages) /\ Len(pages) >= Len(pgFlags)
             /\ Len(pages) <= Len(pgFlags) + 1
             /\ \A q \in 1..Len(pgFlags) : pages[q] = pgFlags[q]
             /\ \A q \in 1..Len(pages), k \in 1..UnitsPerPage : q > Len(pgFlags) => pages[q][k] = 0
             /\ i = PgFindAvailable(pages[p], n)
             /\ IF i = -1 THEN pgFlags' = pages /\ pgHeld' = pgHeld
                ELSE /\ pgFlags' = [pages EXCEPT ![p] = Marked(@, i, n, 1)]
                     /\ pgHeld' = pgHeld \cup {[page |-> p, unit |-> i, n |-> n]}
  BY <1>0, AllocFinds
<1>2. Len(pages) \in Nat /\ pages[p] \in Page
  BY <1>1, LenProperties, ElementOfSeq
<1>3. pgHeld \subseteq [page : 1..Len(pages), unit : 1..UnitsPerPage, n : 1..MaxRun]
  BY <1>0, <1>1, <1>2 DEF PgShape
<1>4. \A q \in 1..Len(pages), k \in 1..UnitsPerPage :
         pages[q][k] = 1 <=> \E r \in pgHeld : InRun(r, q, k)
  <2>. TAKE q \in 1..Len(pages), k \in 1..UnitsPerPage
  <2>1. CASE q \in 1..Len(pgFlags)
    BY <1>1, <2>1 DEF PgInv
  <2>2. CASE q \notin 1..Len(pgFlags)
    <3>1. q > Len(pgFlags)
      BY <1>0, <1>2, <2>2
    <3>2. pages[q][k] = 0
      BY <1>1, <3>1
    <3>3. \A r \in pgHeld : r.page # q
      BY <1>0, <2>2 DEF PgShape
    <3>. QED BY <3>2, <3>3 DEF InRun
  <2>. QED BY <2>1, <2>2
<1>5. CASE i = -1
  <2>1. pgFlags' = pages /\ pgHeld' = pgHeld
    BY <1>1, <1>5
  <2>2. PgShape'
    BY <1>0, <1>3, <2>1 DEF PgShape
  <2>. QED BY <1>u, <1>4, <2>1, <2>2 DEF PgInv
<1>6. CASE i # -1
  <2>1. /\ i \in 1..UnitsPerPage /\ i + n - 1 <= UnitsPerPage /\ \A k \in i..(i + n - 1) : pages[p][k] = 0
    BY <1>1, <1>2, <1>6, RunFound
  <2>2. PICK fl : fl = Marked(pages[p], i, n, 1)
    OBVIOUS
  <2>3. fl \in Page /\ \A k \in 1..UnitsPerPage : fl[k] = IF k \in i..(i + n - 1) THEN 1 ELSE pages[p][k]
    BY <1>2, <2>2, MarkedIs
  <2>4. pgFlags' = [pages EXCEPT ![p] = fl]
    BY <1>1, <1>6, <2>2
  <2>5. /\ pgFlags' \in Seq(Page) /\ Len(pgFlags') = Len(pages)
        /\ \A q \in 1..Len(pages) : pgFlags'[q] = IF q = p THEN fl ELSE pages[q]
    BY <1>1, <2>3, <2>4, PagesExcept
  <2>6. PICK r : r = [page |-> p, unit |-> i, n |-> n]
    OBVIOUS
  <2>7. /\ pgHeld' = pgHeld \cup {r} /\ r.page = p /\ r.unit = i /\ r.n = n
        /\ r \in [page : 1..Len(pages), unit : 1..UnitsPerPage, n : 1..MaxRun]
    BY <1>1, <1>6, <2>1, <2>6
  <2>8. PgShape'
    BY <1>0, <1>3, <2>1, <2>5, <2>7 DEF PgShape
  <2>9. \A q, k : InRun(r, q, k) <=> q = p /\ k \in i..(i + n - 1)
    BY <2>7 DEF InRun
  <2>10. ASSUME NEW s \in pgHeld, NEW q, NEW k, InRun(s, q, k), InRun(r, q, k) PROVE FALSE
    <3>1. q = p /\ k \in i..(i + n - 1) /\ pages[p][k] = 0 /\ k \in 1..UnitsPerPage
      BY <1>0, <2>1, <2>9, <2>10
    <3>. QED BY <1>1, <1>4, <2>10, <3>1
  <2>11. \A s, t \in pgHeld' : \A q, k : InRun(s, q, k) /\ InRun(t, q, k) => s = t
    BY <2>7, <2>10 DEF PgInv
  <2>12. ASSUME NEW q \in 1..Len(pages), NEW k \in 1..UnitsPerPage
         PROVE  pgFlags'[q][k] = 1 <=> \E s \in pgHeld' : InRun(s, q, k)
    <3>1. CASE q = p /\ k \in i..(i + n - 1)
      BY <2>3, <2>5, <2>7, <2>9, <3>1
    <3>2. CASE ~ (q = p /\ k \in i..(i + n - 1))
      <4>1. pgFlags'[q][k] = pages[q][k] /\ ~ InRun(r, q, k)
        BY <2>3, <2>5, <2>9, <3>2
      <4>. QED BY <1>4, <2>7, <4>1
    <3>. QED BY <3>1, <3>2
  <2>. QED BY <1>u, <2>5, <2>8, <2>11, <2>12 DEF PgInv
<1>. QED BY <1>5, <1>6

LEMMA PgFreeStep ==
    ASSUME PgInv, NEW r \in pgHeld, PgFree(r) PROVE PgInv'
<1>0. PgShape /\ Len(pgFlags) \in Nat /\ UnitsPerPage \in Nat /\ pgFlags \in Seq(Page)
  BY LenProperties, PageUnits DEF PgInv, PgShape
<1>1. PICK p \in 1..Len(pgFlags) : p = r.page
  BY <1>0 DEF PgShape
<1>2. pgFlags[p] \in Page
  BY <1>0, ElementOfSeq
<1>3. PICK fl : fl = Marked(pgFlags[p], r.unit, r.n, 0)
  OBVIOUS
<1>4. fl \in Page /\ \A k \in 1..UnitsPerPage :
         fl[k] = IF k \in r.unit..(r.unit + r.n - 1) THEN 0 ELSE pgFlags[p][k]
  BY <1>2, <1>3, MarkedIs
<1>5. pgFlags' = [pgFlags EXCEPT ![p] = fl] /\ pgHeld' = pgHeld \ {r} /\ pgUp /\ pgUp' = pgUp
  BY <1>1, <1>3 DEF PgFree
<1>6. /\ pgFlags' \in Seq(Page) /\ Len(pgFlags') = Len(pgFlags)
      /\ \A q \in 1..Len(pgFlags) : pgFlags'[q] = IF q = p THEN fl ELSE pgFlags[q]
  BY <1>0, <1>4, <1>5, PagesExcept
<1>7. PgShape'
  BY <1>0, <1>5, <1>6 DEF PgShape
<1>8. \A s, t \in pgHeld' : \A q, k : InRun(s, q, k) /\ InRun(t, q, k) => s = t
  BY <1>5 DEF PgInv
<1>9. ASSUME NEW q \in 1..Len(pgFlags), NEW k \in 1..UnitsPerPage
      PROVE  pgFlags'[q][k] = 1 <=> \E s \in pgHeld' : InRun(s, q, k)
  <2>0. pgFlags[q][k] = 1 <=> \E s \in pgHeld : InRun(s, q, k)
    BY DEF PgInv
  <2>1. CASE InRun(r, q, k)
    <3>1. pgFlags'[q][k] = 0
      BY <1>1, <1>4, <1>6, <2>1 DEF InRun
    <3>2. \A s \in pgHeld : InRun(s, q, k) => s = r
      BY <2>1 DEF PgInv
    <3>. QED BY <1>5, <3>1, <3>2
  <2>2. CASE ~ InRun(r, q, k)
    <3>1. pgFlags'[q][k] = pgFlags[q][k]
      BY <1>1, <1>4, <1>6, <2>2 DEF InRun
    <3>. QED BY <1>5, <2>0, <2>2, <3>1
  <2>. QED BY <2>1, <2>2
<1>. QED BY <1>5, <1>6, <1>7, <1>8, <1>9 DEF PgInv

LEMMA PgStep == ASSUME PgInv, [PgNext]_pgVars PROVE PgInv'
<1>1. CASE UNCHANGED pgVars
  BY <1>1 DEF pgVars, PgInv, PgShape
<1>2. CASE PgStart
  <2>1. pgFlags' = Expend(pgFlags) /\ pgHeld' = {} /\ pgUp' /\ pgFlags = <<>>
    BY <1>2 DEF PgStart, PgInv
  <2>2. /\ pgFlags' \in Seq(Page) /\ Len(pgFlags') = 1
        /\ \A k \in 1..UnitsPerPage : pgFlags'[1][k] = 0
    <3>1. PgShape /\ Len(pgFlags) = 0
      BY <2>1 DEF PgInv
    <3>. QED BY <2>1, <3>1, ExpendIs
  <2>3. PgShape'
    BY <2>1, <2>2 DEF PgShape
  <2>4. \A p \in 1..Len(pgFlags') : p = 1
    BY <2>2
  <2>. QED BY <2>1, <2>2, <2>3, <2>4 DEF PgInv
<1>3. CASE PgDestroy \/ PgAssign
  <2>1. pgFlags' = <<>> /\ pgHeld' = {} /\ pgUp' = FALSE
    BY <1>3 DEF PgDestroy, PgAssign
  <2>2. pgFlags' \in Seq(Page) /\ Len(pgFlags') = 0 /\ 1..0 = {}
    BY <2>1
  <2>. QED BY <2>1, <2>2 DEF PgInv, PgShape
<1>4. CASE PgCopy
  BY <1>4 DEF PgCopy, PgInv, PgShape
<1>5. ASSUME NEW n \in 1..MaxRun, PgAlloc(n) PROVE PgInv'
  BY <1>5, PgAllocStep
<1>6. ASSUME NEW r \in pgHeld, PgFree(r) PROVE PgInv'
  BY <1>6, PgFreeStep
<1>. QED BY <1>1, <1>2, <1>3, <1>4, <1>5, <1>6 DEF PgNext

LEMMA PgApart == ASSUME PgInv PROVE RunsApart
<1>0. PgShape /\ Len(pgFlags) \in Nat /\ UnitsPerPage \in Nat
  BY LenProperties, PageUnits DEF PgInv, PgShape
<1>1. \A r \in pgHeld : \A u : u \in PgUnits(r) <=> u = <<u[1], u[2]>> /\ InRun(r, u[1], u[2])
  BY DEF PgUnits, InRun
<1>2. ASSUME NEW r \in pgHeld, NEW p, NEW k, InRun(r, p, k) PROVE p \in 1..Len(pgFlags) /\ k \in 1..UnitsPerPage
  <2>1. r.page \in 1..Len(pgFlags) /\ r.unit \in 1..UnitsPerPage /\ r.n \in 1..MaxRun /\ r.unit + r.n - 1 <= UnitsPerPage
    BY <1>0 DEF PgShape
  <2>. QED BY <1>0, <1>2, <2>1, PageAssumption DEF InRun
<1>3. UNION {PgUnits(r) : r \in pgHeld}
         = {u \in (1..Len(pgFlags)) \X (1..UnitsPerPage) : pgFlags[u[1]][u[2]] = 1}
  <2> DEFINE X == UNION {PgUnits(r) : r \in pgHeld}
             Y == {u \in (1..Len(pgFlags)) \X (1..UnitsPerPage) : pgFlags[u[1]][u[2]] = 1}
  <2>1. ASSUME NEW u \in X PROVE u \in Y
    <3>1. PICK r \in pgHeld : u \in PgUnits(r)
      OBVIOUS
    <3>2. u = <<u[1], u[2]>> /\ InRun(r, u[1], u[2])
      BY <1>1, <3>1
    <3>3. u[1] \in 1..Len(pgFlags) /\ u[2] \in 1..UnitsPerPage
      BY <1>2, <3>2
    <3>4. pgFlags[u[1]][u[2]] = 1
      BY <3>2, <3>3 DEF PgInv
    <3>. QED BY <3>2, <3>3, <3>4
  <2>2. ASSUME NEW u \in Y PROVE u \in X
    <3>1. u[1] \in 1..Len(pgFlags) /\ u[2] \in 1..UnitsPerPage /\ u = <<u[1], u[2]>> /\ pgFlags[u[1]][u[2]] = 1
      OBVIOUS
    <3>2. PICK r \in pgHeld : InRun(r, u[1], u[2])
      BY <3>1 DEF PgInv
    <3>3. u \in PgUnits(r)
      BY <1>1, <3>1, <3>2
    <3>. QED BY <3>3
  <2>. QED BY <2>1, <2>2
<1>4. ASSUME NEW r \in pgHeld, NEW s \in pgHeld, r # s PROVE PgUnits(r) \cap PgUnits(s) = {}
  <2>. SUFFICES ASSUME NEW u, u \in PgUnits(r), u \in PgUnits(s) PROVE FALSE
    OBVIOUS
  <2>1. InRun(r, u[1], u[2]) /\ InRun(s, u[1], u[2])
    BY <1>1
  <2>. QED BY <1>4, <2>1 DEF PgInv
<1>. QED BY <1>3, <1>4 DEF RunsApart

\* What FirstRun says of a step.
FirstRunStep ==
    \A r \in pgHeld' \ pgHeld :
         /\ \A p \in 1..(r.page - 1) : RunIn(pgFlags[p], r.n) = {}
         /\ r.page \in DOMAIN pgFlags => r.unit = Min(RunIn(pgFlags[r.page], r.n))

LEMMA PgFirst == ASSUME PgInv, [PgNext]_pgVars PROVE FirstRunStep
<1>1. ASSUME NEW n \in 1..MaxRun, PgAlloc(n) PROVE FirstRunStep
  <2>0. PgShape /\ Len(pgFlags) \in Nat /\ n \in Nat \ {0} /\ pgFlags \in Seq(Page) /\ DOMAIN pgFlags = 1..Len(pgFlags)
    BY PageAssumption, LenProperties DEF PgInv, PgShape
  <2>1. PICK p \in 1..(Len(pgFlags) + 1), pages \in Seq(Page), i \in Int :
             /\ p = PageFor(n)
             /\ \A q \in 1..Len(pgFlags) : pages[q] = pgFlags[q]
             /\ i = PgFindAvailable(pages[p], n)
             /\ IF i = -1 THEN pgHeld' = pgHeld
                ELSE pgHeld' = pgHeld \cup {[page |-> p, unit |-> i, n |-> n]}
    BY <2>0, <1>1, AllocFinds
  <2>2. CASE i = -1
    BY <2>1, <2>2 DEF FirstRunStep
  <2>3. CASE i # -1
    <3>1. PICK r : r = [page |-> p, unit |-> i, n |-> n]
      OBVIOUS
    <3>2. r.page = p /\ r.unit = i /\ r.n = n /\ pgHeld' = pgHeld \cup {r}
      BY <2>1, <2>3, <3>1
    <3>3. ASSUME NEW q \in 1..(p - 1) PROVE RunIn(pgFlags[q], n) = {}
      <4>1. q \in 1..Len(pgFlags) /\ PgFindAvailable(pgFlags[q], n) = -1
        BY <2>0, <2>1, <3>3, PageForIs
      <4>2. pgFlags[q] \in Page
        BY <2>0, <4>1, ElementOfSeq
      <4>. QED BY <4>1, <4>2, RunFound
    <3>4. ASSUME p \in DOMAIN pgFlags PROVE i = Min(RunIn(pgFlags[p], n))
      <4>1. p \in 1..Len(pgFlags) /\ i = PgFindAvailable(pgFlags[p], n)
        BY <2>0, <2>1, <3>4
      <4>2. pgFlags[p] \in Page
        BY <2>0, <4>1, ElementOfSeq
      <4>. QED BY <2>3, <4>1, <4>2, RunFound
    <3>. QED BY <3>2, <3>3, <3>4 DEF FirstRunStep
  <2>. QED BY <2>2, <2>3
<1>2. CASE \/ UNCHANGED pgVars \/ PgStart \/ PgDestroy \/ PgAssign \/ PgCopy
           \/ \E r \in pgHeld : PgFree(r)
  <2>1. pgHeld' \subseteq pgHeld
    BY <1>2 DEF pgVars, PgStart, PgDestroy, PgAssign, PgCopy, PgFree
  <2>. QED BY <2>1 DEF FirstRunStep
<1>. QED BY <1>1, <1>2 DEF PgNext

LEMMA PgBegin == ASSUME PgInit PROVE PgInv
<1>1. pgFlags = <<>> /\ pgHeld = {} /\ pgFlags \in Seq(Page) /\ Len(pgFlags) = 0
  BY DEF PgInit
<1>. QED BY <1>1 DEF PgInv, PgShape

\* The runs the page allocator has handed out share no unit and are exactly the units that
\* are flagged, after any Alloc and Free (MemMgr.cpp), for pages and units of any size.
THEOREM RunsApartAlways == PgSpec => []RunsApart
<1>1. PgInit => PgInv
  BY PgBegin
<1>2. PgInv /\ [PgNext]_pgVars => PgInv'
  BY PgStep
<1>3. PgInv => RunsApart
  BY PgApart
<1>. QED BY <1>1, <1>2, <1>3, PTL DEF PgSpec

\* A run Alloc hands out is the first of the first page that has one (MemMgr.cpp,
\* FindAvailable and Alloc).
THEOREM FirstRunAlways == PgSpec => FirstRun
<1>1. PgInit => PgInv
  BY PgBegin
<1>2. PgInv /\ [PgNext]_pgVars => PgInv'
  BY PgStep
<1>3. PgInv /\ [PgNext]_pgVars => [FirstRunStep]_pgVars
  BY PgFirst
<1>4. FirstRun <=> [][FirstRunStep]_pgVars
  BY DEF FirstRun, FirstRunStep
<1>. QED BY <1>1, <1>2, <1>3, <1>4, PTL DEF PgSpec

-----------------------------------------------------------------------------
(***************************************************************************)
(* The allocator of the shared area.                                       *)
(***************************************************************************)

(* Blocks and ranges as maps from addresses to lengths *)

Blocks(f) == \A a \in DOMAIN f : a \in Nat /\ f[a] \in Nat \ {0}
Disjoint(f) == \A a, b \in DOMAIN f : a < b => a + f[a] <= b
Within(f, lo, hi) == \A a \in DOMAIN f : lo <= a /\ a + f[a] <= hi
Pieces(f, lo, hi) == Blocks(f) /\ Disjoint(f) /\ Within(f, lo, hi)
\* No byte of f lies in x..(y - 1).
Clear(f, x, y) == \A a \in DOMAIN f : a + f[a] <= x \/ y <= a

LEMMA Sizes ==
    /\ NMaxCount \in Nat \ {0} /\ FlagLen \in Nat \ {0} /\ RecordStart \in Nat /\ SaBegin \in Nat
    /\ RecordStart = FlagLen /\ SaBegin = RecordStart + NMaxCount * RecSize
    /\ SaBegin < Total /\ RecSize \in Nat \ {0} /\ Bits \in Nat \ {0} /\ Total \in Nat
<1>0. Total \in Nat /\ RecSize \in Nat \ {0} /\ Bits \in Nat \ {0} /\ Total * Bits >= 1 + Bits * (RecSize + 1)
  BY StaticAssumption
<1> DEFINE d == 1 + Bits * (RecSize + 1)
<1>1. d \in Nat \ {0} /\ Total * Bits \in Nat
  BY <1>0
<1>2. PICK n : n = NMaxCount
  OBVIOUS
<1>3. n \in Nat \ {0} /\ n * d <= Total * Bits
  <2>1. n = (Total * Bits) \div d
    BY <1>2 DEF NMaxCount
  <2> HIDE DEF d
  <2>2. n \in Nat /\ n * d <= Total * Bits /\ n >= 1
    BY <1>0, <1>1, <2>1, DivideIs DEF d
  <2>. QED BY <2>2
<1>4. PICK f : f = FlagLen
  OBVIOUS
<1>5. f \in Nat \ {0} /\ f * Bits <= n + Bits - 1
  <2>1. n + Bits - 1 \in Nat /\ n + Bits - 1 >= Bits
    BY <1>0, <1>3
  <2>2. f = (n + Bits - 1) \div Bits
    BY <1>2, <1>4 DEF FlagLen
  <2>3. f \in Nat /\ f * Bits <= n + Bits - 1 /\ f >= 1
    BY <1>0, <2>1, <2>2, DivideIs
  <2>. QED BY <2>3
<1>6. n * RecSize \in Nat
  BY <1>0, <1>3
<1>7. f + n * RecSize < Total
  <2>1. n * d = n + Bits * (n * RecSize) + Bits * n
    BY <1>0, <1>3
  <2>2. PICK p \in Nat : p = n * RecSize
    BY <1>6
  <2>3. Bits * n >= Bits
    BY <1>0, <1>3
  <2>4. Bits * (f + p) = f * Bits + Bits * p
    BY <1>0, <1>5
  <2>5. Bits * (f + p) < Total * Bits
    BY <1>0, <1>3, <1>5, <2>1, <2>2, <2>3, <2>4
  <2>6. f + p < Total
    <3>. SUFFICES ASSUME f + p >= Total PROVE FALSE
      BY <1>0, <1>5
    <3>1. Bits * (f + p) >= Total * Bits
      BY <1>0, <1>5
    <3>. QED BY <1>0, <1>5, <2>5, <3>1
  <2>. QED BY <2>2, <2>6
<1>. QED BY <1>0, <1>2, <1>3, <1>4, <1>5, <1>6, <1>7 DEF RecordStart, SaBegin

-----------------------------------------------------------------------------
(* What the maps' operations do *)

LEMMA WithIs ==
    ASSUME NEW f, NEW a, NEW v
    PROVE  /\ DOMAIN With(f, a, v) = DOMAIN f \cup {a} /\ With(f, a, v)[a] = v
           /\ \A b \in DOMAIN f \ {a} : With(f, a, v)[b] = f[b]
  BY DEF With

LEMMA WithoutIs ==
    ASSUME NEW f, NEW a
    PROVE  /\ DOMAIN Without(f, a) = DOMAIN f \ {a}
           /\ \A b \in DOMAIN f \ {a} : Without(f, a)[b] = f[b]
  BY DEF Without

LEMMA NothingIs == DOMAIN EmptyMap = {}
  BY DEF EmptyMap

\* A new piece where the map is clear.
LEMMA WithPiece ==
    ASSUME NEW f, NEW lo \in Nat, NEW hi \in Nat, NEW a \in Nat, NEW v \in Nat \ {0},
           Pieces(f, lo, hi), Clear(f, a, a + v), lo <= a, a + v <= hi
    PROVE  a \notin DOMAIN f /\ Pieces(With(f, a, v), lo, hi)
<1> DEFINE g == With(f, a, v)
<1>1. \A b \in DOMAIN f : /\ b \in Nat /\ f[b] \in Nat \ {0} /\ lo <= b /\ b + f[b] <= hi
                          /\ b + f[b] <= a \/ a + v <= b
  BY DEF Pieces, Blocks, Within, Clear
<1>2. a \notin DOMAIN f
  BY <1>1
<1>3. DOMAIN g = DOMAIN f \cup {a} /\ g[a] = v /\ \A b \in DOMAIN f : g[b] = f[b]
  BY <1>2 DEF With
<1> HIDE DEF g
<1>4. Blocks(g) /\ Within(g, lo, hi)
  BY <1>1, <1>3 DEF Blocks, Within
<1>5. Disjoint(g)
  <2>1. \A b, c \in DOMAIN f : b < c => b + f[b] <= c
    BY DEF Pieces, Disjoint
  <2>. QED BY <1>1, <1>3, <2>1 DEF Disjoint
<1>. QED BY <1>2, <1>4, <1>5 DEF Pieces, g

\* What is clear of the map and of the new piece is clear of both.
LEMMA WithClear ==
    ASSUME NEW f, NEW a \in Nat, NEW v \in Nat \ {0}, NEW x \in Nat, NEW y \in Nat,
           Clear(f, x, y), a + v <= x \/ y <= a
    PROVE  Clear(With(f, a, v), x, y)
  BY DEF With, Clear

\* Removing an entry.
LEMMA WithoutPiece ==
    ASSUME NEW f, NEW lo \in Nat, NEW hi \in Nat, NEW a, Pieces(f, lo, hi)
    PROVE  /\ Pieces(Without(f, a), lo, hi)
           /\ \A x, y \in Nat : Clear(f, x, y) => Clear(Without(f, a), x, y)
<1> DEFINE g == Without(f, a)
<1>1. DOMAIN g \subseteq DOMAIN f /\ \A b \in DOMAIN g : g[b] = f[b]
  BY WithoutIs
<1> HIDE DEF g
<1>2. Blocks(g) /\ Within(g, lo, hi)
  BY <1>1 DEF Pieces, Blocks, Within
<1>3. Disjoint(g)
  BY <1>1 DEF Pieces, Disjoint
<1>4. \A x, y \in Nat : Clear(f, x, y) => Clear(g, x, y)
  BY <1>1 DEF Clear
<1>. QED BY <1>2, <1>3, <1>4 DEF Pieces, g

-----------------------------------------------------------------------------
(* The bytes of a map *)

Covers(f, z) == \E a \in DOMAIN f : a <= z /\ z < a + f[a]
Parted(f) == \A a \in DOMAIN f : a + f[a] \notin DOMAIN f

LEMMA BytesAre ==
    ASSUME NEW f, Blocks(f), NEW z \in Int
    PROVE  z \in SaBytes(f) <=> Covers(f, z)
<1>1. \A a \in DOMAIN f : a \in Nat /\ f[a] \in Nat
  BY DEF Blocks
<1>2. \A a \in DOMAIN f : z \in a..(a + f[a] - 1) <=> a <= z /\ z < a + f[a]
  BY <1>1
<1>. QED BY <1>2 DEF SaBytes, Covers

LEMMA BytesInts ==
    ASSUME NEW f, Blocks(f) PROVE SaBytes(f) \subseteq Int
  BY DEF SaBytes, Blocks

-----------------------------------------------------------------------------
(* Merging *)

\* SaMerged joins neighbours and nothing else: its ranges are made of the bytes of the
\* ranges before, all of them, and no two touch.
LEMMA MergedIs ==
    ASSUME NEW r, NEW lo \in Nat, NEW hi \in Nat, Pieces(r, lo, hi)
    PROVE  /\ Pieces(SaMerged(r), lo, hi) /\ DOMAIN SaMerged(r) \subseteq DOMAIN r
           /\ \A z \in Int : Covers(SaMerged(r), z) <=> Covers(r, z)
           /\ Parted(SaMerged(r))
<1> DEFINE D == DOMAIN r
           ends == {a + r[a] : a \in DOMAIN r}
           Beyond(a) == {e \in ends \ DOMAIN r : e > a}
           E(a) == Min(Beyond(a))
           m == SaMerged(r)
<1>1. \A b \in D : b \in Nat /\ r[b] \in Nat \ {0} /\ lo <= b /\ b + r[b] <= hi /\ b + r[b] \in Nat
  BY DEF Pieces, Blocks, Within
<1>2. \A b, c \in D : b < c => b + r[b] <= c
  BY DEF Pieces, Disjoint
<1>3. m = [a \in D \ ends |-> E(a) - a]
  BY DEF SaMerged
<1>4. ends \in SUBSET Nat /\ \A e \in ends : e <= hi
  BY <1>1
<1>5. \A b \in D : b + r[b] \in ends
  OBVIOUS
<1>6. \A e \in ends : \E b \in D : e = b + r[b]
  OBVIOUS
<1>7. \A a : \A e : e \in Beyond(a) <=> e \in ends /\ e \notin D /\ e > a
  OBVIOUS
<1> HIDE DEF D, ends
\* the last end is not a start
<1>8. ASSUME NEW a \in D PROVE Beyond(a) \in SUBSET Nat /\ Beyond(a) # {}
  <2>1. ends # {} /\ a + r[a] \in ends
    BY <1>5
  <2>2. PICK e \in ends : \A y \in ends : y <= e
    BY <1>4, <2>1, GreatestIn
  <2>3. e \in Nat /\ a + r[a] <= e
    BY <1>4, <2>1, <2>2
  <2>4. e > a
    BY <1>1, <2>3
  <2>5. e \notin D
    <3>. SUFFICES ASSUME e \in D PROVE FALSE
      OBVIOUS
    <3>1. e + r[e] <= e /\ e \in Nat /\ r[e] \in Nat \ {0}
      BY <1>1, <1>5, <2>2
    <3>. QED BY <3>1
  <2>6. e \in Beyond(a)
    BY <1>7, <2>4, <2>5
  <2>7. Beyond(a) \in SUBSET Nat
    BY <1>4, <1>7
  <2>. QED BY <2>6, <2>7
<1> HIDE DEF Beyond
<1>9. ASSUME NEW a \in D
      PROVE  /\ E(a) \in Nat /\ E(a) \in ends /\ E(a) \notin D /\ E(a) > a
             /\ \A e \in ends : e > a /\ e \notin D => E(a) <= e
  <2>1. E(a) \in Beyond(a) /\ \A y \in Beyond(a) : E(a) <= y
    BY <1>8, MinIs
  <2>. QED BY <1>4, <1>7, <2>1
<1> HIDE DEF E
\* every byte up to the end was one of r's
<1>10. ASSUME NEW a \in D, NEW z \in Int, a <= z, z < E(a) PROVE Covers(r, z)
  <2> DEFINE T == {b \in D : b <= z}
  <2>1. T \in SUBSET Nat /\ a \in T /\ z \in Nat /\ \A b \in T : b <= z
    BY <1>1, <1>10
  <2>1a. \A b : b \in T <=> b \in D /\ b <= z
    OBVIOUS
  <2> HIDE DEF T
  <2>2. T # {}
    BY <2>1
  <2>3. PICK b \in T : \A c \in T : c <= b
    BY <2>1, <2>2, GreatestIn
  <2>4. b \in D /\ b <= z /\ a <= b /\ b \in Nat /\ r[b] \in Nat \ {0} /\ a \in Nat
    BY <1>1, <2>1, <2>1a, <2>3
  <2>5. z < b + r[b]
    <3>. SUFFICES ASSUME b + r[b] <= z PROVE FALSE
      BY <2>1, <2>4
    <3>1. PICK e : e = b + r[b]
      OBVIOUS
    <3>2. e \in Nat /\ e > a /\ e > b /\ e <= z
      BY <2>4, <3>1
    <3>3. e \in ends
      BY <1>5, <2>4, <3>1
    <3>4. ~ (E(a) <= e)
      BY <1>9, <1>10, <2>1, <3>2
    <3>5. e \in D
      BY <1>9, <3>2, <3>3, <3>4
    <3>6. e \in T
      BY <2>1a, <3>2, <3>5
    <3>7. e <= b
      BY <2>3, <3>6
    <3>. QED BY <2>4, <3>2, <3>7
  <2>. QED BY <2>4, <2>5 DEF Covers, D
\* a start that is reached is an end
<1>11. ASSUME NEW a \in D, NEW b \in D \ ends, a < b PROVE E(a) <= b
  <2>. SUFFICES ASSUME b < E(a) PROVE FALSE
    BY <1>1, <1>9
  <2>1. a \in Nat /\ b \in Nat /\ E(a) \in Nat /\ b - 1 \in Int /\ a <= b - 1 /\ b - 1 < E(a)
    BY <1>1, <1>9, <1>11
  <2>2. Covers(r, b - 1)
    BY <1>10, <2>1
  <2>3. PICK c \in D : c <= b - 1 /\ b - 1 < c + r[c]
    BY <2>2 DEF Covers, D
  <2>4. c \in Nat /\ r[c] \in Nat /\ c < b
    BY <1>1, <2>1, <2>3
  <2>5. c + r[c] <= b
    BY <1>2, <2>4
  <2>6. c + r[c] = b
    BY <2>1, <2>3, <2>4, <2>5
  <2>. QED BY <1>5, <2>6
\* every piece of r is part of a range
<1>12. ASSUME NEW b \in D, NEW a \in D, a <= b, b <= E(a) PROVE b + r[b] <= E(a)
  <2>1. PICK c \in D : E(a) = c + r[c]
    BY <1>6, <1>9
  <2>2. b # E(a)
    BY <1>9
  <2>3. b \in Nat /\ c \in Nat /\ r[b] \in Nat /\ r[c] \in Nat /\ b < E(a)
    BY <1>1, <1>9, <1>12, <2>2
  <2>4. ~ (c < b)
    BY <1>2, <2>1, <2>3
  <2>5. c = b \/ b + r[b] <= c
    BY <1>2, <2>3, <2>4
  <2>. QED BY <2>1, <2>3, <2>5
<1>13. ASSUME NEW b \in D PROVE \E a \in D \ ends : a <= b /\ b + r[b] <= E(a)
  <2> DEFINE Q(x) == \E a \in D \ ends : a <= x /\ x + r[x] <= E(a)
             T == {x \in D : ~ Q(x)}
  <2>. SUFFICES ASSUME ~ Q(b) PROVE FALSE
    OBVIOUS
  <2>1. \A x : x \in T <=> x \in D /\ ~ Q(x)
    OBVIOUS
  <2> HIDE DEF T
  <2>2. T \in SUBSET Nat /\ T # {}
    <3> HIDE DEF Q
    <3>. QED BY <1>1, <2>1
  <2>3. PICK x \in T : \A y \in T : x <= y
    BY <2>2, LeastIn
  <2>4. x \in D /\ ~ Q(x) /\ x \in Nat /\ r[x] \in Nat
    BY <1>1, <2>1, <2>3
  <2>5. CASE x \notin ends
    <3>1. x <= E(x) /\ x <= x
      BY <1>9, <2>4
    <3>2. x + r[x] <= E(x)
      BY <1>12, <2>4, <3>1
    <3>. QED BY <2>4, <2>5, <3>1, <3>2
  <2>6. CASE x \in ends
    <3>1. PICK c \in D : x = c + r[c]
      BY <1>6, <2>6
    <3>2. c \in Nat /\ r[c] \in Nat \ {0} /\ c < x
      BY <1>1, <3>1
    <3>3. Q(c)
      <4>. SUFFICES ASSUME ~ Q(c) PROVE FALSE
        OBVIOUS
      <4>1. c \in T
        BY <2>1
      <4>2. x <= c
        BY <2>3, <4>1
      <4>. QED BY <2>4, <3>2, <4>2
    <3>4. PICK a \in D \ ends : a <= c /\ c + r[c] <= E(a)
      BY <3>3
    <3>5. a <= x /\ x <= E(a)
      BY <1>1, <2>4, <3>1, <3>2, <3>4
    <3>6. x + r[x] <= E(a)
      BY <1>12, <2>4, <3>4, <3>5
    <3>. QED BY <2>4, <3>4, <3>5, <3>6
  <2>. QED BY <2>5, <2>6
<1>20. /\ DOMAIN m = D \ ends
       /\ \A a \in D \ ends : a + m[a] = E(a) /\ m[a] \in Nat \ {0} /\ a \in Nat
  BY <1>1, <1>3, <1>9
<1> HIDE DEF m
<1>21. Blocks(m) /\ Disjoint(m)
  BY <1>11, <1>20 DEF Blocks, Disjoint
<1>22. Within(m, lo, hi)
  BY <1>1, <1>4, <1>9, <1>20 DEF Within
<1>23. ASSUME NEW z \in Int PROVE Covers(m, z) <=> Covers(r, z)
  <2>1. ASSUME Covers(m, z) PROVE Covers(r, z)
    <3>1. PICK a \in D \ ends : a <= z /\ z < E(a)
      BY <1>20, <2>1 DEF Covers
    <3>. QED BY <1>10, <3>1
  <2>2. ASSUME Covers(r, z) PROVE Covers(m, z)
    <3>1. PICK b \in D : b <= z /\ z < b + r[b]
      BY <2>2 DEF Covers, D
    <3>2. PICK a \in D \ ends : a <= b /\ b + r[b] <= E(a)
      BY <1>13
    <3>3. a <= z /\ z < a + m[a]
      BY <1>1, <1>9, <1>20, <3>1, <3>2
    <3>. QED BY <1>20, <3>2, <3>3 DEF Covers
  <2>. QED BY <2>1, <2>2
<1>24. Parted(m)
  BY <1>9, <1>20 DEF Parted
<1>. QED BY <1>20, <1>21, <1>22, <1>23, <1>24 DEF Pieces, m, D

-----------------------------------------------------------------------------
(* What is clear of a map is what none of its bytes lies in. *)

LEMMA ClearIs ==
    ASSUME NEW f, Blocks(f), NEW x \in Int, NEW y \in Int, x < y
    PROVE  Clear(f, x, y) <=> \A z \in Int : x <= z /\ z < y => ~ Covers(f, z)
<1>1. \A b \in DOMAIN f : b \in Nat /\ f[b] \in Nat \ {0}
  BY DEF Blocks
<1>2. ASSUME Clear(f, x, y), NEW z \in Int, x <= z, z < y, Covers(f, z) PROVE FALSE
  <2>1. PICK b \in DOMAIN f : b <= z /\ z < b + f[b]
    BY <1>2 DEF Covers
  <2>2. b + f[b] <= x \/ y <= b
    BY <1>2 DEF Clear
  <2>. QED BY <1>1, <1>2, <2>1, <2>2
<1>3. ASSUME \A z \in Int : x <= z /\ z < y => ~ Covers(f, z), NEW b \in DOMAIN f
      PROVE  b + f[b] <= x \/ y <= b
  <2>. SUFFICES ASSUME x < b + f[b], b < y PROVE FALSE
    BY <1>1
  <2>1. b \in Nat /\ f[b] \in Nat \ {0}
    BY <1>1
  <2>2. PICK z \in Int : x <= z /\ z < y /\ b <= z /\ z < b + f[b]
    <3>1. CASE x <= b
      BY <2>1, <3>1
    <3>2. CASE b < x
      BY <2>1, <3>2
    <3>. QED BY <2>1, <3>1, <3>2
  <2>3. Covers(f, z)
    BY <2>2 DEF Covers
  <2>. QED BY <1>3, <2>2, <2>3
<1>. QED BY <1>2, <1>3 DEF Clear

-----------------------------------------------------------------------------
(* Giving the first range back *)

LEMMA GivenBackIs ==
    ASSUME NEW r, NEW off \in Nat, off <= SaBegin, Pieces(r, SaBegin - off, Total), Parted(r),
           NEW g, g = GivenBack(r, off)
    PROVE  /\ g.offset \in Nat /\ g.offset <= off
           /\ Pieces(g.range, SaBegin - g.offset, Total) /\ Parted(g.range)
           /\ \A z \in Int : Covers(g.range, z) <=> Covers(r, z) /\ z >= SaBegin - g.offset
           /\ \A z \in Int : SaBegin - off <= z /\ z < SaBegin - g.offset => Covers(r, z)
           /\ \A b \in DOMAIN g.range : \E a \in DOMAIN r : a <= b
<1> DEFINE D == DOMAIN r
           a == Min(D)
<1>0. SaBegin \in Nat /\ Total \in Nat /\ SaBegin - off \in Nat /\ SaBegin < Total
  BY Sizes
<1>1. \A b \in D : b \in Nat /\ r[b] \in Nat \ {0} /\ SaBegin - off <= b /\ b + r[b] <= Total
  BY DEF Pieces, Blocks, Within
<1>2. \A b, c \in D : b < c => b + r[b] <= c
  BY DEF Pieces, Disjoint
<1>3. \A b \in D : b + r[b] \notin D
  BY DEF Parted
<1>4. D \in SUBSET Nat
  BY <1>1
<1>5. g = IF off > 0 /\ D # {} /\ a = SaBegin - off
          THEN IF r[a] <= off
               THEN [range |-> Without(r, a), offset |-> off - r[a]]
               ELSE [range |-> With(Without(r, a), SaBegin, r[a] - off), offset |-> 0]
          ELSE [range |-> r, offset |-> off]
  BY DEF GivenBack
<1>6. D # {} => a \in D /\ \A b \in D : a <= b
  <2> HIDE DEF D
  <2>. QED BY <1>4, MinIs
<1> HIDE DEF D, a
<1>7. CASE ~ (off > 0 /\ D # {} /\ a = SaBegin - off)
  <2>1. g.range = r /\ g.offset = off
    BY <1>5, <1>7
  <2>2. \A z \in Int : Covers(r, z) => z >= SaBegin - off
    BY <1>0, <1>1 DEF Covers, D
  <2>3. \A b \in DOMAIN r : \E c \in DOMAIN r : c <= b
    BY <1>1 DEF D
  <2>. QED BY <1>0, <2>1, <2>2, <2>3
<1>8. CASE off > 0 /\ D # {} /\ a = SaBegin - off /\ r[a] <= off
  <2>1. a \in D /\ a \in Nat /\ r[a] \in Nat \ {0} /\ \A b \in D \ {a} : b >= a + r[a]
    BY <1>1, <1>2, <1>6, <1>8
  <2>2. PICK f : f = Without(r, a)
    OBVIOUS
  <2>3. g.range = f /\ g.offset = off - r[a]
    BY <1>5, <1>8, <2>2
  <2>4. DOMAIN f = D \ {a} /\ \A b \in D \ {a} : f[b] = r[b]
    BY <2>2, WithoutIs DEF D
  <2>5. g.offset \in Nat /\ g.offset <= off /\ SaBegin - g.offset = a + r[a]
    BY <1>0, <1>8, <2>1, <2>3
  <2>6. Blocks(f) /\ Within(f, a + r[a], Total)
    BY <1>1, <2>1, <2>4 DEF Blocks, Within
  <2>7. Disjoint(f)
    BY <1>2, <2>4 DEF Disjoint
  <2>8. Parted(f)
    BY <1>3, <2>4 DEF Parted
  <2>9. ASSUME NEW z \in Int PROVE Covers(f, z) <=> Covers(r, z) /\ z >= a + r[a]
    BY <1>1, <2>1, <2>4 DEF Covers, D
  <2>10. \A z \in Int : SaBegin - off <= z /\ z < a + r[a] => Covers(r, z)
    BY <1>8, <2>1 DEF Covers, D
  <2>11. \A b \in DOMAIN f : \E c \in D : c <= b
    BY <1>1, <2>4
  <2>. QED BY <2>3, <2>5, <2>6, <2>7, <2>8, <2>9, <2>10, <2>11 DEF Pieces, D
<1>9. CASE off > 0 /\ D # {} /\ a = SaBegin - off /\ ~ (r[a] <= off)
  <2>1. a \in D /\ a \in Nat /\ r[a] \in Nat \ {0} /\ \A b \in D \ {a} : b >= a + r[a]
    BY <1>1, <1>2, <1>6, <1>9
  <2>2. PICK f : f = With(Without(r, a), SaBegin, r[a] - off)
    OBVIOUS
  <2>3. g.range = f /\ g.offset = 0
    BY <1>5, <1>9, <2>2
  <2>3a. SaBegin < a + r[a] /\ a < SaBegin /\ r[a] - off \in Nat \ {0} /\ SaBegin \notin D \ {a}
         /\ SaBegin + (r[a] - off) = a + r[a]
    BY <1>0, <1>1, <1>9, <2>1
  <2>4. DOMAIN f = (D \ {a}) \cup {SaBegin} /\ f[SaBegin] = r[a] - off /\ \A b \in D \ {a} : f[b] = r[b]
    <3>1. PICK h : h = Without(r, a)
      OBVIOUS
    <3>2. DOMAIN h = D \ {a} /\ \A b \in D \ {a} : h[b] = r[b]
      BY <3>1, WithoutIs DEF D
    <3>. QED BY <2>2, <2>3a, <3>1, <3>2 DEF With
  <2>5. SaBegin - g.offset = SaBegin
    BY <1>0, <2>3
  <2>5z. PICK sb, n, e, D2 : sb = SaBegin /\ n = r[a] - off /\ e = a + r[a] /\ D2 = D \ {a}
    OBVIOUS
  <2>5a. /\ sb = SaBegin /\ n = r[a] - off /\ e = a + r[a] /\ D2 = D \ {a}
         /\ sb \in Nat /\ n \in Nat \ {0} /\ e \in Nat
    BY <1>0, <2>1, <2>3a, <2>5z
  <2>5b. sb \in Nat /\ n \in Nat \ {0} /\ e \in Nat /\ sb < e /\ a < sb /\ sb \notin D2 /\ sb + n = e /\ e <= Total /\ sb = a + off
    BY <1>0, <1>1, <1>9, <2>1, <2>3a, <2>5a
  <2>5c. \A b \in D2 : /\ b \in Nat /\ f[b] = r[b] /\ f[b] \in Nat \ {0} /\ e <= b
                       /\ b + f[b] <= Total /\ b + f[b] \notin D2 /\ b + f[b] # sb /\ b # sb
    <3>1. \A b \in D2 : b \in Nat /\ f[b] = r[b] /\ r[b] \in Nat \ {0} /\ e <= b /\ b + r[b] <= Total
      BY <1>1, <2>1, <2>4, <2>5a
    <3>2. \A b \in D2 : b + r[b] \notin D2
      BY <1>3, <2>5a
    <3>. QED BY <2>5b, <3>1, <3>2
  <2>5d. DOMAIN f = D2 \cup {sb} /\ f[sb] = n
    BY <2>4, <2>5a
  <2>6. Blocks(f) /\ Within(f, sb, Total)
    BY <1>0, <2>5b, <2>5c, <2>5d DEF Blocks, Within
  <2>7. Disjoint(f)
    <3>1. \A b, c \in D2 : b < c => b + f[b] <= c
      BY <1>2, <2>5a, <2>5c
    <3>. QED BY <2>5b, <2>5c, <2>5d, <3>1 DEF Disjoint
  <2>8. Parted(f)
    <3>1. e \notin D2 /\ e # sb
      BY <1>3, <2>1, <2>5a, <2>5b
    <3>. QED BY <2>5b, <2>5c, <2>5d, <3>1 DEF Parted
  <2>8a. DOMAIN r = D2 \cup {a} /\ a + r[a] = e /\ a \in Nat /\ e \in Nat
    BY <2>1, <2>5a DEF D
  <2>9. ASSUME NEW z \in Int PROVE Covers(f, z) <=> Covers(r, z) /\ z >= sb
    <3>1. Covers(f, z) <=> (\E b \in D2 : b <= z /\ z < b + f[b]) \/ (sb <= z /\ z < e)
      BY <2>5b, <2>5d DEF Covers
    <3>2. Covers(r, z) <=> (\E b \in D2 : b <= z /\ z < b + r[b]) \/ (a <= z /\ z < e)
      BY <2>8a DEF Covers
    <3>3. (\E b \in D2 : b <= z /\ z < b + f[b]) => z >= sb
      BY <2>5b, <2>5c
    <3>4. (\E b \in D2 : b <= z /\ z < b + f[b]) <=> (\E b \in D2 : b <= z /\ z < b + r[b])
      BY <2>5c
    <3>5. sb <= z /\ z < e <=> a <= z /\ z < e /\ z >= sb
      BY <2>5b, <2>8a
    <3>. QED BY <3>1, <3>2, <3>3, <3>4, <3>5
  <2>10. \A z \in Int : SaBegin - off <= z /\ z < sb => Covers(r, z)
    <3>1. \A z \in Int : SaBegin - off <= z /\ z < sb => a <= z /\ z < a + r[a]
      BY <1>9, <2>5b, <2>8a
    <3>. QED BY <2>8a, <3>1 DEF Covers
  <2>11. \A b \in DOMAIN f : \E c \in D : c <= b
    <3>1. \A b \in DOMAIN f : a <= b
      BY <2>5b, <2>5c, <2>5d, <2>8a
    <3>. QED BY <2>1, <3>1
  <2>5e. sb = SaBegin
    BY <2>5a
  <2>. QED BY <1>0, <2>3, <2>5, <2>5e, <2>6, <2>7, <2>8, <2>9, <2>10, <2>11 DEF Pieces, D
<1>. QED BY <1>7, <1>8, <1>9

-----------------------------------------------------------------------------
(* The ranges LoadBlockArea derives *)

LEMMA GapsIs ==
    ASSUME NEW f, NEW lo \in Nat, lo <= SaBegin, Pieces(f, lo, Total)
    PROVE  /\ Pieces(Gaps(f), lo, Total)
           /\ \A a \in DOMAIN f : Clear(Gaps(f), a, a + f[a])
           /\ \A s \in DOMAIN Gaps(f) : s = SaBegin \/ \E a \in DOMAIN f : a <= s
<1> DEFINE at == DOMAIN f
           followed == {a \in at : at # {a} /\ Cardinality({b \in at : b > a}) # 1}
           front == IF \A a \in at : a > SaBegin THEN {SaBegin} ELSE {}
           starts == {a + f[a] : a \in followed} \cup front
           After(s) == {b \in at \cup {Total} : b > s}
           next(s) == Min(After(s))
           g == Gaps(f)
<1>0. SaBegin \in Nat /\ Total \in Nat /\ SaBegin < Total
  BY Sizes
<1>1. \A b \in at : b \in Nat /\ f[b] \in Nat \ {0} /\ lo <= b /\ b + f[b] <= Total
  BY DEF Pieces, Blocks, Within
<1>2. \A b, c \in at : b < c => b + f[b] <= c
  BY DEF Pieces, Disjoint
<1>3. g = [s \in starts \ (at \cup {Total}) |-> next(s) - s]
  BY DEF Gaps
<1>4. followed \subseteq at
  OBVIOUS
<1> HIDE DEF followed
<1>5. \A s \in starts : (\E a \in at : s = a + f[a]) \/ (s = SaBegin /\ \A a \in at : a > SaBegin)
  BY <1>4
<1>6. \A s, b : b \in After(s) <=> (b \in at \/ b = Total) /\ b > s
  OBVIOUS
<1> HIDE DEF starts, at, After
<1>7. PICK S : S = starts \ (at \cup {Total})
  OBVIOUS
<1>8. \A s \in S : s \in Nat /\ lo <= s /\ s < Total /\ s \notin at
                   /\ ((\E a \in at : s = a + f[a]) \/ (s = SaBegin /\ \A a \in at : a > SaBegin))
  BY <1>0, <1>1, <1>5, <1>7
<1>9. ASSUME NEW s \in S
      PROVE  /\ next(s) \in Nat /\ next(s) > s /\ next(s) <= Total
             /\ \A b \in at : b > s => next(s) <= b
  <2>1. After(s) \in SUBSET Nat /\ Total \in After(s)
    BY <1>0, <1>1, <1>6, <1>8
  <2>2. next(s) \in After(s) /\ \A b \in After(s) : next(s) <= b
    BY <2>1, MinIs
  <2>. QED BY <1>6, <2>1, <2>2
<1> HIDE DEF next
\* no range begins inside a block
<1>10. ASSUME NEW s \in S, NEW a \in at, a <= s PROVE a + f[a] <= s
  <2>1. s \in Nat /\ a \in Nat /\ f[a] \in Nat
    BY <1>1, <1>8
  <2>2. CASE \E c \in at : s = c + f[c]
    <3>1. PICK c \in at : s = c + f[c]
      BY <2>2
    <3>2. c \in Nat /\ f[c] \in Nat \ {0}
      BY <1>1
    <3>3. a < c => a + f[a] <= c
      BY <1>2
    <3>4. c < a => c + f[c] <= a
      BY <1>2
    <3>5. a # s
      BY <1>8
    <3>. QED BY <1>10, <2>1, <3>1, <3>2, <3>3, <3>4, <3>5
  <2>3. CASE s = SaBegin /\ \A c \in at : c > SaBegin
    BY <1>0, <1>10, <2>1, <2>3
  <2>. QED BY <1>8, <2>2, <2>3
<1>11. DOMAIN g = S /\ \A s \in S : g[s] = next(s) - s /\ g[s] \in Nat \ {0} /\ s + g[s] = next(s)
  BY <1>3, <1>7, <1>8, <1>9
<1> HIDE DEF g
<1>12. Blocks(g) /\ Within(g, lo, Total)
  BY <1>8, <1>9, <1>11 DEF Blocks, Within
<1>13. Disjoint(g)
  <2>1. ASSUME NEW s \in S, NEW t \in S, s < t PROVE next(s) <= t
    <3>1. s \in Nat /\ t \in Nat /\ next(s) \in Nat
      BY <1>8, <1>9
    <3>2. CASE \E a \in at : t = a + f[a]
      <4>1. PICK a \in at : t = a + f[a]
        BY <3>2
      <4>2. a \in Nat /\ f[a] \in Nat \ {0} /\ a < t
        BY <1>1, <4>1
      <4>3. ~ (a <= s)
        BY <1>10, <2>1, <3>1, <4>1, <4>2
      <4>4. next(s) <= a
        BY <1>9, <3>1, <4>2, <4>3
      <4>. QED BY <3>1, <4>2, <4>4
    <3>3. CASE t = SaBegin /\ \A a \in at : a > SaBegin
      <4>1. PICK a \in at : s = a + f[a]
        BY <1>0, <1>8, <2>1, <3>3
      <4>2. a \in Nat /\ f[a] \in Nat /\ a > SaBegin
        BY <1>1, <3>3
      <4>. QED BY <1>0, <2>1, <3>3, <4>1, <4>2
    <3>. QED BY <1>8, <3>2, <3>3
  <2>. QED BY <1>11, <2>1 DEF Disjoint
<1>14. ASSUME NEW a \in at PROVE Clear(g, a, a + f[a])
  <2>1. ASSUME NEW s \in S PROVE s + g[s] <= a \/ a + f[a] <= s
    <3>1. s \in Nat /\ a \in Nat
      BY <1>1, <1>8
    <3>2. CASE a <= s
      BY <1>10, <3>2
    <3>3. CASE s < a
      BY <1>9, <1>11, <3>3
    <3>. QED BY <3>1, <3>2, <3>3
  <2>. QED BY <1>11, <2>1 DEF Clear
<1>15. \A s \in S : s = SaBegin \/ \E a \in at : a <= s
  BY <1>1, <1>8
<1>. QED BY <1>11, <1>12, <1>13, <1>14, <1>15 DEF Pieces, g, at

-----------------------------------------------------------------------------
(* The inductive invariant *)

SaLow == SaBegin - saOffset
RecEnd(i) == RecordStart + (i + 1) * RecSize

\* The records with their bit set are the blocks callers hold, one record each.
HeldRecorded ==
    /\ SaFlags \subseteq 0..(NMaxCount - 1) /\ saCount = Cardinality(SaFlags)
    /\ \A i \in SaFlags : \E a \in DOMAIN saHeld : saRecord[i] = <<a, saHeld[a]>>
    /\ \A a \in DOMAIN saHeld : \E i \in SaFlags : saRecord[i] = <<a, saHeld[a]>>
    /\ \A i, j \in SaFlags : saRecord[i][1] = saRecord[j][1] => i = j

\* Blocks and free ranges share the memory and the squeezed part of the record area.
Laid ==
    /\ saOffset \in Nat /\ saOffset <= NMaxCount * RecSize
    /\ Pieces(saHeld, SaLow, Total) /\ Pieces(saRange, SaLow, Total)
    /\ \A a \in DOMAIN saHeld : Clear(saRange, a, a + saHeld[a])

\* They begin behind every record in use.
AboveRecords == \A i \in SaFlags : \A a \in DOMAIN saHeld \cup DOMAIN saRange : RecEnd(i) <= a

\* The maps of an object that is up know the blocks and their records.
MapsKnow ==
    saUp => /\ DOMAIN saInfo = DOMAIN saHeld /\ DOMAIN saMap = DOMAIN saHeld
            /\ \A a \in DOMAIN saHeld :
                 saInfo[a] = saHeld[a] /\ saMap[a] \in SaFlags /\ saRecord[saMap[a]] = <<a, saHeld[a]>>

\* Until a reload every byte is in a block or in a range, and no two ranges touch.
AllThere ==
    saUp /\ saLoads = 0 =>
      /\ \A z \in Int : SaLow <= z /\ z < Total => Covers(saHeld, z) \/ Covers(saRange, z)
      /\ Parted(saRange)

Formatted ==
    /\ saLoads \in Nat /\ saUp \in BOOLEAN /\ saFormatted \in BOOLEAN
    /\ ~ saFormatted => ~ saUp /\ DOMAIN saHeld = {}
    /\ saFormatted /\ ~ saUp => saLoads > 0

SaGood == HeldRecorded /\ Laid /\ AboveRecords /\ MapsKnow /\ AllThere /\ Formatted
SaInv == saTorn = {} => SaGood

LEMMA Grows ==
    ASSUME NEW x \in Nat, NEW y \in Nat, NEW c \in Nat, x <= y
    PROVE  x * c <= y * c /\ x * c \in Nat /\ y * c \in Nat
  OBVIOUS

LEMMA FlagsFinite == ASSUME HeldRecorded PROVE IsFiniteSet(SaFlags) /\ SaFlags \in SUBSET Nat
<1>1. NMaxCount \in Nat
  BY Sizes
<1>2. IsFiniteSet(0..(NMaxCount - 1))
  BY <1>1, FS_Interval
<1>3. SaFlags \in SUBSET 0..(NMaxCount - 1)
  BY DEF HeldRecorded
<1>4. SaFlags \in SUBSET Nat
  BY <1>1, <1>3
<1>. QED BY <1>2, <1>3, <1>4, FS_Subset

\* The scan of the flags stops at the last record in use.
LEMMA LastUsedIs ==
    ASSUME HeldRecorded
    PROVE  LastUsed \in Nat /\ \A i \in SaFlags : i <= LastUsed
<1> DEFINE Upto(i) == {j \in SaFlags : j <= i}
<1>0. IsFiniteSet(SaFlags) /\ SaFlags \in SUBSET Nat /\ saCount = Cardinality(SaFlags)
  BY FlagsFinite DEF HeldRecorded
<1>1. NMaxCount \in Nat /\ FlagLen \in Nat \ {0} /\ Bits \in Nat \ {0} /\ \A i \in SaFlags : i <= NMaxCount
  BY Sizes DEF HeldRecorded
<1>2. CASE SaFlags = {}
  <2>1. LastUsed = FlagLen * Bits - 1
    BY <1>2 DEF LastUsed
  <2>2. FlagLen * Bits >= 1 /\ FlagLen * Bits \in Nat
    BY <1>1
  <2>. QED BY <1>2, <2>1, <2>2
<1>3. CASE SaFlags # {}
  <2>1. PICK m \in SaFlags : \A j \in SaFlags : j <= m
    BY <1>0, <1>1, <1>3, GreatestIn
  <2>2. Upto(m) = SaFlags
    BY <2>1
  <2>3. \E i \in SaFlags : Cardinality(Upto(i)) = saCount
    BY <1>0, <2>2
  <2>4. LastUsed = CHOOSE i \in SaFlags : Cardinality(Upto(i)) = saCount
    BY <2>3 DEF LastUsed
  <2>5. LastUsed \in SaFlags /\ Cardinality(Upto(LastUsed)) = saCount
    <3> HIDE DEF Upto
    <3>. QED BY <2>3, <2>4
  <2>6. PICK T : T = Upto(LastUsed)
    OBVIOUS
  <2>7. T \in SUBSET SaFlags /\ Cardinality(T) = Cardinality(SaFlags)
    BY <1>0, <2>5, <2>6
  <2>8. T = SaFlags
    BY <1>0, <2>7, FS_Subset
  <2>9. \A i \in SaFlags : i <= LastUsed
    BY <2>6, <2>8
  <2>. QED BY <1>0, <2>5, <2>9
<1>. QED BY <1>2, <1>3

\* The record a block gets is the first, or follows one in use.
LEMMA NewIndexIs ==
    ASSUME HeldRecorded, NewIndex \notin SaFlags
    PROVE  NewIndex \in Nat /\ (NewIndex = 0 \/ NewIndex - 1 \in SaFlags)
<1>1. FlagLen \in Nat \ {0} /\ Bits \in Nat \ {0} /\ FlagLen * Bits \in Nat /\ FlagLen * Bits >= 1
  BY Sizes
<1>2. PICK F : F = SaFlagBits
  OBVIOUS
<1>3. F \in SUBSET Nat /\ \A x : x \in F <=> x \in Nat /\ x <= FlagLen * Bits - 1
  BY <1>1, <1>2 DEF SaFlagBits
<1>4. CASE F \ SaFlags # {}
  <2>1. PICK n : n = Min(F \ SaFlags)
    OBVIOUS
  <2>2. n = NewIndex
    BY <1>2, <1>4, <2>1 DEF NewIndex
  <2>3. F \ SaFlags \in SUBSET Nat
    BY <1>3
  <2>4. n \in F /\ \A y \in F \ SaFlags : n <= y
    BY <1>4, <2>1, <2>3, MinIs
  <2>5. n = 0 \/ n - 1 \in SaFlags
    BY <1>1, <1>3, <2>4
  <2>. QED BY <1>3, <2>2, <2>4, <2>5
<1>5. CASE F \ SaFlags = {}
  <2>1. NewIndex = FlagLen * Bits - 1
    BY <1>2, <1>5 DEF NewIndex
  <2>2. NewIndex \in F
    BY <1>1, <1>3, <2>1
  <2>. QED BY <1>5, <2>2
<1>. QED BY <1>4, <1>5

\* Nothing that begins behind a record's first byte and does not reach into it begins
\* before its end.
LEMMA BehindRecord ==
    ASSUME NEW f, Blocks(f), NEW i \in Nat, RecordBytes(i) \cap SaBytes(f) = {},
           NEW a \in DOMAIN f, RecordStart + i * RecSize <= a
    PROVE  RecEnd(i) <= a
<1>1. a \in Nat /\ f[a] \in Nat \ {0}
  BY DEF Blocks
<1>2. Covers(f, a)
  BY <1>1 DEF Covers
<1>3. a \in SaBytes(f)
  BY <1>1, <1>2, BytesAre
<1>4. PICK x \in Nat, y \in Nat : x = i * RecSize /\ y = (i + 1) * RecSize
  BY Sizes
<1>5. RecordStart \in Nat /\ a \notin (RecordStart + x)..(RecordStart + y - 1)
  BY <1>3, <1>4, Sizes DEF RecordBytes
<1>6. RecordStart + x <= a
  BY <1>4
<1>7. RecordStart + y <= a
  BY <1>1, <1>4, <1>5, <1>6
<1>. QED BY <1>4, <1>7 DEF RecEnd

-----------------------------------------------------------------------------
(* What Alloc writes down, once the record does not reach into the memory. *)

LEMMA RecordedStep ==
    ASSUME HeldRecorded, saUp, MapsKnow, NEW a, NEW len, Recorded(a, len), saTorn' = {},
           a \notin DOMAIN saHeld, Blocks(saHeld'), Blocks(saRange'),
           \A b \in DOMAIN saHeld' \cup DOMAIN saRange' :
             RecordStart <= b /\ \A i \in SaFlags : RecEnd(i) <= b
    PROVE  HeldRecorded' /\ AboveRecords' /\ MapsKnow'
<1>1. PICK n : n = NewIndex
  OBVIOUS
<1>2. /\ saHeld' = With(saHeld, a, len) /\ n \notin SaFlags /\ ~ (n >= NMaxCount)
      /\ saRecord' = With(saRecord, n, <<a, len>>) /\ saCount' = saCount + 1
      /\ saMap' = Inserted(saMap, a, n) /\ saInfo' = Inserted(saInfo, a, len)
      /\ RecordBytes(n) \cap (SaBytes(saHeld') \cup SaBytes(saRange')) = {}
      /\ saUp' = saUp
  BY <1>1 DEF Recorded
<1>3. n \in Nat /\ (n = 0 \/ n - 1 \in SaFlags)
  BY <1>1, <1>2, NewIndexIs
<1>4. n < NMaxCount /\ NMaxCount \in Nat
  BY <1>2, <1>3, Sizes
<1>5. /\ DOMAIN saHeld' = DOMAIN saHeld \cup {a} /\ saHeld'[a] = len
      /\ \A b \in DOMAIN saHeld : saHeld'[b] = saHeld[b]
  BY <1>2 DEF With
<1>6. /\ SaFlags' = SaFlags \cup {n} /\ saRecord'[n] = <<a, len>>
      /\ \A i \in SaFlags : saRecord'[i] = saRecord[i]
  BY <1>2 DEF With, SaFlags
<1>7. /\ DOMAIN saMap = DOMAIN saHeld /\ DOMAIN saInfo = DOMAIN saHeld
      /\ \A b \in DOMAIN saHeld :
           saInfo[b] = saHeld[b] /\ saMap[b] \in SaFlags /\ saRecord[saMap[b]] = <<b, saHeld[b]>>
  BY DEF MapsKnow
<1>8. /\ DOMAIN saMap' = DOMAIN saHeld \cup {a} /\ saMap'[a] = n
      /\ \A b \in DOMAIN saHeld : saMap'[b] = saMap[b]
  BY <1>2, <1>7 DEF Inserted, With
<1>9. /\ DOMAIN saInfo' = DOMAIN saHeld \cup {a} /\ saInfo'[a] = len
      /\ \A b \in DOMAIN saHeld : saInfo'[b] = saInfo[b]
  BY <1>2, <1>7 DEF Inserted, With
<1>10. HeldRecorded'
  <2>1. SaFlags' \subseteq 0..(NMaxCount - 1)
    BY <1>3, <1>4, <1>6 DEF HeldRecorded
  <2>2. saCount' = Cardinality(SaFlags')
    BY <1>2, <1>6, FlagsFinite, FS_AddElement DEF HeldRecorded
  <2>3. \A i \in SaFlags' : \E b \in DOMAIN saHeld' : saRecord'[i] = <<b, saHeld'[b]>>
    <3>1. \A i \in SaFlags : \E b \in DOMAIN saHeld : saRecord[i] = <<b, saHeld[b]>>
      BY DEF HeldRecorded
    <3>. QED BY <1>5, <1>6, <3>1
  <2>4. \A b \in DOMAIN saHeld' : \E i \in SaFlags' : saRecord'[i] = <<b, saHeld'[b]>>
    <3>1. \A b \in DOMAIN saHeld : \E i \in SaFlags : saRecord[i] = <<b, saHeld[b]>>
      BY DEF HeldRecorded
    <3>. QED BY <1>5, <1>6, <3>1
  <2>5. \A i, j \in SaFlags' : saRecord'[i][1] = saRecord'[j][1] => i = j
    <3>1. \A i \in SaFlags : saRecord[i][1] \in DOMAIN saHeld
      BY DEF HeldRecorded
    <3>2. \A i, j \in SaFlags : saRecord[i][1] = saRecord[j][1] => i = j
      BY DEF HeldRecorded
    <3>. QED BY <1>6, <3>1, <3>2
  <2>. QED BY <2>1, <2>2, <2>3, <2>4, <2>5 DEF HeldRecorded
<1>11. MapsKnow'
  BY <1>2, <1>5, <1>6, <1>7, <1>8, <1>9 DEF MapsKnow
<1>12. ASSUME NEW b \in DOMAIN saHeld' \cup DOMAIN saRange' PROVE RecEnd(n) <= b
  <2>1. b \in Nat
    BY DEF Blocks
  <2>2. PICK x \in Nat : x = n * RecSize
    BY <1>3, Sizes
  <2>3. RecordStart + x <= b
    <3>1. CASE n = 0
      <4>1. x = 0
        BY <2>2, <3>1, Sizes
      <4>. QED BY <2>1, <4>1, Sizes
    <3>2. CASE n - 1 \in SaFlags
      <4>1. RecEnd(n - 1) <= b /\ n - 1 + 1 = n
        BY <1>3, <3>2
      <4>. QED BY <2>2, <4>1 DEF RecEnd
    <3>. QED BY <1>3, <3>1, <3>2
  <2>4. RecordStart + n * RecSize <= b
    BY <2>2, <2>3
  <2>5. CASE b \in DOMAIN saHeld'
    <3>1. PICK f : f = saHeld'
      OBVIOUS
    <3>2. Blocks(f) /\ RecordBytes(n) \cap SaBytes(f) = {} /\ b \in DOMAIN f
      BY <1>2, <2>5, <3>1
    <3>. QED BY <1>3, <2>4, <3>2, BehindRecord
  <2>6. CASE b \in DOMAIN saRange'
    <3>1. PICK f : f = saRange'
      OBVIOUS
    <3>2. Blocks(f) /\ RecordBytes(n) \cap SaBytes(f) = {} /\ b \in DOMAIN f
      BY <1>2, <2>6, <3>1
    <3>. QED BY <1>3, <2>4, <3>2, BehindRecord
  <2>. QED BY <2>5, <2>6
<1>13. AboveRecords'
  <2>1. \A i \in SaFlags' : \A b \in DOMAIN saHeld' \cup DOMAIN saRange' : RecEnd(i) <= b
    BY <1>6, <1>12
  <2>. QED BY <2>1 DEF AboveRecords, RecEnd
<1>. QED BY <1>10, <1>11, <1>13

-----------------------------------------------------------------------------
(* Alloc from a free range *)

\* Cutting a block from the front of a range leaves the range's other bytes.
LEMMA CutIs ==
    ASSUME NEW r, NEW lo \in Nat, NEW hi \in Nat, Pieces(r, lo, hi), NEW a \in DOMAIN r,
           NEW len \in Nat \ {0}, len <= r[a], NEW g,
           g = IF r[a] > len THEN With(Without(r, a), a + len, r[a] - len) ELSE Without(r, a)
    PROVE  /\ Pieces(g, lo, hi) /\ (Parted(r) => Parted(g))
           /\ \A z \in Int : Covers(g, z) <=> Covers(r, z) /\ ~ (a <= z /\ z < a + len)
           /\ \A b \in DOMAIN g : a <= b \/ b \in DOMAIN r
<1>1. PICK left, D, e : left = Without(r, a) /\ D = DOMAIN r \ {a} /\ e = a + len
  OBVIOUS
<1>2. \A b \in DOMAIN r : b \in Nat /\ r[b] \in Nat \ {0} /\ lo <= b /\ b + r[b] <= hi
  BY DEF Pieces, Blocks, Within
<1>3. a \in Nat /\ r[a] \in Nat \ {0} /\ e \in Nat /\ a < e /\ e <= a + r[a] /\ lo <= a /\ a + r[a] <= hi
  BY <1>1, <1>2
<1>4. /\ DOMAIN left = D /\ (\A b \in D : left[b] = r[b]) /\ Pieces(left, lo, hi)
      /\ DOMAIN r = D \cup {a}
  BY <1>1, WithoutIs, WithoutPiece
<1>5. \A b \in D : /\ b \in Nat /\ left[b] \in Nat \ {0} /\ left[b] = r[b] /\ b # a
                   /\ b + left[b] <= a \/ a + r[a] <= b
  <2>1. \A b, c \in DOMAIN r : b < c => b + r[b] <= c
    BY DEF Pieces, Disjoint
  <2>2. ASSUME NEW b \in D PROVE b + r[b] <= a \/ a + r[a] <= b
    <3>1. b \in DOMAIN r /\ (b < a \/ a < b)
      BY <1>1, <1>2, <1>3
    <3>. QED BY <2>1, <3>1
  <2>. QED BY <1>1, <1>2, <1>4, <2>2
<1>6. ASSUME NEW z \in Int
      PROVE  /\ Covers(left, z) <=> \E b \in D : b <= z /\ z < b + left[b]
             /\ Covers(r, z) <=> Covers(left, z) \/ (a <= z /\ z < a + r[a])
             /\ ~ (Covers(left, z) /\ a <= z /\ z < a + r[a])
  <2>1. Covers(left, z) <=> \E b \in D : b <= z /\ z < b + left[b]
    BY <1>4 DEF Covers
  <2>2. Covers(r, z) <=> (\E b \in D : b <= z /\ z < b + r[b]) \/ (a <= z /\ z < a + r[a])
    BY <1>4 DEF Covers
  <2>3. (\E b \in D : b <= z /\ z < b + r[b]) <=> \E b \in D : b <= z /\ z < b + left[b]
    BY <1>5
  <2>4. ~ ((\E b \in D : b <= z /\ z < b + left[b]) /\ a <= z /\ z < a + r[a])
    BY <1>3, <1>5
  <2>. QED BY <2>1, <2>2, <2>3, <2>4
<1>7. Parted(r) => \A b \in D : b + left[b] \notin DOMAIN r
  BY <1>4, <1>5 DEF Parted
<1>8. CASE r[a] > len
  <2>1. PICK v : v = r[a] - len
    OBVIOUS
  <2>2. v \in Nat \ {0} /\ e + v = a + r[a] /\ g = With(left, e, v)
    BY <1>1, <1>3, <1>8, <2>1
  <2>3. Clear(left, e, e + v)
    BY <1>3, <1>4, <1>5, <2>2 DEF Clear
  <2>4. e \notin DOMAIN left /\ Pieces(g, lo, hi)
    BY <1>3, <1>4, <2>2, <2>3, WithPiece
  <2>5. DOMAIN g = D \cup {e} /\ g[e] = v /\ \A b \in D : g[b] = left[b]
    BY <1>4, <2>2, <2>4 DEF With
  <2>6. ASSUME NEW z \in Int PROVE Covers(g, z) <=> Covers(r, z) /\ ~ (a <= z /\ z < e)
    <3>1. Covers(g, z) <=> (\E b \in D : b <= z /\ z < b + left[b]) \/ (e <= z /\ z < e + v)
      BY <2>5 DEF Covers
    <3>2. Covers(g, z) <=> Covers(left, z) \/ (e <= z /\ z < a + r[a])
      BY <1>6, <2>2, <3>1
    <3>3. e <= z /\ z < a + r[a] <=> a <= z /\ z < a + r[a] /\ ~ (a <= z /\ z < e)
      BY <1>3
    <3>4. a <= z /\ z < e => a <= z /\ z < a + r[a]
      BY <1>3
    <3>. QED BY <1>6, <3>2, <3>3, <3>4
  <2>7. ASSUME Parted(r) PROVE Parted(g)
    <3>1. \A b \in D : b + left[b] \notin D
      BY <1>4, <1>7, <2>7
    <3>2. \A b \in D : b + left[b] # e
      BY <1>3, <1>5
    <3>3. e + v \notin D /\ e + v # e
      BY <1>3, <1>4, <2>2, <2>7 DEF Parted
    <3>. QED BY <2>5, <3>1, <3>2, <3>3 DEF Parted
  <2>8. \A b \in DOMAIN g : a <= b \/ b \in DOMAIN r
    BY <1>3, <1>4, <2>5
  <2>. QED BY <1>1, <2>4, <2>6, <2>7, <2>8
<1>9. CASE ~ (r[a] > len)
  <2>1. g = left /\ e = a + r[a]
    BY <1>1, <1>3, <1>9
  <2>2. ASSUME NEW z \in Int PROVE Covers(g, z) <=> Covers(r, z) /\ ~ (a <= z /\ z < e)
    BY <1>6, <2>1
  <2>3. ASSUME Parted(r) PROVE Parted(g)
    BY <1>4, <1>7, <2>1, <2>3 DEF Parted
  <2>. QED BY <1>1, <1>4, <2>1, <2>2, <2>3
<1>. QED BY <1>8, <1>9

\* The bounds of the memory in use.
LEMMA LowIs ==
    ASSUME Laid
    PROVE  SaLow \in Nat /\ Total \in Nat /\ RecordStart \in Nat /\ RecordStart <= SaLow
           /\ SaLow <= SaBegin /\ SaBegin \in Nat /\ SaBegin < Total /\ saOffset \in Nat
           /\ SaLow = SaBegin - saOffset /\ NMaxCount * RecSize \in Nat
           /\ SaBegin = RecordStart + NMaxCount * RecSize
<1>1. saOffset \in Nat /\ saOffset <= NMaxCount * RecSize
  BY DEF Laid
<1>2. NMaxCount * RecSize \in Nat
  BY Sizes
<1>. QED BY <1>1, <1>2, Sizes DEF SaLow

LEMMA RangeStep ==
    ASSUME SaGood, NEW len \in Nat \ {0}, AllocFromRange(len), saTorn' = {} PROVE SaGood'
<1>1. PICK lo, a, r, h : lo = SaLow /\ a = FirstRange(len) /\ r = saRange /\ h = saHeld
  OBVIOUS
<1>2. PICK g, k : g = saRange' /\ k = saHeld'
  OBVIOUS
<1>3. /\ saUp /\ HasRange(len) /\ saOffset' = saOffset
      /\ g = (IF r[a] > len THEN With(Without(r, a), a + len, r[a] - len) ELSE Without(r, a))
      /\ Recorded(a, len)
  BY <1>1, <1>2 DEF AllocFromRange
<1>4. k = With(h, a, len) /\ UNCHANGED <<saUp, saFormatted, saLoads>>
  BY <1>1, <1>2, <1>3 DEF Recorded
<1>5. lo \in Nat /\ Total \in Nat /\ RecordStart \in Nat /\ RecordStart <= lo /\ SaLow' = lo
  BY <1>1, <1>3, LowIs DEF SaGood, SaLow
<1>6. /\ Pieces(h, lo, Total) /\ Pieces(r, lo, Total)
      /\ \A b \in DOMAIN h : Clear(r, b, b + h[b])
  BY <1>1 DEF SaGood, Laid
<1>7. \A b \in DOMAIN r : b \in Nat /\ r[b] \in Nat \ {0} /\ lo <= b /\ b + r[b] <= Total
  BY <1>6 DEF Pieces, Blocks, Within
<1>7h. \A b \in DOMAIN h : b \in Nat /\ h[b] \in Nat \ {0} /\ lo <= b /\ b + h[b] <= Total
  BY <1>6 DEF Pieces, Blocks, Within
<1>8. a \in DOMAIN r /\ r[a] >= len
  <2> DEFINE T == {b \in DOMAIN r : r[b] >= len}
  <2>1. T \in SUBSET Nat /\ T # {}
    BY <1>1, <1>3, <1>7 DEF HasRange
  <2>2. a = Min(T)
    BY <1>1 DEF FirstRange
  <2>3. a \in T
    <3> HIDE DEF T
    <3>. QED BY <2>1, <2>2, MinIs
  <2>. QED BY <2>3
<1>9. a \in Nat /\ r[a] \in Nat \ {0} /\ lo <= a /\ a + len <= Total /\ len <= r[a]
      /\ a + len <= a + r[a]
  BY <1>5, <1>7, <1>8
<1>10. Clear(h, a, a + len)
  <2>1. \A b \in DOMAIN h : a + r[a] <= b \/ b + h[b] <= a
    BY <1>6, <1>8 DEF Clear
  <2>. QED BY <1>7h, <1>9, <2>1 DEF Clear
<1>11. a \notin DOMAIN h /\ Pieces(k, lo, Total)
  BY <1>4, <1>5, <1>6, <1>9, <1>10, WithPiece
<1>12. DOMAIN k = DOMAIN h \cup {a} /\ k[a] = len /\ \A b \in DOMAIN h : k[b] = h[b]
  BY <1>4, <1>11 DEF With
<1>13. /\ Pieces(g, lo, Total) /\ (Parted(r) => Parted(g))
       /\ \A z \in Int : Covers(g, z) <=> Covers(r, z) /\ ~ (a <= z /\ z < a + len)
       /\ \A b \in DOMAIN g : a <= b \/ b \in DOMAIN r
  BY <1>3, <1>5, <1>6, <1>8, <1>9, CutIs
<1>14. Blocks(g) /\ Blocks(k) /\ Blocks(r) /\ Blocks(h)
  BY <1>6, <1>11, <1>13 DEF Pieces
<1>15. ASSUME NEW b \in DOMAIN k PROVE Clear(g, b, b + k[b])
  <2>1. PICK y : y = b + k[b]
    OBVIOUS
  <2>2. b \in Int /\ y \in Int /\ b < y
    BY <1>14, <2>1 DEF Blocks
  <2>3. ASSUME NEW z \in Int, b <= z, z < y PROVE ~ Covers(g, z)
    <3>1. CASE b = a
      <4>1. a <= z /\ z < a + len
        BY <1>12, <2>1, <2>3, <3>1
      <4>. QED BY <1>13, <4>1
    <3>2. CASE b \in DOMAIN h
      <4>1. y = b + h[b] /\ Clear(r, b, y)
        BY <1>6, <1>12, <2>1, <3>2
      <4>2. ~ Covers(r, z)
        BY <1>14, <2>2, <2>3, <4>1, ClearIs
      <4>. QED BY <1>13, <4>2
    <3>. QED BY <1>12, <3>1, <3>2
  <2>4. Clear(g, b, y)
    BY <1>14, <2>2, <2>3, ClearIs
  <2>. QED BY <2>1, <2>4
<1>16. Laid'
  <2>1. saOffset' \in Nat /\ saOffset' <= (NMaxCount * RecSize)'
    BY <1>3 DEF SaGood, Laid
  <2>. QED BY <1>2, <1>5, <1>11, <1>13, <1>15, <2>1 DEF Laid
<1>17. ASSUME NEW b \in DOMAIN k \cup DOMAIN g
       PROVE  RecordStart <= b /\ \A i \in SaFlags : RecEnd(i) <= b
  <2>1. \A i \in SaFlags : \A c \in DOMAIN h \cup DOMAIN r : RecEnd(i) <= c
    BY <1>1 DEF SaGood, AboveRecords
  <2>2. \E c \in DOMAIN h \cup DOMAIN r : c <= b
    <3>1. b \in DOMAIN h \/ b = a \/ a <= b \/ b \in DOMAIN r
      BY <1>12, <1>13
    <3>. QED BY <1>7, <1>7h, <1>8, <1>9, <3>1
  <2>3. PICK c \in DOMAIN h \cup DOMAIN r : c <= b
    BY <2>2
  <2>4. b \in Nat /\ c \in Nat /\ lo <= c
    BY <1>7, <1>7h, <1>14 DEF Blocks
  <2>5. \A i \in SaFlags : RecEnd(i) \in Nat
    BY FlagsFinite, Sizes DEF RecEnd, SaGood
  <2>. QED BY <1>5, <2>1, <2>3, <2>4, <2>5
<1>18. HeldRecorded' /\ AboveRecords' /\ MapsKnow'
  <2>1. HeldRecorded /\ MapsKnow
    BY DEF SaGood
  <2>2. a \notin DOMAIN saHeld /\ Blocks(saHeld') /\ Blocks(saRange')
    BY <1>1, <1>2, <1>11, <1>14
  <2>3. \A b \in DOMAIN saHeld' \cup DOMAIN saRange' :
             RecordStart <= b /\ \A i \in SaFlags : RecEnd(i) <= b
    BY <1>2, <1>17
  <2>. QED BY <1>3, <2>1, <2>2, <2>3, RecordedStep
<1>19. AllThere'
  <2>. SUFFICES ASSUME saUp, saLoads = 0 PROVE AllThere'
    BY <1>4 DEF AllThere
  <2>1. Parted(r) /\ \A z \in Int : lo <= z /\ z < Total => Covers(h, z) \/ Covers(r, z)
    BY <1>1 DEF SaGood, AllThere
  <2>2. ASSUME NEW z \in Int, lo <= z, z < Total PROVE Covers(k, z) \/ Covers(g, z)
    <3>1. Covers(h, z) => Covers(k, z)
      BY <1>12 DEF Covers
    <3>2. a <= z /\ z < a + len => Covers(k, z)
      BY <1>12 DEF Covers
    <3>. QED BY <1>13, <2>1, <2>2, <3>1, <3>2
  <2>. QED BY <1>2, <1>5, <1>13, <2>1, <2>2 DEF AllThere
<1>20. Formatted'
  BY <1>3, <1>4 DEF SaGood, Formatted
<1>. QED BY <1>16, <1>18, <1>19, <1>20 DEF SaGood

-----------------------------------------------------------------------------
(* Alloc from the end of the record area *)

\* One record more than the ones in use stays free of blocks.
LEMMA SqueezeRoom ==
    ASSUME SaGood, NEW len \in Nat \ {0}, CanSqueeze(len)
    PROVE  RecordStart <= SaLow - len /\ \A i \in SaFlags : RecEnd(i) <= SaLow - len
<1>1. LastUsed \in Nat /\ \A i \in SaFlags : i <= LastUsed
  BY LastUsedIs DEF SaGood
<1>2. SaLow \in Nat /\ RecordStart \in Nat /\ SaLow = SaBegin - saOffset
  BY LowIs DEF SaGood
<1>3. PICK x : x = (LastUsed + 2) * RecSize
  OBVIOUS
<1>4. x \in Nat /\ RecSize \in Nat
  BY <1>1, <1>3, Sizes
<1>5. SaLow - (RecordStart + x) >= len
  BY <1>2, <1>3 DEF CanSqueeze
<1>6. ASSUME NEW i \in SaFlags PROVE RecEnd(i) <= SaLow - len
  <2>1. i \in Nat /\ i + 1 \in Nat /\ i + 1 <= LastUsed + 2 /\ LastUsed + 2 \in Nat
    BY <1>1, FlagsFinite DEF SaGood
  <2>2. PICK y : y = (i + 1) * RecSize
    OBVIOUS
  <2>3. y \in Nat /\ y <= x
    BY <1>3, <1>4, <2>1, <2>2, Grows
  <2>4. RecEnd(i) = RecordStart + y
    BY <2>2 DEF RecEnd
  <2>. QED BY <1>2, <1>4, <1>5, <2>3, <2>4
<1>7. RecordStart <= SaLow - len
  BY <1>2, <1>4, <1>5
<1>. QED BY <1>6, <1>7

LEMMA SqueezedStep ==
    ASSUME SaGood, NEW len \in Nat \ {0}, AllocSqueezed(len), saTorn' = {} PROVE SaGood'
<1>1. PICK lo, a, r, h, k : lo = SaLow /\ a = SaLow - len /\ r = saRange /\ h = saHeld /\ k = saHeld'
  OBVIOUS
<1>2. /\ saUp /\ CanSqueeze(len) /\ saOffset' = saOffset + len /\ saRange' = r
      /\ Recorded(a, len)
  BY <1>1 DEF AllocSqueezed, SaLow
<1>3. k = With(h, a, len) /\ UNCHANGED <<saUp, saFormatted, saLoads>>
  BY <1>1, <1>2 DEF Recorded
<1>4. /\ lo \in Nat /\ Total \in Nat /\ RecordStart \in Nat /\ saOffset \in Nat /\ lo = SaBegin - saOffset
      /\ lo <= SaBegin /\ SaBegin \in Nat /\ SaBegin < Total
      /\ SaBegin = RecordStart + NMaxCount * RecSize /\ NMaxCount * RecSize \in Nat
  BY <1>1, LowIs DEF SaGood
<1>5. RecordStart <= a /\ \A i \in SaFlags : RecEnd(i) <= a
  BY <1>1, <1>2, SqueezeRoom
<1>6. a \in Nat /\ a + len = lo /\ a <= lo /\ lo <= Total
  BY <1>1, <1>4, <1>5
<1>7. SaLow' = a /\ saOffset' \in Nat /\ saOffset' <= NMaxCount * RecSize
  BY <1>1, <1>2, <1>4, <1>5 DEF SaLow
<1>8. /\ Pieces(h, lo, Total) /\ Pieces(r, lo, Total)
      /\ \A b \in DOMAIN h : Clear(r, b, b + h[b])
  BY <1>1 DEF SaGood, Laid
<1>9. \A b \in DOMAIN r : b \in Nat /\ r[b] \in Nat \ {0} /\ lo <= b /\ b + r[b] <= Total
  BY <1>8 DEF Pieces, Blocks, Within
<1>10. \A b \in DOMAIN h : b \in Nat /\ h[b] \in Nat \ {0} /\ lo <= b /\ b + h[b] <= Total
  BY <1>8 DEF Pieces, Blocks, Within
<1>11. Pieces(h, a, Total) /\ Pieces(r, a, Total)
  BY <1>4, <1>6, <1>8, <1>9, <1>10 DEF Pieces, Within
<1>12. Clear(h, a, a + len) /\ Clear(r, a, a + len)
  BY <1>6, <1>9, <1>10 DEF Clear
<1>13. a \notin DOMAIN h /\ Pieces(k, a, Total)
  <2>1. a <= a /\ a + len <= Total
    BY <1>4, <1>6
  <2>. QED BY <1>3, <1>4, <1>6, <1>11, <1>12, <2>1, WithPiece
<1>14. DOMAIN k = DOMAIN h \cup {a} /\ k[a] = len /\ \A b \in DOMAIN h : k[b] = h[b]
  BY <1>3, <1>13 DEF With
<1>15. Laid'
  <2>1. \A b \in DOMAIN k : Clear(r, b, b + k[b])
    BY <1>8, <1>12, <1>14
  <2>. QED BY <1>1, <1>2, <1>7, <1>11, <1>13, <2>1 DEF Laid
<1>16. HeldRecorded' /\ AboveRecords' /\ MapsKnow'
  <2>1. HeldRecorded /\ MapsKnow
    BY DEF SaGood
  <2>2. a \notin DOMAIN saHeld /\ Blocks(saHeld') /\ Blocks(saRange')
    BY <1>1, <1>2, <1>11, <1>13 DEF Pieces
  <2>3. ASSUME NEW b \in DOMAIN saHeld' \cup DOMAIN saRange'
        PROVE  RecordStart <= b /\ \A i \in SaFlags : RecEnd(i) <= b
    <3>1. b \in DOMAIN h \/ b = a \/ b \in DOMAIN r
      BY <1>1, <1>2, <1>14
    <3>2. b \in Nat /\ a <= b
      BY <1>4, <1>6, <1>9, <1>10, <3>1
    <3>3. \A i \in SaFlags : RecEnd(i) \in Nat
      BY FlagsFinite, Sizes DEF RecEnd, SaGood
    <3>. QED BY <1>4, <1>5, <1>6, <3>2, <3>3
  <2>4. Recorded(a, len) /\ saUp
    BY <1>2
  <2>. QED BY <2>1, <2>2, <2>3, <2>4, RecordedStep
<1>17. AllThere'
  <2>. SUFFICES ASSUME saUp, saLoads = 0 PROVE AllThere'
    BY <1>3 DEF AllThere
  <2>1. Parted(r) /\ \A z \in Int : lo <= z /\ z < Total => Covers(h, z) \/ Covers(r, z)
    BY <1>1 DEF SaGood, AllThere
  <2>2. ASSUME NEW z \in Int, a <= z, z < Total PROVE Covers(k, z) \/ Covers(r, z)
    <3>1. Covers(h, z) => Covers(k, z)
      BY <1>14 DEF Covers
    <3>2. z < lo => Covers(k, z)
      BY <1>6, <1>14, <2>2 DEF Covers
    <3>. QED BY <1>4, <2>1, <2>2, <3>1, <3>2
  <2>. QED BY <1>1, <1>2, <1>7, <2>1, <2>2 DEF AllThere
<1>18. Formatted'
  BY <1>2, <1>3 DEF SaGood, Formatted
<1>. QED BY <1>15, <1>16, <1>17, <1>18 DEF SaGood

-----------------------------------------------------------------------------
(* Free *)

LEMMA SaFreeStep ==
    ASSUME SaGood, NEW a \in DOMAIN saHeld, SaFree(a) PROVE SaGood'
<1>1. PICK lo, r, h, k, v : lo = SaLow /\ r = saRange /\ h = saHeld /\ k = saHeld' /\ v = saHeld[a]
  OBVIOUS
<1>2. PICK i : i = saMap[a]
  OBVIOUS
<1>3. PICK r1, m, g : r1 = Inserted(r, a, v) /\ m = SaMerged(r1) /\ g = GivenBack(m, saOffset)
  OBVIOUS
<1>4. /\ saUp /\ saRecord' = Without(saRecord, i) /\ saCount' = saCount - 1
      /\ saMap' = Without(saMap, a) /\ saInfo' = Without(saInfo, a) /\ k = Without(h, a)
      /\ UNCHANGED <<saUp, saFormatted, saLoads>>
  BY <1>1, <1>2 DEF SaFree
<1>5. saInfo[a] = v /\ i \in SaFlags /\ saRecord[i] = <<a, v>>
  BY <1>1, <1>2, <1>4 DEF SaGood, MapsKnow
<1>6. saRange' = g.range /\ saOffset' = g.offset
  BY <1>1, <1>3, <1>5 DEF SaFree
<1>7. /\ lo \in Nat /\ Total \in Nat /\ saOffset \in Nat /\ lo = SaBegin - saOffset /\ saOffset <= SaBegin
      /\ SaBegin \in Nat /\ saOffset <= NMaxCount * RecSize /\ NMaxCount * RecSize \in Nat
      /\ RecordStart \in Nat
  BY <1>1, LowIs DEF SaGood, Laid
<1>8. /\ Pieces(h, lo, Total) /\ Pieces(r, lo, Total)
      /\ \A b \in DOMAIN h : Clear(r, b, b + h[b])
  BY <1>1 DEF SaGood, Laid
<1>9. \A b \in DOMAIN h : b \in Nat /\ h[b] \in Nat \ {0} /\ lo <= b /\ b + h[b] <= Total
  BY <1>8 DEF Pieces, Blocks, Within
<1>10. \A b, c \in DOMAIN h : b < c => b + h[b] <= c
  BY <1>8 DEF Pieces, Disjoint
<1>11. a \in Nat /\ v \in Nat \ {0} /\ lo <= a /\ a + v <= Total /\ a \in DOMAIN h /\ h[a] = v
  BY <1>1, <1>9
\* the block becomes a range
<1>12. a \notin DOMAIN r /\ r1 = With(r, a, v) /\ Pieces(r1, lo, Total)
  <2>1. Clear(r, a, a + v)
    BY <1>8, <1>11
  <2>2. a \notin DOMAIN r /\ Pieces(With(r, a, v), lo, Total)
    BY <1>7, <1>8, <1>11, <2>1, WithPiece
  <2>. QED BY <1>3, <2>2 DEF Inserted
<1>13. DOMAIN r1 = DOMAIN r \cup {a} /\ r1[a] = v /\ \A b \in DOMAIN r : r1[b] = r[b]
  BY <1>12 DEF With
<1>14. DOMAIN k = DOMAIN h \ {a} /\ (\A b \in DOMAIN k : k[b] = h[b]) /\ Pieces(k, lo, Total)
  BY <1>4, <1>7, <1>8, WithoutIs, WithoutPiece
<1>15. ASSUME NEW b \in DOMAIN k PROVE Clear(r1, b, b + k[b])
  <2>1. b \in DOMAIN h /\ k[b] = h[b] /\ (b < a \/ a < b)
    BY <1>9, <1>11, <1>14
  <2>2. b + h[b] <= a \/ a + v <= b
    BY <1>10, <1>11, <2>1
  <2>3. Clear(r, b, b + k[b])
    BY <1>8, <2>1
  <2>. QED BY <1>13, <2>1, <2>2, <2>3 DEF Clear
\* neighbours are joined
<1>16. /\ Pieces(m, lo, Total) /\ DOMAIN m \subseteq DOMAIN r1 /\ Parted(m)
       /\ \A z \in Int : Covers(m, z) <=> Covers(r1, z)
  BY <1>3, <1>7, <1>12, MergedIs
\* and the first range is given back
<1>17. PICK low : low = SaBegin - g.offset
  OBVIOUS
<1>18. /\ g.offset \in Nat /\ g.offset <= saOffset
       /\ Pieces(g.range, low, Total) /\ Parted(g.range)
       /\ \A z \in Int : Covers(g.range, z) <=> Covers(m, z) /\ z >= low
       /\ \A z \in Int : lo <= z /\ z < low => Covers(m, z)
       /\ \A b \in DOMAIN g.range : \E c \in DOMAIN m : c <= b
  BY <1>3, <1>7, <1>16, <1>17, GivenBackIs
<1>19. PICK q : q = g.range
  OBVIOUS
<1>20. SaLow' = low /\ saRange' = q /\ low \in Nat /\ lo <= low /\ low <= SaBegin
  BY <1>6, <1>7, <1>17, <1>18, <1>19 DEF SaLow
<1>21. Blocks(q) /\ Blocks(k) /\ Blocks(m) /\ Blocks(r1) /\ Blocks(h) /\ Blocks(r)
  BY <1>8, <1>12, <1>14, <1>16, <1>18, <1>19 DEF Pieces
<1>22. ASSUME NEW b \in DOMAIN k
       PROVE  b \in Nat /\ k[b] \in Nat \ {0} /\ low <= b /\ Clear(q, b, b + k[b])
  <2>1. PICK y : y = b + k[b]
    OBVIOUS
  <2>2. b \in Nat /\ k[b] \in Nat \ {0} /\ y \in Int /\ b < y /\ b \in Int /\ lo <= b
    BY <1>9, <1>14, <1>21, <2>1 DEF Blocks
  <2>3. \A z \in Int : b <= z /\ z < y => ~ Covers(r1, z)
    BY <1>15, <1>21, <2>1, <2>2, ClearIs
  <2>4. \A z \in Int : b <= z /\ z < y => ~ Covers(m, z)
    BY <1>16, <2>3
  <2>5. low <= b
    BY <1>18, <1>20, <2>2, <2>4
  <2>6. \A z \in Int : b <= z /\ z < y => ~ Covers(q, z)
    BY <1>18, <1>19, <2>4
  <2>7. Clear(q, b, y)
    BY <1>21, <2>2, <2>6, ClearIs
  <2>. QED BY <2>1, <2>2, <2>5, <2>7
<1>23. Laid'
  <2>1. Pieces(k, low, Total)
    BY <1>14, <1>22 DEF Pieces, Within
  <2>2. saOffset' \in Nat /\ saOffset' <= NMaxCount * RecSize
    BY <1>6, <1>7, <1>18
  <2>. QED BY <1>1, <1>18, <1>19, <1>20, <1>22, <2>1, <2>2 DEF Laid
<1>24. SaFlags' = SaFlags \ {i} /\ \A j \in SaFlags \ {i} : saRecord'[j] = saRecord[j]
  BY <1>4 DEF Without, SaFlags
<1>25. \A j \in SaFlags : saRecord[j][1] = a => j = i
  BY <1>5 DEF SaGood, HeldRecorded
<1>26. HeldRecorded'
  <2>1. SaFlags' \subseteq 0..(NMaxCount - 1)
    BY <1>24 DEF SaGood, HeldRecorded
  <2>2. saCount' = Cardinality(SaFlags')
    BY <1>4, <1>5, <1>24, FlagsFinite, FS_RemoveElement DEF SaGood, HeldRecorded
  <2>3. ASSUME NEW j \in SaFlags' PROVE \E b \in DOMAIN k : saRecord'[j] = <<b, k[b]>>
    <3>1. j \in SaFlags /\ j # i /\ saRecord'[j] = saRecord[j]
      BY <1>24
    <3>2. PICK b \in DOMAIN h : saRecord[j] = <<b, h[b]>>
      BY <1>1, <3>1 DEF SaGood, HeldRecorded
    <3>3. b # a
      BY <1>25, <3>1, <3>2
    <3>. QED BY <1>14, <3>1, <3>2, <3>3
  <2>4. ASSUME NEW b \in DOMAIN k PROVE \E j \in SaFlags' : saRecord'[j] = <<b, k[b]>>
    <3>1. b \in DOMAIN h /\ b # a /\ k[b] = h[b]
      BY <1>14
    <3>2. PICK j \in SaFlags : saRecord[j] = <<b, h[b]>>
      BY <1>1, <3>1 DEF SaGood, HeldRecorded
    <3>3. j # i
      BY <1>5, <3>1, <3>2
    <3>. QED BY <1>24, <3>1, <3>2, <3>3
  <2>5. \A j, l \in SaFlags' : saRecord'[j][1] = saRecord'[l][1] => j = l
    BY <1>24 DEF SaGood, HeldRecorded
  <2>. QED BY <1>1, <2>1, <2>2, <2>3, <2>4, <2>5 DEF HeldRecorded
<1>27. MapsKnow'
  <2>1. /\ DOMAIN saInfo = DOMAIN h /\ DOMAIN saMap = DOMAIN h
        /\ \A b \in DOMAIN h :
             saInfo[b] = h[b] /\ saMap[b] \in SaFlags /\ saRecord[saMap[b]] = <<b, h[b]>>
    BY <1>1, <1>4 DEF SaGood, MapsKnow
  <2>2. /\ DOMAIN saInfo' = DOMAIN k /\ DOMAIN saMap' = DOMAIN k
        /\ \A b \in DOMAIN k : saInfo'[b] = saInfo[b] /\ saMap'[b] = saMap[b]
    BY <1>4, <1>14, <2>1 DEF Without
  <2>3. ASSUME NEW b \in DOMAIN k
        PROVE  saInfo'[b] = k[b] /\ saMap'[b] \in SaFlags' /\ saRecord'[saMap'[b]] = <<b, k[b]>>
    <3>1. b \in DOMAIN h /\ b # a /\ k[b] = h[b]
      BY <1>14
    <3>2. PICK j : j = saMap[b]
      OBVIOUS
    <3>3. j \in SaFlags /\ saRecord[j] = <<b, h[b]>> /\ saInfo[b] = h[b]
      BY <2>1, <3>1, <3>2
    <3>4. j # i
      BY <1>5, <3>1, <3>3
    <3>5. saRecord'[j] = <<b, k[b]>> /\ j \in SaFlags'
      BY <1>24, <3>1, <3>3, <3>4
    <3>. QED BY <2>2, <3>1, <3>2, <3>3, <3>5
  <2>. QED BY <1>1, <2>2, <2>3 DEF MapsKnow
<1>28. AboveRecords'
  <2>1. ASSUME NEW j \in SaFlags', NEW b \in DOMAIN k \cup DOMAIN q PROVE RecEnd(j) <= b
    <3>1. j \in SaFlags /\ \A c \in DOMAIN h \cup DOMAIN r : RecEnd(j) <= c
      BY <1>1, <1>24 DEF SaGood, AboveRecords
    <3>2. \E c \in DOMAIN r1 : c <= b \/ b \in DOMAIN k
      BY <1>13, <1>16, <1>18, <1>19
    <3>3. \E c \in DOMAIN h \cup DOMAIN r : c <= b
      <4>1. CASE b \in DOMAIN k
        BY <1>14, <1>21, <4>1 DEF Blocks
      <4>2. CASE b \in DOMAIN q
        <5>1. PICK c \in DOMAIN r1 : c <= b
          BY <1>16, <1>18, <1>19, <4>2
        <5>. QED BY <1>11, <1>13, <5>1
      <4>. QED BY <4>1, <4>2
    <3>4. PICK c \in DOMAIN h \cup DOMAIN r : c <= b
      BY <3>3
    <3>5. b \in Nat /\ c \in Nat /\ RecEnd(j) <= c
      BY <1>21, <3>1, <3>4 DEF Blocks
    <3>6. RecEnd(j) \in Nat
      BY <3>1, FlagsFinite, Sizes DEF RecEnd, SaGood
    <3>. QED BY <3>4, <3>5, <3>6
  <2>. QED BY <1>1, <1>20, <2>1 DEF AboveRecords, RecEnd
<1>29. AllThere'
  <2>. SUFFICES ASSUME saUp, saLoads = 0 PROVE AllThere'
    BY <1>4 DEF AllThere
  <2>1. \A z \in Int : lo <= z /\ z < Total => Covers(h, z) \/ Covers(r, z)
    BY <1>1 DEF SaGood, AllThere
  <2>2. ASSUME NEW z \in Int, low <= z, z < Total PROVE Covers(k, z) \/ Covers(q, z)
    <3>1. Covers(r, z) => Covers(r1, z)
      BY <1>13 DEF Covers
    <3>2. Covers(h, z) => Covers(k, z) \/ Covers(r1, z)
      BY <1>11, <1>13, <1>14 DEF Covers
    <3>3. lo <= z
      BY <1>7, <1>20, <2>2
    <3>. QED BY <1>16, <1>18, <1>19, <2>1, <2>2, <3>1, <3>2, <3>3
  <2>. QED BY <1>1, <1>18, <1>19, <1>20, <2>2 DEF AllThere
<1>30. Formatted'
  BY <1>1, <1>4, <1>14 DEF SaGood, Formatted
<1>. QED BY <1>23, <1>26, <1>27, <1>28, <1>29, <1>30 DEF SaGood

-----------------------------------------------------------------------------
(* Loading and formatting *)

LEMMA LoadStep ==
    ASSUME SaGood, saFormatted, LoadBlockArea, UNCHANGED <<saArea, saHeld>>, saLoads' \in Nat \ {0}, saUp' = TRUE
    PROVE  SaGood'
<1>1. PICK lo, h, f, g : lo = SaLow /\ h = saHeld /\ f = saInfo' /\ g = saRange'
  OBVIOUS
<1>2. PICK addrs : addrs = {saRecord[i][1] : i \in SaFlags}
  OBVIOUS
<1>3. UNCHANGED <<saFormatted, saRecord, saCount, saOffset, saHeld>> /\ SaFlags' = SaFlags /\ SaLow' = lo
  BY <1>1 DEF saArea, SaFlags, SaLow
<1>4. addrs = DOMAIN h
  BY <1>1, <1>2 DEF SaGood, HeldRecorded
\* the record found for an address is the block's
<1>5. ASSUME NEW a \in DOMAIN h
      PROVE  /\ (CHOOSE i \in SaFlags : saRecord[i][1] = a) \in SaFlags
             /\ saRecord[CHOOSE i \in SaFlags : saRecord[i][1] = a] = <<a, h[a]>>
  <2>1. PICK j \in SaFlags : saRecord[j] = <<a, h[a]>>
    BY <1>1 DEF SaGood, HeldRecorded
  <2>2. PICK i : i = CHOOSE x \in SaFlags : saRecord[x][1] = a
    OBVIOUS
  <2>3. i \in SaFlags /\ saRecord[i][1] = a
    BY <2>1, <2>2
  <2>4. i = j
    BY <2>1, <2>3 DEF SaGood, HeldRecorded
  <2>. QED BY <2>1, <2>2, <2>4
<1>6. /\ saMap' = [a \in addrs |-> CHOOSE i \in SaFlags : saRecord[i][1] = a]
      /\ f = [a \in addrs |-> saRecord[CHOOSE i \in SaFlags : saRecord[i][1] = a][2]]
      /\ g = Gaps(f)
  BY <1>1, <1>2 DEF LoadBlockArea
<1>7. DOMAIN saMap' = DOMAIN h /\ DOMAIN f = DOMAIN h
  BY <1>4, <1>6
<1>8. ASSUME NEW a \in DOMAIN h
      PROVE  f[a] = h[a] /\ saMap'[a] \in SaFlags /\ saRecord[saMap'[a]] = <<a, h[a]>>
  <2>1. PICK i : i = CHOOSE x \in SaFlags : saRecord[x][1] = a
    OBVIOUS
  <2>2. i \in SaFlags /\ saRecord[i] = <<a, h[a]>>
    BY <1>5, <2>1
  <2>3. saMap'[a] = i
    BY <1>4, <1>6, <2>1
  <2>4. f[a] = saRecord[i][2]
    BY <1>4, <1>6, <2>1
  <2>. QED BY <2>2, <2>3, <2>4
<1>9. /\ lo \in Nat /\ lo <= SaBegin /\ SaBegin \in Nat /\ Total \in Nat /\ RecordStart \in Nat
      /\ Pieces(h, lo, Total) /\ SaBegin = RecordStart + NMaxCount * RecSize /\ NMaxCount \in Nat /\ RecSize \in Nat
  BY <1>1, LowIs, Sizes DEF SaGood, Laid
<1>10. Pieces(f, lo, Total)
  BY <1>7, <1>8, <1>9 DEF Pieces, Blocks, Disjoint, Within
<1>11. /\ Pieces(g, lo, Total) /\ \A a \in DOMAIN f : Clear(g, a, a + f[a])
       /\ \A s \in DOMAIN g : s = SaBegin \/ \E a \in DOMAIN f : a <= s
  BY <1>6, <1>9, <1>10, GapsIs
<1>12. Laid'
  <2>1. \A a \in DOMAIN h : Clear(g, a, a + h[a])
    BY <1>7, <1>8, <1>11
  <2>2. saOffset \in Nat /\ saOffset <= NMaxCount * RecSize
    BY DEF SaGood, Laid
  <2>. QED BY <1>1, <1>3, <1>9, <1>11, <2>1, <2>2 DEF Laid
<1>13. HeldRecorded'
  BY <1>3 DEF SaGood, HeldRecorded
<1>14. MapsKnow'
  BY <1>1, <1>3, <1>7, <1>8 DEF MapsKnow
<1>15. AboveRecords'
  <2>1. ASSUME NEW i \in SaFlags, NEW b \in DOMAIN h \cup DOMAIN g PROVE RecEnd(i) <= b
    <3>1. \A a \in DOMAIN h : RecEnd(i) <= a
      BY <1>1 DEF SaGood, AboveRecords
    <3>2. PICK x \in Nat, y \in Nat : x = (i + 1) * RecSize /\ y = NMaxCount * RecSize
      BY <1>9, FlagsFinite DEF SaGood
    <3>3. x <= y
      <4>1. i \in Nat /\ i + 1 \in Nat /\ i + 1 <= NMaxCount
        BY <1>9 DEF SaGood, HeldRecorded
      <4>. QED BY <1>9, <3>2, <4>1, Grows
    <3>4. RecEnd(i) = RecordStart + x /\ SaBegin = RecordStart + y
      BY <1>9, <3>2 DEF RecEnd
    <3>5. RecEnd(i) \in Nat /\ RecEnd(i) <= SaBegin
      BY <1>9, <3>2, <3>3, <3>4
    <3>6. CASE b \in DOMAIN h
      BY <3>1, <3>6
    <3>7. CASE b \in DOMAIN g /\ b = SaBegin
      BY <3>5, <3>7
    <3>8. CASE b \in DOMAIN g /\ \E a \in DOMAIN h : a <= b
      <4>1. PICK a \in DOMAIN h : a <= b
        BY <3>8
      <4>2. a \in Nat /\ b \in Nat
        BY <1>9, <1>11, <3>8 DEF Pieces, Blocks
      <4>. QED BY <3>1, <3>5, <4>1, <4>2
    <3>. QED BY <1>7, <1>11, <3>6, <3>7, <3>8
  <2>. QED BY <1>1, <1>3, <2>1 DEF AboveRecords, RecEnd
<1>16. AllThere'
  BY DEF AllThere
<1>17. Formatted'
  BY <1>3 DEF SaGood, Formatted
<1>. QED BY <1>12, <1>13, <1>14, <1>15, <1>16, <1>17 DEF SaGood

LEMMA NothingHeld ==
    ASSUME NEW f, NEW lo \in Nat, NEW hi \in Nat, DOMAIN f = {}
    PROVE  Pieces(f, lo, hi) /\ \A x, y \in Nat : Clear(f, x, y)
  BY DEF Pieces, Blocks, Disjoint, Within, Clear

LEMMA FormatStep ==
    ASSUME SaGood, ~ saFormatted, FormatBlockArea, UNCHANGED <<saHeld, saLoads>>, saUp' = TRUE
    PROVE  SaGood'
<1>1. PICK g, v : g = saRange' /\ v = Total - SaBegin
  OBVIOUS
<1>2. /\ saFormatted' = TRUE /\ saRecord' = EmptyMap /\ saCount' = 0 /\ saOffset' = 0
      /\ saMap' = EmptyMap /\ saInfo' = EmptyMap /\ g = With(EmptyMap, SaBegin, v)
  BY <1>1 DEF FormatBlockArea
<1>3. DOMAIN saHeld' = {} /\ saHeld' = saHeld /\ saLoads \in Nat
  BY DEF SaGood, Formatted
<1>4. SaBegin \in Nat /\ Total \in Nat /\ v \in Nat \ {0} /\ SaBegin + v = Total
  BY <1>1, Sizes
<1>5. SaLow' = SaBegin
  BY <1>2, <1>4 DEF SaLow
<1>6. DOMAIN g = {SaBegin} /\ g[SaBegin] = v
  BY <1>2, NothingIs DEF With
<1>7. Pieces(g, SaBegin, Total) /\ Parted(g)
  BY <1>4, <1>6 DEF Pieces, Blocks, Disjoint, Within, Parted
<1>8. Pieces(saHeld', SaBegin, Total)
  BY <1>3, <1>4, NothingHeld
<1>9. Laid'
  <2>1. NMaxCount * RecSize \in Nat /\ saOffset' \in Nat /\ saOffset' <= NMaxCount * RecSize
    BY <1>2, Sizes
  <2>. QED BY <1>1, <1>3, <1>5, <1>7, <1>8, <2>1 DEF Laid
<1>10. SaFlags' = {} /\ DOMAIN saMap' = {} /\ DOMAIN saInfo' = {}
  BY <1>2, NothingIs DEF SaFlags
<1>11. HeldRecorded'
  BY <1>2, <1>3, <1>10, FS_EmptySet DEF HeldRecorded
<1>12. MapsKnow' /\ AboveRecords'
  BY <1>3, <1>10 DEF MapsKnow, AboveRecords
<1>13. AllThere'
  <2>1. \A z \in Int : SaBegin <= z /\ z < Total => Covers(g, z)
    BY <1>4, <1>6 DEF Covers
  <2>. QED BY <1>1, <1>5, <1>7, <2>1 DEF AllThere
<1>14. Formatted'
  BY <1>2, <1>3 DEF Formatted
<1>. QED BY <1>9, <1>11, <1>12, <1>13, <1>14 DEF SaGood

-----------------------------------------------------------------------------
(* Every step *)

LEMMA SaStep == ASSUME SaInv, [SaNext]_saVars PROVE SaInv'
<1>1. CASE UNCHANGED saVars
  BY <1>1 DEF SaInv, SaGood, saVars, saArea, saMaps, HeldRecorded, Laid, AboveRecords, MapsKnow,
              AllThere, Formatted, SaLow, SaFlags
<1>2. CASE SaStart
  <2>. SUFFICES ASSUME saTorn' = {} PROVE SaGood'
    BY DEF SaInv
  <2>1. SaGood /\ saUp' = TRUE /\ ~ saUp /\ UNCHANGED <<saHeld, saLoads>>
    BY <1>2 DEF SaStart, SaInv
  <2>2. CASE saFormatted
    <3>1. LoadBlockArea /\ UNCHANGED <<saArea, saHeld>>
      BY <1>2, <2>1, <2>2 DEF SaStart
    <3>2. saLoads' \in Nat \ {0}
      BY <2>1, <2>2 DEF SaGood, Formatted
    <3>. QED BY <2>1, <2>2, <3>1, <3>2, LoadStep
  <2>3. CASE ~ saFormatted
    <3>1. FormatBlockArea
      BY <1>2, <2>3 DEF SaStart
    <3>. QED BY <2>1, <2>3, <3>1, FormatStep
  <2>. QED BY <2>2, <2>3
<1>3. CASE SaStop
  <2>1. /\ SaGood /\ saUp /\ saUp' = FALSE /\ saLoads' = saLoads + 1
        /\ saMap' = EmptyMap /\ saInfo' = EmptyMap /\ saRange' = EmptyMap
        /\ UNCHANGED <<saFormatted, saRecord, saCount, saOffset, saHeld, saTorn>>
    BY <1>3 DEF SaStop, SaInv, saArea
  <2>2. SaFlags' = SaFlags /\ SaLow' = SaLow /\ DOMAIN saRange' = {}
    BY <2>1, NothingIs DEF SaFlags, SaLow
  <2>3. HeldRecorded'
    BY <2>1, <2>2 DEF SaGood, HeldRecorded
  <2>4. Laid'
    <3>1. SaLow \in Nat /\ Total \in Nat
      BY <2>1, LowIs DEF SaGood
    <3>2. Pieces(saRange', SaLow, Total)
      BY <2>2, <3>1, NothingHeld
    <3>3. \A a \in DOMAIN saHeld : Clear(saRange', a, a + saHeld[a])
      BY <2>2 DEF Clear
    <3>. QED BY <2>1, <2>2, <3>2, <3>3 DEF SaGood, Laid
  <2>5. AboveRecords'
    BY <2>1, <2>2 DEF SaGood, AboveRecords, RecEnd
  <2>6. MapsKnow' /\ AllThere'
    BY <2>1 DEF MapsKnow, AllThere
  <2>7. Formatted'
    <3>1. saLoads' \in Nat /\ saLoads' > 0
      BY <2>1 DEF SaGood, Formatted
    <3>2. saFormatted \in BOOLEAN /\ (~ saFormatted => DOMAIN saHeld = {})
      BY <2>1 DEF SaGood, Formatted
    <3>. QED BY <2>1, <3>1, <3>2 DEF Formatted
  <2>. QED BY <2>3, <2>4, <2>5, <2>6, <2>7 DEF SaInv, SaGood
<1>4. CASE SaRefresh
  <2>1. SaGood /\ LoadBlockArea /\ UNCHANGED <<saArea, saHeld>> /\ saUp' = TRUE /\ saUp /\ saLoads' = saLoads + 1
    BY <1>4 DEF SaRefresh, SaInv, SaGood, Formatted
  <2>2. saFormatted
    BY <2>1 DEF SaGood, Formatted
  <2>3. saLoads' \in Nat \ {0}
    BY <2>1 DEF SaGood, Formatted
  <2>. QED BY <2>1, <2>2, <2>3, LoadStep DEF SaInv
<1>5. ASSUME NEW len \in Lens, AllocFromRange(len) PROVE SaInv'
  <2>1. len \in Nat \ {0}
    BY StaticAssumption
  <2>2. SaGood
    BY <1>5 DEF SaInv, AllocFromRange
  <2>. QED BY <1>5, <2>1, <2>2, RangeStep DEF SaInv
<1>6. ASSUME NEW len \in Lens, AllocSqueezed(len) PROVE SaInv'
  <2>1. len \in Nat \ {0}
    BY StaticAssumption
  <2>2. SaGood
    BY <1>6 DEF SaInv, AllocSqueezed
  <2>. QED BY <1>6, <2>1, <2>2, SqueezedStep DEF SaInv
<1>7. ASSUME NEW a \in DOMAIN saHeld, SaFree(a) PROVE SaInv'
  <2>1. SaGood
    BY <1>7 DEF SaInv, SaFree
  <2>. QED BY <1>7, <2>1, SaFreeStep DEF SaInv
<1>. QED BY <1>1, <1>2, <1>3, <1>4, <1>5, <1>6, <1>7 DEF SaNext

LEMMA SaBegins == ASSUME SaInit PROVE SaInv
<1>1. DOMAIN saRecord = {} /\ DOMAIN saHeld = {} /\ DOMAIN saRange = {}
  BY NothingIs DEF SaInit
<1>2. ~ saUp /\ ~ saFormatted /\ saCount = 0 /\ saOffset = 0 /\ saLoads = 0 /\ saUp \in BOOLEAN /\ saFormatted \in BOOLEAN
  BY DEF SaInit
<1>3. HeldRecorded
  BY <1>1, <1>2, FS_EmptySet DEF HeldRecorded, SaFlags
<1>4. Laid
  <2>1. NMaxCount * RecSize \in Nat /\ SaBegin \in Nat /\ Total \in Nat
    BY Sizes
  <2>2. SaLow \in Nat
    BY <1>2, <2>1 DEF SaLow
  <2>. QED BY <1>1, <1>2, <2>1, <2>2, NothingHeld DEF Laid
<1>. QED BY <1>1, <1>2, <1>3, <1>4 DEF SaInv, SaGood, AboveRecords, MapsKnow, AllThere, Formatted

\* What BlocksApart says.
LEMMA SaApart == ASSUME SaInv PROVE BlocksApart
<1>. SUFFICES ASSUME saTorn = {}
     PROVE  /\ \A a, b \in DOMAIN saHeld : a < b => a + saHeld[a] <= b
            /\ (SaBytes(saHeld) \cup SaBytes(saRange))
                 \cap (0..(FlagLen - 1) \cup UNION {RecordBytes(i) : i \in SaFlags}) = {}
            /\ saCount = Cardinality(SaFlags)
            /\ {saRecord[i] : i \in SaFlags} = {<<a, saHeld[a]>> : a \in DOMAIN saHeld}
            /\ SaBytes(saHeld) \cap SaBytes(saRange) = {}
            /\ SaBytes(saHeld) \cup SaBytes(saRange) \subseteq (SaBegin - saOffset)..(Total - 1)
  BY DEF BlocksApart
<1>1. PICK h, r, lo : h = saHeld /\ r = saRange /\ lo = SaLow
  OBVIOUS
<1>2. SaGood /\ Pieces(h, lo, Total) /\ Pieces(r, lo, Total) /\ \A a \in DOMAIN h : Clear(r, a, a + h[a])
  BY <1>1 DEF SaInv, SaGood, Laid
<1>3. Blocks(h) /\ Blocks(r) /\ SaBytes(h) \subseteq Int /\ SaBytes(r) \subseteq Int
  BY <1>2, BytesInts DEF Pieces
<1>4. lo \in Nat /\ Total \in Nat /\ RecordStart \in Nat /\ RecordStart <= lo /\ RecordStart = FlagLen /\ lo = SaBegin - saOffset
  BY <1>1, <1>2, LowIs, Sizes DEF SaGood
<1>5. \A z \in Int : Covers(h, z) => lo <= z /\ z < Total
  BY <1>2, <1>4 DEF Pieces, Blocks, Within, Covers
<1>6. \A z \in Int : Covers(r, z) => lo <= z /\ z < Total
  BY <1>2, <1>4 DEF Pieces, Blocks, Within, Covers
<1>7. ASSUME NEW z \in SaBytes(h) \cup SaBytes(r)
      PROVE  z \in Int /\ lo <= z /\ z < Total /\ \A i \in SaFlags : RecEnd(i) <= z
  <2>1. z \in Int /\ (Covers(h, z) \/ Covers(r, z))
    BY <1>3, BytesAre
  <2>2. \E c \in DOMAIN h \cup DOMAIN r : c <= z /\ c \in Nat
    BY <1>3, <2>1 DEF Covers, Blocks
  <2>3. PICK c \in DOMAIN h \cup DOMAIN r : c <= z /\ c \in Nat
    BY <2>2
  <2>4. \A i \in SaFlags : RecEnd(i) <= c /\ RecEnd(i) \in Nat
    BY <1>1, <1>2, FlagsFinite, Sizes DEF SaGood, AboveRecords, RecEnd
  <2>. QED BY <1>5, <1>6, <2>1, <2>3, <2>4
<1>8. (SaBytes(h) \cup SaBytes(r)) \cap (0..(FlagLen - 1) \cup UNION {RecordBytes(i) : i \in SaFlags}) = {}
  <2>. SUFFICES ASSUME NEW z \in SaBytes(h) \cup SaBytes(r)
       PROVE  z \notin 0..(FlagLen - 1) /\ \A i \in SaFlags : z \notin RecordBytes(i)
    OBVIOUS
  <2>1. z \notin 0..(FlagLen - 1)
    BY <1>4, <1>7
  <2>2. ASSUME NEW i \in SaFlags PROVE z \notin RecordBytes(i)
    <3>1. i \in Nat
      BY <1>2, FlagsFinite DEF SaGood
    <3>2. PICK x \in Nat, y \in Nat : x = i * RecSize /\ y = (i + 1) * RecSize
      BY <3>1, Sizes
    <3>3. RecordStart + y <= z /\ z \in Int
      BY <1>7, <3>2 DEF RecEnd
    <3>4. z \notin (RecordStart + x)..(RecordStart + y - 1)
      BY <1>4, <3>3
    <3>. QED BY <3>2, <3>4 DEF RecordBytes
  <2>. QED BY <2>1, <2>2
<1>9. SaBytes(h) \cap SaBytes(r) = {}
  <2>. SUFFICES ASSUME NEW z \in SaBytes(h), z \in SaBytes(r) PROVE FALSE
    OBVIOUS
  <2>1. z \in Int /\ Covers(h, z) /\ Covers(r, z)
    BY <1>3, BytesAre
  <2>2. PICK a \in DOMAIN h : a <= z /\ z < a + h[a]
    BY <2>1 DEF Covers
  <2>3. PICK b \in DOMAIN r : b <= z /\ z < b + r[b]
    BY <2>1 DEF Covers
  <2>4. b + r[b] <= a \/ a + h[a] <= b
    BY <1>2 DEF Clear
  <2>. QED BY <1>3, <2>1, <2>2, <2>3, <2>4 DEF Blocks
<1>10. SaBytes(h) \cup SaBytes(r) \subseteq lo..(Total - 1)
  BY <1>4, <1>7
<1>11. \A a, b \in DOMAIN h : a < b => a + h[a] <= b
  BY <1>2 DEF Pieces, Disjoint
<1>12. saCount = Cardinality(SaFlags)
  BY <1>2 DEF SaGood, HeldRecorded
<1>13. {saRecord[i] : i \in SaFlags} = {<<a, h[a]>> : a \in DOMAIN h}
  <2>1. \A i \in SaFlags : \E a \in DOMAIN h : saRecord[i] = <<a, h[a]>>
    BY <1>1, <1>2 DEF SaGood, HeldRecorded
  <2>2. \A a \in DOMAIN h : \E i \in SaFlags : saRecord[i] = <<a, h[a]>>
    BY <1>1, <1>2 DEF SaGood, HeldRecorded
  <2>3. \A x : x \in {saRecord[i] : i \in SaFlags} <=> \E i \in SaFlags : x = saRecord[i]
    OBVIOUS
  <2>4. \A x : x \in {<<a, h[a]>> : a \in DOMAIN h} <=> \E a \in DOMAIN h : x = <<a, h[a]>>
    OBVIOUS
  <2>5. \A x : (\E i \in SaFlags : x = saRecord[i]) <=> \E a \in DOMAIN h : x = <<a, h[a]>>
    BY <2>1, <2>2
  <2>. QED BY <2>3, <2>4, <2>5
<1>. QED BY <1>1, <1>4, <1>8, <1>9, <1>10, <1>11, <1>12, <1>13

\* What NothingLost says.
LEMMA SaWhole == ASSUME SaInv PROVE NothingLost
<1>. SUFFICES ASSUME saTorn = {}, saUp, saLoads = 0
     PROVE  /\ Cardinality(SaBytes(saHeld) \cup SaBytes(saRange)) = NormalAvailableSize
            /\ \A a \in DOMAIN saRange : a + saRange[a] \notin DOMAIN saRange
  BY DEF NothingLost
<1>1. SaGood
  BY DEF SaInv
<1>2. /\ SaLow \in Nat /\ Total \in Nat /\ SaLow < Total /\ SaLow = SaBegin - saOffset
      /\ SaBegin \in Nat /\ saOffset \in Nat
  BY <1>1, LowIs DEF SaGood
<1>3. SaBytes(saHeld) \cup SaBytes(saRange) \subseteq SaLow..(Total - 1)
  BY SaApart DEF BlocksApart, SaLow
<1>4. ASSUME NEW z \in SaLow..(Total - 1) PROVE z \in SaBytes(saHeld) \cup SaBytes(saRange)
  <2>1. z \in Int /\ SaLow <= z /\ z < Total
    BY <1>2
  <2>2. Covers(saHeld, z) \/ Covers(saRange, z)
    BY <1>1, <2>1 DEF SaGood, AllThere
  <2>3. Blocks(saHeld) /\ Blocks(saRange)
    BY <1>1 DEF SaGood, Laid, Pieces
  <2>. QED BY <2>1, <2>2, <2>3, BytesAre
<1>5. SaBytes(saHeld) \cup SaBytes(saRange) = SaLow..(Total - 1)
  BY <1>3, <1>4
<1>6. Cardinality(SaLow..(Total - 1)) = Total - 1 - SaLow + 1
  <2>1. SaLow \in Int /\ Total - 1 \in Int /\ ~ (SaLow > Total - 1)
    BY <1>2
  <2>. QED BY <2>1, FS_Interval
<1>7. NormalAvailableSize = Total - 1 - SaLow + 1
  BY <1>2 DEF NormalAvailableSize
<1>8. Parted(saRange)
  BY <1>1 DEF SaGood, AllThere
<1>. QED BY <1>5, <1>6, <1>7, <1>8 DEF Parted

LEMMA SaAlways == SaSpec => []SaInv
<1>1. SaInit => SaInv
  BY SaBegins
<1>2. SaInv /\ [SaNext]_saVars => SaInv'
  BY SaStep
<1>. QED BY <1>1, <1>2, PTL DEF SaSpec

\* Until the records run out or grow into the memory, the blocks of the shared area, its
\* records and its free ranges share no byte, and the records are the blocks callers hold:
\* through every Alloc, squeezed or not, Free, Refresh and restart (XStaticAlloc.cpp), for
\* an area, a record and lengths of any size.
THEOREM BlocksApartAlways == SaSpec => []BlocksApart
<1>1. SaInv => BlocksApart
  BY SaApart
<1>. QED BY <1>1, SaAlways, PTL

\* Until the area is reloaded the blocks and the free ranges are the whole memory with the
\* squeezed part of the record area, and no two free ranges touch (XStaticAlloc.cpp, Free).
THEOREM NothingLostAlways == SaSpec => []NothingLost
<1>1. SaInv => NothingLost
  BY SaWhole
<1>. QED BY <1>1, SaAlways, PTL

-----------------------------------------------------------------------------
(***************************************************************************)
(* The run of all of them: each component's steps are its own.             *)
(***************************************************************************)

LEMMA Parts == MCSpec => Spec /\ SaSpec /\ PgSpec /\ RpSpec /\ [][UNCHANGED part]_part
<1>1. MCInit => Init /\ SaInit /\ PgInit /\ RpInit
  BY DEF MCInit
<1> DEFINE all == <<vars, saVars, pgVars, mpVars, rpVars, part>>
<1>2. [MCNext]_all => [Next]_vars /\ [SaNext]_saVars /\ [PgNext]_pgVars /\ [RpNext]_rpVars /\ [UNCHANGED part]_part
  BY DEF MCNext
<1>. QED BY <1>1, <1>2, PTL DEF MCSpec, Spec, SaSpec, PgSpec, RpSpec

\* The shared area and the page allocator keep what they handed out apart (XStaticAlloc.cpp,
\* MemMgr.cpp).
THEOREM AreasApart == MCSpec => []Apart
<1>1. BlocksApart /\ NothingLost /\ RunsApart => Apart
  BY DEF Apart
<1>. QED BY <1>1, Parts, BlocksApartAlways, NothingLostAlways, RunsApartAlways, PTL

\* Both scans are first fit (ObjPool.h and MemMgr.cpp, FindAvailable).
THEOREM FirstFitsAlways == MCSpec => FirstFits
<1>1. FirstFit => (part = "objects" => FirstFit)
  OBVIOUS
<1>2. FirstFits <=> [](part = "objects" => FirstFit) /\ FirstRun
  BY DEF FirstFits
<1>. QED BY <1>1, <1>2, Parts, FirstFitAlways, FirstRunAlways, PTL

=============================================================================
