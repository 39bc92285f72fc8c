------------------------------- MODULE RefPtr -------------------------------
(***************************************************************************)
(* Mem/RefPtr.h: pointers that share an object through a table from        *)
(* objects to the pointers that refer to them.  A pointer counts           *)
(* references, or, in loop mode, the pointer made from the raw address     *)
(* owns the object ("strong") and its copies only watch it ("weak").       *)
(* Objects are not reused; each is wrapped by one RefPtr.                  *)
(***************************************************************************)
EXTENDS Naturals, FiniteSets

CONSTANTS Ptrs, RefObjs, NullObj

ASSUME RefAssumption == NullObj \notin RefObjs

VARIABLES
    rpLive,     \* the RefPtr objects that exist
    rpData,     \* _pData
    rpWeak,     \* _fromRef is not NULL
    rpLoop,     \* _bLoopRef
    rpHasFree,  \* _bHasFree
    rpRef,      \* m_refMaps: the pointers registered for each object
    rpMade,     \* the objects wrapped so far
    rpDeleted,  \* the objects deleted so far
    rpTwice,    \* some object was deleted twice
    rpMixed     \* objects that pointers of both modes have referred to

rpPtrVars == <<rpLive, rpData, rpWeak, rpLoop, rpHasFree>>
rpVars == <<rpPtrVars, rpRef, rpMade, rpDeleted, rpTwice, rpMixed>>

RpInit ==
    /\ rpLive = {} /\ rpData = [p \in Ptrs |-> NullObj]
    /\ rpWeak = [p \in Ptrs |-> FALSE] /\ rpLoop = [p \in Ptrs |-> FALSE]
    /\ rpHasFree = [p \in Ptrs |-> FALSE]
    /\ rpRef = [o \in RefObjs |-> {}]
    /\ rpMade = {} /\ rpDeleted = {} /\ rpTwice = FALSE /\ rpMixed = {}

\* AddRef and DelRef; NULL is ignored.
AddRef(ref, o, p) == IF o = NullObj THEN ref ELSE [ref EXCEPT ![o] = @ \cup {p}]
MutantDelRef(ref, o, p) == IF o = NullObj THEN ref ELSE [ref EXCEPT ![o] = {}]
DelRef(ref, o, p) == IF o = NullObj THEN ref ELSE [ref EXCEPT ![o] = @ \ {p}]

\* delete o
Deleted(o) ==
    /\ rpDeleted' = rpDeleted \cup ({o} \ {NullObj})
    /\ rpTwice' = (rpTwice \/ o \in rpDeleted)

\* NotifyFree: every registered pointer learns that the object is gone, and the entry goes.
Told(o) == [p \in Ptrs |-> rpHasFree[p] \/ (o # NullObj /\ p \in rpRef[o])]
Forgotten(o) == [rpRef EXCEPT ![o] = {}]

\* The first branch of the destructor and of operator= in loop mode.
Owns(p) == rpLoop[p] /\ ~ rpWeak[p] /\ ~ rpHasFree[p] /\ rpData[p] # NullObj

NowMixed ==
    rpMixed' = rpMixed \cup
        {o \in RefObjs : \E p, q \in rpLive' :
            rpData'[p] = o /\ rpData'[q] = o /\ rpLoop'[p] # rpLoop'[q]}

\* RefPtr(const T* p)
Wrap(p, o) ==
    /\ p \notin rpLive /\ o \notin rpMade
    /\ rpLive' = rpLive \cup {p} /\ rpMade' = rpMade \cup {o}
    /\ rpData' = [rpData EXCEPT ![p] = o] /\ rpWeak' = [rpWeak EXCEPT ![p] = FALSE]
    /\ rpLoop' = [rpLoop EXCEPT ![p] = FALSE] /\ rpHasFree' = [rpHasFree EXCEPT ![p] = FALSE]
    /\ rpRef' = AddRef(rpRef, o, p)
    /\ UNCHANGED <<rpDeleted, rpTwice>>
    /\ NowMixed

\* RefPtr(const RefPtr&): a copy of an empty pointer leaves the flags as they were in memory.
CopyPtr(p, q) ==
    /\ p \notin rpLive /\ q \in rpLive
    /\ rpLive' = rpLive \cup {p}
    /\ rpData' = [rpData EXCEPT ![p] = rpData[q]]
    /\ \E w, l, f \in BOOLEAN :
          /\ rpData[q] # NullObj => w /\ l = rpLoop[q] /\ f = rpHasFree[q]
          /\ rpWeak' = [rpWeak EXCEPT ![p] = w] /\ rpLoop' = [rpLoop EXCEPT ![p] = l]
          /\ rpHasFree' = [rpHasFree EXCEPT ![p] = f]
    /\ rpRef' = AddRef(rpRef, rpData[q], p)
    /\ UNCHANGED <<rpMade, rpDeleted, rpTwice>>
    /\ NowMixed

\* operator=: let go of the old object, then refer to q's.  In counting mode the last
\* reference is dropped without deleting the object.
Assign(p, q) ==
    LET o == rpData[p]
        weak == rpLoop[p] /\ ~ Owns(p) /\ rpWeak[p] /\ o # NullObj
        stays == rpLoop[p] /\ ~ Owns(p) /\ ~ weak       \* loop mode, nothing is let go
        flags == IF Owns(p) THEN Told(o) ELSE IF weak THEN [rpHasFree EXCEPT ![p] = FALSE]
                 ELSE rpHasFree
        ref == IF Owns(p) THEN Forgotten(o) ELSE IF stays THEN rpRef ELSE DelRef(rpRef, o, p)
        \* q shares the object that has just been deleted, or any other
        new == rpData[q]
    IN  /\ {p, q} \subseteq rpLive /\ p # q
        /\ IF Owns(p) THEN Deleted(o) ELSE UNCHANGED <<rpDeleted, rpTwice>>
        /\ rpData' = [rpData EXCEPT ![p] = IF new = NullObj /\ stays THEN o ELSE new]
        /\ rpWeak' = [rpWeak EXCEPT ![p] = IF new # NullObj THEN TRUE ELSE @ /\ ~ weak]
        /\ rpHasFree' = IF new # NullObj THEN [flags EXCEPT ![p] = flags[q]] ELSE flags
        /\ rpLoop' = [rpLoop EXCEPT ![p] = IF new # NullObj THEN rpLoop[q] ELSE @]
        /\ rpRef' = AddRef(ref, new, p)
        /\ UNCHANGED <<rpLive, rpMade>>
        /\ NowMixed

EnableLoopRefMode(p) ==
    /\ p \in rpLive /\ ~ rpLoop[p]
    /\ rpLoop' = [rpLoop EXCEPT ![p] = TRUE]
    /\ UNCHANGED <<rpLive, rpData, rpWeak, rpHasFree, rpRef, rpMade, rpDeleted, rpTwice>>
    /\ NowMixed

\* ~RefPtr
Destroy(p) ==
    LET o == rpData[p]
        left == DelRef(rpRef, o, p)
        last == IF o = NullObj THEN FALSE ELSE left[o] = {}
        unref == IF Owns(p) THEN Forgotten(o) ELSE IF rpLoop[p] /\ ~ rpWeak[p] THEN rpRef ELSE left
    IN  /\ p \in rpLive /\ rpLive' = rpLive \ {p}
        /\ rpRef' = unref
        /\ rpHasFree' = [IF Owns(p) THEN Told(o) ELSE rpHasFree EXCEPT ![p] = FALSE]
        /\ IF Owns(p) \/ (~ rpLoop[p] /\ last) THEN Deleted(o) ELSE UNCHANGED <<rpDeleted, rpTwice>>
        /\ rpData' = [rpData EXCEPT ![p] = NullObj]
        /\ rpWeak' = [rpWeak EXCEPT ![p] = FALSE] /\ rpLoop' = [rpLoop EXCEPT ![p] = FALSE]
        /\ UNCHANGED <<rpMade, rpMixed>>

RpNext ==
    \E p \in Ptrs :
        \/ EnableLoopRefMode(p) \/ Destroy(p)
        \/ \E o \in RefObjs : Wrap(p, o)
        \/ \E q \in Ptrs : CopyPtr(p, q) \/ Assign(p, q)

RpSpec == RpInit /\ [][RpNext]_rpVars

-----------------------------------------------------------------------------
(* Properties *)

RpTypeOK ==
    /\ rpLive \subseteq Ptrs /\ rpData \in [Ptrs -> RefObjs \cup {NullObj}]
    /\ rpWeak \in [Ptrs -> BOOLEAN] /\ rpLoop \in [Ptrs -> BOOLEAN] /\ rpHasFree \in [Ptrs -> BOOLEAN]
    /\ rpRef \in [RefObjs -> SUBSET Ptrs] /\ rpTwice \in BOOLEAN
    /\ rpMade \subseteq RefObjs /\ rpMixed \subseteq rpMade /\ rpDeleted \subseteq rpMade

\* An object whose pointers were all of one mode is not deleted under a counting pointer,
\* and a loop-mode pointer to a deleted object knows it; the table has no pointer that
\* is gone.  (An object referred to in both modes can be deleted twice.)
NotDeletedUnderUser ==
    /\ rpTwice => rpMixed # {}
    /\ \A p \in rpLive :
         rpData[p] \in rpDeleted \ rpMixed => rpLoop[p] /\ rpHasFree[p]
    /\ \A o \in RefObjs : rpRef[o] \subseteq rpLive
=============================================================================
