---------------------------- MODULE TreeRelation ----------------------------
(***************************************************************************)
(* The tree of classes behind getInstance (Pattern/TreeRelation.h): every  *)
(* class has a static node that knows its parent from the start and is     *)
(* hung into the list of children of a node by AddChild.  The database     *)
(* pool creates its connections and proxies through such trees.            *)
(***************************************************************************)
EXTENDS Integers, Sequences, FiniteSets, FiniteSetsExt

CONSTANTS
    TreeRoot,       \* the base class
    StParent,       \* st_parent of the other classes
    MaxTreeOps      \* bound: removals

ASSUME TreeAssumption ==
    TreeRoot \notin DOMAIN StParent /\ MaxTreeOps \in Nat

Classes == DOMAIN StParent \cup {TreeRoot}

VARIABLES
    trKids,     \* st_children of each node
    trCount,    \* s_children
    trAsserts,  \* the build has assertions (no NDEBUG)
    trOps, trFault

trVars == <<trKids, trCount, trAsserts, trOps, trFault>>

TrInit ==
    /\ trKids = [c \in Classes |-> <<>>] /\ trCount = 1 /\ trOps = 0 /\ trFault = "none"
    /\ trAsserts \in BOOLEAN

Elements(s) == {s[i] : i \in DOMAIN s}

\* The nodes of the subtree of r: what the recursion of findNode visits.
Subtree(r) ==
    LET level[n \in 0..Cardinality(Classes)] ==
          IF n = 0 THEN {r} ELSE level[n - 1] \cup UNION {Elements(trKids[c]) : c \in level[n - 1]}
    IN  level[Cardinality(Classes)]

\* findNode(type, root): types are unique, so it is found iff it is in the subtree.
findNode(c, r) == c \in Subtree(r)

\* AddChild of a leaf under the class its node names as parent; the leaf is found
\* through the tree, not through st_parent.
AddChild(c) ==
    /\ trFault = "none" /\ c \in DOMAIN StParent /\ ~ findNode(c, TreeRoot)
    /\ findNode(StParent[c], TreeRoot)
    /\ trKids' = [trKids EXCEPT ![StParent[c]] = Append(@, c)]
    /\ trCount' = trCount + 1
    /\ UNCHANGED <<trAsserts, trOps, trFault>>

\* removeChild: the assertion is the wrong way round and stops every call with a name.
\* Without it: a leaf leaves its parent's list, a node with children stays.
removeChild(c) ==
    /\ trFault = "none" /\ trOps < MaxTreeOps /\ trOps' = trOps + 1
    /\ IF trAsserts THEN trFault' = "assertion" /\ UNCHANGED <<trKids, trCount>>
       ELSE /\ IF c # TreeRoot /\ findNode(c, TreeRoot) /\ trKids[c] = <<>>
                 THEN /\ trKids' = [trKids EXCEPT ![StParent[c]] = SelectSeq(@, LAMBDA x : x # c)]
                      /\ trCount' = trCount - 1
                 ELSE UNCHANGED <<trKids, trCount>>
            /\ UNCHANGED trFault
    /\ UNCHANGED trAsserts

\* clearTreeReleation: a leaf removes itself from the list its caller walks.
clearTreeReleation ==
    /\ trFault = "none" /\ trOps < MaxTreeOps /\ trOps' = trOps + 1
    /\ trFault' = IF trKids[TreeRoot] = <<>> THEN "none" ELSE "iterator"
    /\ UNCHANGED <<trKids, trCount, trAsserts>>

TrNext ==
    \/ \E c \in Classes : AddChild(c) \/ removeChild(c)
    \/ clearTreeReleation

-----------------------------------------------------------------------------

ParentOf(c) == IF c = TreeRoot THEN "NULL" ELSE StParent[c]

\* Bug: the recursion goes on from the class itself.
MutantStepUp(c) == c
\* tmptr->st_parent
StepUp(c) == ParentOf(c)

\* relationcmp(type, typed).  The recursion asks about the parent of the lower class,
\* which is one step above it, so it ends at once: 2 stands for "two or more above",
\* and -2 for "two or more below" as well as for "unrelated".
relationcmp(x, y) ==
    LET direct(a, b) == IF ParentOf(b) = a THEN 1 ELSE 0
    IN  IF ParentOf(x) = ParentOf(y) \/ x = y THEN 0
        ELSE IF findNode(y, x)
          THEN IF ParentOf(y) = x THEN 1 ELSE 1 + direct(StepUp(y), y)
        ELSE IF findNode(x, y)
          THEN IF ParentOf(x) = y THEN -1 ELSE -1 - direct(StepUp(x), x)
        ELSE -2

\* The distance from a class up to one of its ancestors, by the parent pointers.
Ancestors(c) ==
    LET up[n \in 0..Cardinality(Classes)] ==
          IF n = 0 THEN {c} ELSE {ParentOf(a) : a \in up[n - 1] \cap Classes}
    IN  [n \in 1..Cardinality(Classes) |-> up[n]]

TrTypeOK ==
    /\ trKids \in [Classes -> Seq(Classes)] /\ trCount \in Nat
    /\ trOps \in 0..MaxTreeOps /\ trAsserts \in BOOLEAN

\* TreeRelation.h:78-142: whatever was added and removed, the tree that getInstance
\* searches agrees with the parent pointers, s_children counts it, and relationcmp of
\* two classes in it is the distance between an ancestor and its descendant, cut off at
\* 2, with the sign of the direction.
LineageIsDepth ==
    trFault = "none" =>
        /\ trCount = Cardinality(Subtree(TreeRoot))
        /\ \A x, y \in Subtree(TreeRoot), n \in 1..Cardinality(Classes) :
              x \in Ancestors(y)[n] =>
                  /\ findNode(y, x)
                  /\ ParentOf(x) # ParentOf(y) =>
                        /\ relationcmp(x, y) = IF n > 2 THEN 2 ELSE n
                        /\ relationcmp(y, x) = IF n > 2 THEN -2 ELSE -n
=============================================================================
