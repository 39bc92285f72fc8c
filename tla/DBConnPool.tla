----------------------------- MODULE DBConnPool -----------------------------
(***************************************************************************)
(* The pool of database connections (DB/DBConnPool, DBConnect) over the    *)
(* object pool of Mem/ObjPool.h, and the connection half of the drivers.   *)
(* One thread uses the pool; the interleavings of Alloc are those of       *)
(* ObjPool.  A slot holds one connection object for good: releasing it     *)
(* runs the object's destructor and leaves the object where it is; the     *)
(* same with the one proxy per connection that is modelled.  run() is      *)
(* never started.                                                          *)
(***************************************************************************)
EXTENDS Integers, FiniteSets

CONSTANTS
    ConnSlots,  \* the slots: 1..size, and what expand() adds
    ConnSize,   \* Init(param, size)
    MaxConnOps  \* bound: connections asked for

ASSUME ConnPoolAssumption ==
    /\ ConnSlots \subseteq Nat \ {0} /\ 1..ConnSize \subseteq ConnSlots
    /\ \A s \in ConnSlots : 1..s \subseteq ConnSlots
    /\ ConnSize \in Nat \ {0} /\ MaxConnOps \in Nat

VARIABLES
    cpDriver,       \* m_param.m_strDBinfo, a registered driver
    cpKnown,        \* the driver's entry in m_setDb
    cpUp,           \* "new", "up", "failed" or "down"
    cpObj,          \* object of each slot: "none", "built", "used" or "destroyed"
    cpFlag,         \* nFlag of each slot
    cpHandle,       \* its handle: "unset", "null", "made" or "open"
    cpHeld,         \* the slots the callers were given
    cpProxy,        \* the proxy object of each connection
    cpTrans,        \* slots inside a transaction
    cpOps, cpFault

cpVars == <<cpDriver, cpKnown, cpUp, cpObj, cpFlag, cpHandle, cpHeld, cpProxy, cpTrans, cpOps, cpFault>>

-----------------------------------------------------------------------------
(* The drivers: what their constructor leaves in the handle, which calls can fail, *)
(* which call makes the handle, and who closes it.                                 *)

\* mysql_init in InitConnecion; closed by the destructor; DisConnectDB does nothing.
MysqlDriver == [start |-> "unset", fails |-> {"lib", "init", "connect"}, makes |-> "init",
                disconnects |-> FALSE, destroys |-> TRUE]
\* The COM pointer starts NULL and is made by ConnectDB; DisConnectDB closes it, and a
\* pointer that is still set is released with the object.
AdoDriver == [start |-> "null", fails |-> {"connect"}, makes |-> "connect",
              disconnects |-> TRUE, destroys |-> TRUE]
\* The other drivers are stubs: every call succeeds and no handle is made.
Stub == [start |-> "null", fails |-> {}, makes |-> "never",
         disconnects |-> FALSE, destroys |-> FALSE]
OracleDriver == Stub
OdbcDriver == Stub
PostgreDriver == Stub
SqliteDriver == Stub
MangoDriver == Stub

Driver == [mysql |-> MysqlDriver, ado |-> AdoDriver, oracle |-> OracleDriver,
           odbc |-> OdbcDriver, postgre |-> PostgreDriver, sqlite |-> SqliteDriver,
           mango |-> MangoDriver]
D == Driver[cpDriver]

CpInit ==
    /\ cpDriver \in DOMAIN Driver /\ cpKnown = FALSE /\ cpUp = "new"
    /\ cpObj = [s \in ConnSlots |-> "none"] /\ cpFlag = [s \in ConnSlots |-> 0]
    /\ cpHandle = [s \in ConnSlots |-> "null"]
    /\ cpProxy = [s \in ConnSlots |-> "none"]
    /\ cpHeld = {} /\ cpTrans = {} /\ cpOps = 0 /\ cpFault = "none"

-----------------------------------------------------------------------------

\* InitObj through the type tree: a new object of the driver's connection class, if
\* the driver is registered.
Build(S) ==
    /\ cpObj' = [s \in ConnSlots |-> IF s \in S THEN "built" ELSE cpObj[s]]
    /\ cpHandle' = [s \in ConnSlots |-> IF s \in S THEN D.start ELSE cpHandle[s]]

AddSupportDBengine ==
    /\ ~ cpKnown /\ cpUp = "new" /\ cpKnown' = TRUE
    /\ UNCHANGED <<cpDriver, cpUp, cpObj, cpFlag, cpHandle, cpHeld, cpProxy, cpTrans, cpOps, cpFault>>

DeleteSupportDBengine ==
    /\ cpKnown /\ cpKnown' = FALSE
    /\ UNCHANGED <<cpDriver, cpUp, cpObj, cpFlag, cpHandle, cpHeld, cpProxy, cpTrans, cpOps, cpFault>>

Broken(f) == cpFault' = f /\ UNCHANGED <<cpObj, cpHandle>>

\* Init: the objects first, then the driver's library.
CpStart ==
    /\ cpUp = "new"
    /\ IF cpKnown
         THEN /\ Build(1..ConnSize)
              /\ cpUp' \in IF "lib" \in D.fails THEN {"up", "failed"} ELSE {"up"}
         ELSE cpUp' = "failed" /\ UNCHANGED <<cpObj, cpHandle>>
    /\ UNCHANGED <<cpDriver, cpKnown, cpFlag, cpHeld, cpProxy, cpTrans, cpOps, cpFault>>

CpRuns == cpUp = "up" /\ cpFault = "none"
Built == {s \in ConnSlots : cpObj[s] # "none"}
FreeSlots == {s \in Built : cpFlag[s] = 0}
Lowest(S) == CHOOSE s \in S : \A r \in S : s <= r

\* No slot is free: expand() doubles the vector.
CpGrow ==
    /\ CpRuns /\ cpKnown /\ FreeSlots = {} /\ 2 * Cardinality(Built) \in ConnSlots
    /\ Build((Cardinality(Built) + 1)..(2 * Cardinality(Built)))
    /\ UNCHANGED <<cpDriver, cpKnown, cpUp, cpFlag, cpHeld, cpProxy, cpTrans, cpOps, cpFault>>

\* Bug: a connection that could not be opened is only put back.
MutantDestroyed(h) == h
\* What the driver's destructor leaves of a handle; closing one that was never set is a
\* fault of its own.
Destroyed(h) == IF D.destroys THEN "null" ELSE h
CloseFaults(h) == D.destroys /\ h = "unset"

\* DisConnectDB, then the destructor.
Disconnected(h) == IF D.disconnects THEN "null" ELSE h

\* The handle after InitConnecion and ConnectDB went as far as stage f.
HandleAt(h, f) ==
    CASE f = "proxies" -> h
      [] f = "init" -> IF D.makes = "init" THEN "made" ELSE h
      [] f = "connect" -> IF D.makes = "never" THEN h ELSE "made"
      [] f = "ok" -> IF D.makes = "never" THEN h ELSE "open"

\* GetNewConnect: Init of the proxies' own pool, InitConnecion, ConnectDB; if one of
\* them fails the object is destroyed and put back.  A slot whose object has been
\* destroyed before is taken like any other: its object is gone.
GetNewConnect ==
    /\ CpRuns /\ cpOps < MaxConnOps /\ FreeSlots # {}
    /\ cpOps' = cpOps + 1
    /\ UNCHANGED <<cpDriver, cpKnown, cpUp, cpTrans>>
    /\ \E s \in {Lowest(FreeSlots)},
          f \in IF cpKnown THEN {"proxies", "ok"} \cup (D.fails \ {"lib"}) ELSE {"proxies"} :
        IF cpObj[s] = "destroyed"
          THEN Broken("destroyed object") /\ UNCHANGED <<cpFlag, cpHeld, cpProxy>>
        ELSE IF f = "ok"
          THEN /\ cpObj' = [cpObj EXCEPT ![s] = "used"]
               /\ cpHandle' = [cpHandle EXCEPT ![s] = HandleAt(@, f)]
               /\ cpFlag' = [cpFlag EXCEPT ![s] = 1]
               /\ cpHeld' = cpHeld \cup {s}
               /\ cpProxy' = [cpProxy EXCEPT ![s] = "built"]
               /\ UNCHANGED cpFault
        ELSE /\ IF CloseFaults(HandleAt(cpHandle[s], f)) THEN Broken("handle never set")
                ELSE /\ cpObj' = [cpObj EXCEPT ![s] = "destroyed"]
                     /\ cpHandle' = [cpHandle EXCEPT ![s] = Destroyed(HandleAt(@, f))]
                     /\ UNCHANGED cpFault
             /\ UNCHANGED <<cpFlag, cpHeld, cpProxy>>

\* ReleaseConn, also by way of ReCreatePool.  The destructor takes the proxies along.
ReleaseConn(s) ==
    /\ CpRuns /\ s \in cpHeld
    /\ IF cpProxy[s] = "destroyed" THEN Broken("destroyed object")
       ELSE /\ cpObj' = [cpObj EXCEPT ![s] = "destroyed"]
            /\ cpHandle' = [cpHandle EXCEPT ![s] = Destroyed(Disconnected(@))]
            /\ UNCHANGED cpFault
    /\ cpFlag' = [cpFlag EXCEPT ![s] = 0]
    /\ cpHeld' = cpHeld \ {s} /\ cpTrans' = cpTrans \ {s}
    /\ cpProxy' = [cpProxy EXCEPT ![s] = "none"]
    /\ UNCHANGED <<cpDriver, cpKnown, cpUp, cpOps>>

OnHeld(s) ==
    /\ CpRuns /\ s \in cpHeld
    /\ UNCHANGED <<cpDriver, cpKnown, cpUp, cpObj, cpFlag, cpHandle, cpHeld, cpOps>>

GetDBAccessProxy(s) ==
    /\ OnHeld(s) /\ cpProxy[s] \in {"built", "destroyed"}
    /\ IF cpProxy[s] = "destroyed" THEN cpFault' = "destroyed object" /\ UNCHANGED cpProxy
       ELSE cpProxy' = [cpProxy EXCEPT ![s] = "used"] /\ UNCHANGED cpFault
    /\ UNCHANGED cpTrans

ReleaseDBAccessProxy(s) ==
    /\ OnHeld(s) /\ cpProxy[s] = "used"
    /\ cpProxy' = [cpProxy EXCEPT ![s] = "destroyed"]
    /\ UNCHANGED <<cpTrans, cpFault>>

BeginTrans(s) ==
    /\ OnHeld(s)
    /\ cpTrans' = cpTrans \cup {s}
    /\ UNCHANGED <<cpProxy, cpFault>>

\* Commit or roll back.
CommitTrans(s) ==
    /\ OnHeld(s)
    /\ cpTrans' = cpTrans \ {s}
    /\ UNCHANGED <<cpProxy, cpFault>>

\* The destructor: UninitLib of the driver, which must still be registered, then
\* ObjPool destroys the object of every slot, those that have been destroyed already
\* and those that are in use included.
DestroyPool ==
    /\ cpUp \in {"up", "failed"} /\ cpFault = "none"
    /\ cpUp' = "down"
    /\ IF ~ cpKnown THEN Broken("no driver")
       ELSE IF \E s \in ConnSlots : "destroyed" \in {cpObj[s], cpProxy[s]} THEN Broken("destroyed object")
       ELSE IF \E s \in Built : CloseFaults(cpHandle[s]) THEN Broken("handle never set")
       ELSE /\ cpObj' = [s \in ConnSlots |-> "none"]
            /\ cpHandle' = [s \in ConnSlots |-> Destroyed(cpHandle[s])]
            /\ UNCHANGED cpFault
    /\ cpHeld' = {} /\ cpTrans' = {}
    /\ UNCHANGED <<cpDriver, cpKnown, cpFlag, cpProxy, cpOps>>

CpNext ==
    \/ AddSupportDBengine \/ DeleteSupportDBengine
    \/ CpStart \/ CpGrow \/ GetNewConnect \/ DestroyPool
    \/ \E s \in ConnSlots : \/ ReleaseConn(s) \/ BeginTrans(s) \/ CommitTrans(s)
                            \/ GetDBAccessProxy(s) \/ ReleaseDBAccessProxy(s)

CpSpec == CpInit /\ [][CpNext]_cpVars

-----------------------------------------------------------------------------
(* Properties *)

CpTypeOK ==
    /\ cpObj \in [ConnSlots -> {"none", "built", "used", "destroyed"}]
    /\ cpHandle \in [ConnSlots -> {"unset", "null", "made", "open"}]
    /\ cpFlag \in [ConnSlots -> {0, 1}] /\ cpOps \in 0..MaxConnOps
    /\ cpHeld \subseteq ConnSlots /\ cpTrans \subseteq cpHeld
    /\ cpProxy \in [ConnSlots -> {"none", "built", "used", "destroyed"}]

\* DBConnPool.cpp:48-67: whichever driver, and whichever of the three steps of opening
\* a connection failed, a handle of the client library that is still there belongs to a
\* connection some caller holds; and a caller holds each connection alone.
ConnsClosed ==
    cpFault = "none" =>
        /\ \A s \in ConnSlots : cpHandle[s] \in {"made", "open"} => s \in cpHeld
        /\ \A s \in cpHeld : cpObj[s] = "used" /\ cpFlag[s] = 1
=============================================================================
