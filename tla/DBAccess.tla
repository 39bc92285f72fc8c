------------------------------ MODULE DBAccess ------------------------------
(***************************************************************************)
(* One call of a database proxy (DB/DBAccess, MysqlAccess, AdoAccess): the *)
(* statement is put together from the caller's text and arguments, then    *)
(* given to the client library, which may fail at every step.  A text is a *)
(* sequence of characters: "?" is a bound argument, "%" starts a printf    *)
(* conversion, "x" is anything else; the printed form of an argument is    *)
(* its number.  A proxy is only handed out by a valid connection, and      *)
(* nothing makes one invalid later, so the check of the base class passes. *)
(***************************************************************************)
EXTENDS Integers, SequencesExt, FiniteSets, FiniteSetsExt

CONSTANTS
    MaxText,    \* bound: length of the caller's text
    MaxArgs,    \* bound: number of arguments
    DestLen,    \* sizeof(strSql): 1024 or 512 in the code
    MaxRows     \* bound: rows of a result

ASSUME AccessAssumption ==
    MaxText \in Nat /\ MaxArgs \in Nat /\ DestLen \in Nat \ {0} /\ MaxRows \in Nat

\* "mark" is a string with a question mark in it
ArgKinds == {"int", "string", "mark", "blob"}

VARIABLES
    acDriver,   \* "mysql" or "ado"
    acPc, acOp, \* where the call is, and which call it is
    acSql, acTypes,     \* its text and argTypeList
    acText,     \* strSql
    acBound,    \* the arguments given to the library, in order (resVec)
    acLive,     \* what the call holds and no destructor gives back
    acRows,     \* rows the library still has
    acResult,   \* rows appended to the caller's list
    acRet,      \* the return value
    acFault     \* undefined behaviour, or an exception nobody catches

acInput == <<acDriver, acOp, acSql, acTypes>>
acStmt == <<acText, acBound>>
acVars == <<acInput, acPc, acStmt, acLive, acRows, acResult, acRet, acFault>>

AcInit ==
    /\ acDriver \in {"mysql", "ado"} /\ acPc = "idle" /\ acOp = "none"
    /\ acSql = <<>> /\ acTypes = <<>> /\ acText = <<>> /\ acBound = <<>>
    /\ acLive = {} /\ acRows = 0 /\ acResult = 0 /\ acRet = 0 /\ acFault = "none"

-----------------------------------------------------------------------------
(* Fromat *)

AtMarks(sql, c) == {p \in DOMAIN sql : sql[p] = c}
Ascending(S) == SetToSortSeq(S, <)

\* Bug: the arguments keep the order they were looked for in.
MutantArgPlaces(sql) ==
    Ascending(AtMarks(sql, "?")) \o Ascending(AtMarks(sql, "%"))
\* args, sorted by place: the i-th argument belongs to the i-th mark.
ArgPlaces(sql) == Ascending(AtMarks(sql, "?") \cup AtMarks(sql, "%"))

Printed(types, i) == IF types[i] = "mark" THEN <<ToString(i), "?">> ELSE <<ToString(i)>>

\* tmpVec: the text up to the first "%", then from each "%" up to the next.
Pieces(sql) ==
    LET cut == Ascending(AtMarks(sql, "%"))
        to(k) == IF k = Len(cut) THEN Len(sql) ELSE cut[k + 1] - 1
    IN  [k \in 1..Len(cut) |-> SubSeq(sql, cut[k], to(k))]
Lead(sql) == SubSeq(sql, 1, Min(AtMarks(sql, "%")) - 1)

\* Each piece is printed with the argument of its own "%"; one with a blob takes what
\* szbuf holds from the piece before.
PrintedPieces(sql, types) ==
    LET places == ArgPlaces(sql)
        cut == Ascending(AtMarks(sql, "%"))
        arg(k) == CHOOSE i \in DOMAIN places : places[i] = cut[k]
        szbuf[k \in 0..Len(cut)] ==
            IF k = 0 THEN <<>>
            ELSE IF types[arg(k)] = "blob" THEN szbuf[k - 1]
            ELSE Printed(types, arg(k)) \o Tail(Pieces(sql)[k])
    IN  [k \in 1..Len(cut) |-> szbuf[k]]

Mismatch(sql, types) ==
    sql = <<>> \/ DestLen < Len(sql) \/ Len(ArgPlaces(sql)) # Len(types)

Fromat(sql, types) ==
    IF AtMarks(sql, "%") = {} THEN sql
    ELSE Lead(sql) \o FlattenSeq(PrintedPieces(sql, types))

\* resVec: the arguments that stand at a "?".
BoundArgs(sql) ==
    LET places == ArgPlaces(sql)
    IN  SelectSeq([i \in DOMAIN places |-> i], LAMBDA i : sql[places[i]] = "?")

-----------------------------------------------------------------------------
(* The plain calls *)

AcReturn(r) == acPc' = "idle" /\ acRet' = r /\ UNCHANGED acFault
AcBreak(f) == acPc' = "idle" /\ acFault' = f /\ UNCHANGED acRet
\* A call leaves nothing behind for the next one: one is all a behaviour needs.
AcBegins(op) == acOp = "none" /\ acOp' = op /\ UNCHANGED acDriver

Plain(op, driver) ==
    /\ AcBegins(op) /\ acDriver = driver
    /\ acSql' = <<>> /\ acTypes' = <<>> /\ acLive' = {} /\ acResult' = 0
    /\ UNCHANGED <<acStmt, acRows>>

\* The library's answer is read the wrong way round.
MysqlExecute ==
    Plain("execute", "mysql") /\ \E ok \in BOOLEAN : AcReturn(IF ok THEN -2 ELSE 0)
\* A COM error becomes 1.
AdoExecute ==
    Plain("execute", "ado") /\ \E ok \in BOOLEAN : AcReturn(IF ok THEN 0 ELSE 1)

\* mysql_fetch_lengths is asked before a row has been fetched and gives NULL, which is
\* indexed for every column; a statement without a result gives NULL earlier.
MysqlQuery == Plain("query", "mysql") /\ (AcBreak("null") \/ AcReturn(-2))
\* A statement of its own on a connection of its own; what it finds is printed.
AdoQuery == Plain("query", "ado") /\ \E ok \in BOOLEAN : AcReturn(IF ok THEN 0 ELSE -1)

-----------------------------------------------------------------------------
(* The calls with arguments *)

\* Fromat's NULL is given to strlen; a statement as long as strSql runs over it.
Begin(op, sql, types) ==
    /\ AcBegins(op)
    /\ acSql' = sql /\ acTypes' = types
    /\ acResult' = 0
    /\ IF Mismatch(sql, types)
         THEN /\ AcBreak("null") /\ acLive' = {}
              /\ UNCHANGED <<acStmt, acRows>>
         ELSE /\ acText' = Fromat(sql, types)
              /\ acBound' = BoundArgs(sql)
              /\ IF Len(acText') >= DestLen THEN AcBreak("overrun")
                 ELSE acPc' = "init" /\ UNCHANGED <<acRet, acFault>>
              /\ acLive' = IF acDriver = "mysql" THEN {"bind"} ELSE {}
              /\ UNCHANGED acRows

ExecuteArgs(sql, types) == Begin("executeArgs", sql, types)
QueryArgs(sql, types) == Begin("queryArgs", sql, types)

AcStep(op, p) ==
    acDriver = "mysql" /\ acOp = op /\ acPc = p /\ UNCHANGED <<acInput, acStmt>>
Quietly == UNCHANGED <<acRows, acResult>>
Go(p) == acPc' = p /\ UNCHANGED <<acRet, acFault>>

Placeholders == Cardinality(AtMarks(acText, "?"))

\* MysqlAccess::Execute: the answers of mysql_stmt_init and _execute are not looked at,
\* a statement that cannot be prepared is not closed, and mysql_stmt_bind_param reads
\* as many entries as the statement has marks.
ExecuteSteps ==
    /\ AcStep("executeArgs", "init") /\ Quietly
    /\ \/ UNCHANGED acLive /\ AcBreak("null")
       \/ acLive' = acLive \cup {"stmt"} /\ AcReturn(1)
       \/ /\ Placeholders > Len(acBound)
          /\ acLive' = acLive \cup {"stmt"} /\ AcBreak("overrun")
       \/ Placeholders <= Len(acBound) /\ acLive' = acLive \ {"bind"} /\ AcReturn(0)

\* Bug: a statement that cannot be executed leaves by the short way out.
MutantFreesOutput(ret) == ret \in {5, 6, 7, 0}
\* The label "end" gives back the output arrays and the metadata, "NoFreeEnd" does not.
FreesOutput(ret) == ret \in {4, 5, 6, 7, 0}

\* Both labels close the statement; nothing gives pBindParam back.
AcLeave(ret) ==
    /\ acLive' = acLive \ ({"stmt"} \cup IF FreesOutput(ret) THEN {"out", "meta"} ELSE {})
    /\ AcReturn(ret)

\* mysql_stmt_init
StmtInit ==
    /\ AcStep("queryArgs", "init") /\ Quietly
    /\ \/ acLive' = acLive \cup {"stmt"} /\ Go("prepare")
       \/ UNCHANGED acLive /\ AcReturn(-4)

\* mysql_stmt_prepare
Prepare ==
    /\ AcStep("queryArgs", "prepare") /\ Quietly
    /\ (UNCHANGED acLive /\ Go("bind")) \/ AcLeave(1)

\* The numbers are compared after mysql_stmt_bind_param.  A statement without a result
\* has no metadata.
BindParam ==
    /\ AcStep("queryArgs", "bind") /\ Quietly
    /\ \/ Placeholders > Len(acBound) /\ AcBreak("overrun") /\ UNCHANGED acLive
       \/ Placeholders < Len(acBound) /\ AcLeave(2)
       \/ Placeholders = Len(acBound) /\ AcLeave(3)
       \/ /\ Placeholders = Len(acBound)
          /\ acLive' = acLive \cup {"meta", "out"} /\ Go("execute")

\* mysql_stmt_execute
ExecuteStmt ==
    /\ AcStep("queryArgs", "execute") /\ Quietly
    /\ AcLeave(4) \/ (UNCHANGED acLive /\ Go("result"))

\* The columns are described in entry 1 of the array, whichever column it is: with one
\* column that is past its end.  Then mysql_stmt_bind_result and _store_result.
BindResult ==
    /\ AcStep("queryArgs", "result") /\ UNCHANGED acResult
    /\ \/ UNCHANGED <<acLive, acRows>> /\ AcBreak("overrun")
       \/ (AcLeave(5) \/ AcLeave(6)) /\ UNCHANGED acRows
       \/ UNCHANGED acLive /\ acRows' \in 0..MaxRows /\ Go("fetch")

\* A row is fetched, and dropped; one with a NULL where is_null is looked at ends it.
Fetch ==
    /\ AcStep("queryArgs", "fetch")
    /\ UNCHANGED acResult
    /\ \/ acRows > 0 /\ acRows' = acRows - 1 /\ UNCHANGED <<acPc, acLive, acRet, acFault>>
       \/ acRows > 0 /\ AcLeave(7) /\ UNCHANGED acRows
       \/ acRows = 0 /\ AcLeave(0) /\ UNCHANGED acRows

\* AdoAccess: smart pointers hold everything.  A blob that cannot be copied throws a
\* string.
BlobBound == \E k \in DOMAIN acBound : acTypes[acBound[k]] = "blob"
AdoStep(op, p) ==
    acDriver = "ado" /\ acOp = op /\ acPc = p /\ UNCHANGED <<acInput, acStmt, acLive>>

\* Execute catches COM errors only.
AdoExecuteArgs ==
    /\ AdoStep("executeArgs", "init") /\ Quietly
    /\ AcReturn(0) \/ AcReturn(1) \/ (BlobBound /\ AcBreak("throw"))

\* Query catches and forgets everything, and finds in the next block that there is no
\* result.
AdoQueryArgs ==
    /\ AdoStep("queryArgs", "init") /\ UNCHANGED acResult
    /\ (AcReturn(1) /\ UNCHANGED acRows) \/ (Go("fetch") /\ acRows' \in 0..MaxRows)

\* One row: an empty column ends the call with 0, an unreadable one with 1.
AdoFetch ==
    /\ AdoStep("queryArgs", "fetch")
    /\ \/ /\ acRows > 0 /\ acRows' = acRows - 1 /\ acResult' = acResult + 1
          /\ UNCHANGED <<acPc, acRet, acFault>>
       \/ acRows > 0 /\ AcReturn(0) /\ Quietly
       \/ acRows > 0 /\ AcReturn(1) /\ Quietly
       \/ acRows = 0 /\ AcReturn(0) /\ Quietly

\* Short texts, and one that does not fit.
Texts == UNION {[1..n -> {"?", "%", "x"}] : n \in 0..MaxText} \cup {[i \in 1..(DestLen + 1) |-> "x"]}
TypeLists == UNION {[1..n -> ArgKinds] : n \in 0..MaxArgs}

AcNext ==
    \/ MysqlExecute \/ MysqlQuery \/ AdoExecute \/ AdoQuery
    \/ \E sql \in Texts, types \in TypeLists : ExecuteArgs(sql, types) \/ QueryArgs(sql, types)
    \/ ExecuteSteps
    \/ StmtInit \/ Prepare \/ BindParam \/ ExecuteStmt \/ BindResult \/ Fetch
    \/ AdoExecuteArgs \/ AdoQueryArgs \/ AdoFetch

AcSpec == AcInit /\ [][AcNext]_acVars

-----------------------------------------------------------------------------
(* Properties *)

AcTypeOK ==
    /\ acPc \in {"idle", "init", "prepare", "bind", "execute", "result", "fetch"}
    /\ acLive \subseteq {"bind", "stmt", "meta", "out"}
    /\ acRows \in 0..MaxRows /\ acResult \in 0..MaxRows /\ acRet \in -4..7

\* What the text means: each "%" is its argument, in the order of the marks.
Meaning(sql, types) ==
    LET nth(p) == Cardinality({q \in 1..p : sql[q] \in {"?", "%"}})
    IN  FlattenSeq([p \in DOMAIN sql |->
            IF sql[p] = "%" THEN Printed(types, nth(p)) ELSE <<sql[p]>>])

\* DBAccess::Fromat (DBAccess.cpp:51-164) cuts the text into pieces and prints each one;
\* the drivers bind what is left.  Together they put every argument where the caller
\* wrote its mark, whatever the mix of "?" and "%", unless a blob stands at a "%".
FormatInOrder ==
    (acPc = "init" /\ \A i \in DOMAIN acTypes : acTypes[i] = "blob" => i \in Range(acBound))
    => /\ acText = Meaning(acSql, acTypes)
       /\ \A k \in DOMAIN acBound :
             Cardinality({p \in 1..Ascending(AtMarks(acSql, "?"))[k] :
                             acSql[p] \in {"?", "%"}}) = acBound[k]

\* MysqlAccess (49-118, 197-402): however a call ends, the statement, its metadata and
\* the output arrays are given back, once.  Known leaks: Execute keeps a statement that
\* could not be prepared, and nobody gives back the array of a failed call or of Query.
StatementsClosed ==
    /\ acPc = "idle" /\ acFault = "none" =>
          acLive \subseteq IF acOp = "executeArgs" /\ acRet = 1 THEN {"bind", "stmt"} ELSE {"bind"}
    /\ acDriver = "mysql" /\ acPc \in {"execute", "result", "fetch"} /\ acOp = "queryArgs" =>
          {"stmt", "meta", "out"} \subseteq acLive
=============================================================================
