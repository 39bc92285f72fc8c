---------------------------- MODULE MCThreadPool ----------------------------
(* Instances of ThreadPool for TLC: a read task and two write tasks of one   *)
(* socket, the use the asynchronous server makes of the pool.                *)
EXTENDS ThreadPool, TLC
CONSTANTS rd, wr1, wr2, Read, Write

MCTypeOf == [t \in Tasks |-> IF t = rd THEN Read ELSE Write]
MCKeyOf  == [t \in Tasks |-> 1]

\* Settings made for good are those of AsyncServer.cpp (lines 38 and 39) or some of them,
\* with or without a comparison function.  Settings made at any moment turn the priority
\* and the merging of writes on and off.
MCSettings ==
    IF fixed
      THEN maxType' \in {NoType, Read} /\ mergeType' \in {NoType, Write}
      ELSE maxType' \in {NoType, Write} /\ mergeType' \in {NoType, Write} /\ ~ cmp'

MCSpec == Init /\ [][Next /\ MCSettings]_vars

\* All tasks of the liveness run are of one type and do the same work, so a comparison
\* function makes no difference and is not set.
MCFairInit == Init /\ fixed

MCFairSpec == MCFairInit /\ [][Next /\ MCSettings /\ ~ cmp']_vars /\ Fairness

\* Threads of one kind are interchangeable (safety runs only).
MCSymmetry == Permutations(Workers) \cup Permutations(Clients)

\* Answering (run, lines 65 and 66): under fair threads a queued job is processed and a
\* synchronous submitter gets its done().
RequestsServed == JobServed /\ SubmitReturns
=============================================================================
