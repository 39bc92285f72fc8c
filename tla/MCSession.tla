------------------------------ MODULE MCSession ------------------------------
(* The two halves of a connection, one of them in each behaviour.  The       *)
(* streams received: packages of one frame; packages without data; packages  *)
(* of two frames; packages that share a time stamp.                          *)
EXTENDS RecvPath

VARIABLE part           \* which one runs

Rising(lens) == [i \in DOMAIN lens |-> [ts |-> i, len |-> lens[i]]]

MCStreams ==
    {Rising(<<1, 1, 1, 1, 1, 1, 1, 1>>), Rising(<<1, 2, 1, 2, 1, 2>>), Rising(<<1, 0, 2, 0, 1>>),
     Rising(<<1, 6, 1, 5>>),
     [i \in 1..8 |-> [ts |-> IF i < 3 THEN 9 ELSE i - 2, len |-> 1]]}

MCOneFrame == {Rising(<<1, 1, 1, 1>>)}

MCInit == SdInit /\ RvInit /\ part \in {"send", "recv"}
          /\ (part = "send" => rvFrames = FramesOf(CHOOSE s \in Streams : TRUE))

MCNext ==
    /\ \/ part = "send" /\ SdNext /\ UNCHANGED rvVars
       \/ part = "recv" /\ RvNext /\ UNCHANGED sdVars
    /\ UNCHANGED part

MCFair ==
    /\ WF_<<sdVars, part>>(part = "send" /\ Pack /\ UNCHANGED <<rvVars, part>>)
    /\ WF_<<sdVars, part>>(part = "send" /\ (\E n \in 1..SendCap : NoticeComplateSend(n))
                           /\ UNCHANGED <<rvVars, part>>)

MCSpec == MCInit /\ [][MCNext]_<<sdVars, rvVars, part>> /\ MCFair

\* Both halves' variables keep their types.
SessionTypeOK == SdTypeOK /\ RvTypeOK
=============================================================================
