------------------------------ MODULE SendPath ------------------------------
(***************************************************************************)
(* The sending half of a connection: SocketSession's queue and send        *)
(* buffers with PackageProxy::Packaging (Net/DataHandle.h) and             *)
(* PackPerData.  A package becomes one or more transfer frames, each a     *)
(* header of Hdr bytes and data; the frames are laid one after the other   *)
(* into the send buffers and may be cut at a buffer's end, in the data or  *)
(* in the header.  The buffers are posted one at a time; the socket may    *)
(* take any part of what was posted.  A byte is its place in the stream    *)
(* that the frames of all packages, in the order they were sent, make up.  *)
(***************************************************************************)
EXTENDS Integers, Sequences, FiniteSets

CONSTANTS
    Hdr,        \* sizeof(Msg): 24 in the code
    SendCap,    \* PERIOPOSTSIZE: 4096
    Trans,      \* TRANSFRAME: 1024
    NSend,      \* send buffers: 2
    PkgLens,    \* the lengths of the packages sent
    MaxPkgs     \* bound: packages sent

ASSUME SendAssumption ==
    /\ Hdr \in Nat \ {0} /\ SendCap \in Nat /\ Hdr < SendCap /\ Trans \in Nat /\ Hdr < Trans
    /\ Trans <= SendCap
    /\ NSend \in Nat \ {0} /\ PkgLens \subseteq Nat /\ MaxPkgs \in Nat

VARIABLES
    sdQueue,    \* m_sendQueue: packages [at, len], at: where the package's frames start
    sdSent,     \* how many packages SendNetPackage has been given
    sdEnd,      \* how many bytes the frames of these packages are
    sdBufs,     \* what Packaging wrote into each send buffer
    sdValid,    \* m_nValidLen of each send buffer
    sdPost,     \* m_wPostIndex + 1
    sdCount,    \* m_nWriteCount
    sdFinish,   \* m_finishW
    sdReq,      \* the send the socket works on: buffer and bytes done; buffer 0: none
    sdPack,     \* Packaging's locals: package, frame, fIndex + 1, nOffset, totalSend; package 0: not running
    sdTaken,    \* how many packages PostSend has removed from the queue
    sdWire,     \* the bytes given to the network
    sdFault     \* "ok", or what went wrong in Packaging

sdVars == <<sdQueue, sdSent, sdEnd, sdBufs, sdValid, sdPost, sdCount, sdFinish, sdReq,
            sdPack, sdTaken, sdWire, sdFault>>
sdRound == <<sdPost, sdCount, sdFinish, sdReq>>

NoReq == [buf |-> 0, done |-> 0]
NotPacking == [pkg |-> 0, frame |-> 0, fi |-> 1, off |-> 0, total |-> 0]

SdInit ==
    /\ sdQueue = <<>> /\ sdSent = 0 /\ sdEnd = 0
    /\ sdBufs = [i \in 1..NSend |-> <<>>] /\ sdValid = [i \in 1..NSend |-> 0]
    /\ sdPost = 1 /\ sdCount = 0 /\ sdFinish = 1 /\ sdReq = NoReq /\ sdPack = NotPacking
    /\ sdTaken = 0 /\ sdWire = <<>> /\ sdFault = "ok"

\* A package's transfer frames: how many, how long each, and where each starts.
Room == Trans - Hdr
TotalFrames(len) == IF len = 0 THEN 1 ELSE (len + Room - 1) \div Room
FrameLen(len, f) == Hdr + (IF f < TotalFrames(len) THEN Room ELSE len - (f - 1) * Room)
FrameAt(p, f) == p.at + (f - 1) * Trans
Bytes(from, n) == [k \in 1..n |-> from + k - 1]

\* SendNetPackage, under m_wlock
Send(len) ==
    /\ sdSent < MaxPkgs /\ sdPack.pkg = 0 /\ sdFault = "ok"
    /\ sdSent' = sdSent + 1
    /\ sdQueue' = Append(sdQueue, [at |-> sdEnd + 1, len |-> len])
    /\ sdEnd' = sdEnd + TotalFrames(len) * Hdr + len
    /\ UNCHANGED <<sdRound, sdBufs, sdValid, sdPack, sdTaken, sdWire, sdFault>>

-----------------------------------------------------------------------------
(* PostSend and Packaging, under m_wlock: one step per frame *)

\* PostSend when the last round is over: the send buffers are emptied.
PostSend ==
    /\ sdFault = "ok" /\ sdFinish = 1 /\ sdQueue # <<>> /\ sdPack.pkg = 0
    /\ sdBufs' = [i \in 1..NSend |-> <<>>] /\ sdValid' = [i \in 1..NSend |-> 0]
    /\ sdPack' = [pkg |-> 1, frame |-> 1, fi |-> 1, off |-> 0, total |-> 0]
    /\ UNCHANGED <<sdQueue, sdSent, sdEnd, sdRound, sdTaken, sdWire, sdFault>>

\* Data and headers, one header counted for each package, must fit into the send buffers.
PkgFits(i) == sdPack.total + sdQueue[i].len + i * Hdr <= NSend * SendCap

Packing ==
    /\ sdFault = "ok" /\ sdPack.pkg \in 1..Len(sdQueue)
    /\ sdPack.frame = 1 => PkgFits(sdPack.pkg)

CurPkg == sdQueue[sdPack.pkg]
CurLen == FrameLen(CurPkg.len, sdPack.frame)
CurAt == FrameAt(CurPkg, sdPack.frame)
Avail == SendCap - sdPack.off

\* The loop counters after the frame: fIndex + 1 and nOffset as given.
NextFrame(fi, off) ==
    LET last == sdPack.frame = TotalFrames(CurPkg.len)
    IN  [pkg |-> IF last THEN sdPack.pkg + 1 ELSE sdPack.pkg,
         frame |-> IF last THEN 1 ELSE sdPack.frame + 1, fi |-> fi, off |-> off,
         total |-> IF last THEN sdPack.total + CurPkg.len ELSE sdPack.total]

\* BuildPackage, the frame fits.  A frame that fills the buffer moves on to the next one
\* at once, also when there is none.
FrameFits ==
    /\ Packing /\ CurLen <= Avail
    /\ sdBufs' = [sdBufs EXCEPT ![sdPack.fi] = @ \o Bytes(CurAt, CurLen)]
    /\ sdValid' = [sdValid EXCEPT ![sdPack.fi] = sdPack.off + CurLen]
    /\ sdPack' = IF CurLen < Avail THEN NextFrame(sdPack.fi, sdPack.off + CurLen)
                 ELSE NextFrame(sdPack.fi + 1, 0)
    /\ sdFault' = IF CurLen = Avail /\ sdPack.fi = NSend THEN "beyond" ELSE "ok"
    /\ UNCHANGED <<sdQueue, sdSent, sdEnd, sdRound, sdTaken, sdWire>>

\* nOffset after a header was cut at the end of the buffer: the bytes of data behind it.
OffAfterCut == CurLen - Hdr

\* BuildPackage, the frame is cut.  For a cut in the data there must be another buffer;
\* for one in the header nobody looks.
FrameCut ==
    /\ Packing /\ CurLen > Avail
    /\ IF sdPack.fi = NSend
         THEN /\ sdFault' = IF Hdr <= Avail THEN "throw" ELSE "beyond"
              /\ UNCHANGED <<sdBufs, sdValid, sdPack>>
         ELSE /\ sdBufs' = [sdBufs EXCEPT ![sdPack.fi] = @ \o Bytes(CurAt, Avail),
                                          ![sdPack.fi + 1] = Bytes(CurAt + Avail, CurLen - Avail)]
              /\ sdValid' = [sdValid EXCEPT ![sdPack.fi] = SendCap, ![sdPack.fi + 1] = CurLen - Avail]
              /\ sdPack' = NextFrame(sdPack.fi + 1, IF Hdr <= Avail THEN CurLen - Avail ELSE OffAfterCut)
              /\ UNCHANGED sdFault
    /\ UNCHANGED <<sdQueue, sdSent, sdEnd, sdRound, sdTaken, sdWire>>

\* PackPerData::PostSend: nothing is posted for an empty buffer.
Posted(i, valid) == IF valid[i] > 0 THEN [buf |-> i, done |-> 0] ELSE NoReq

\* m_nValidLen of the buffers posted, when Packaging ends because a package does not fit.
Trimmed(stopped) == IF stopped /\ sdPack.off > 0 THEN [sdValid EXCEPT ![sdPack.fi] = sdPack.off]
                    ELSE sdValid

\* The round stays whole when every buffer counts all its bytes and none is empty.
Verdict(valid) ==
    IF \E i \in 1..sdPack.fi : valid[i] # Len(sdBufs[i]) THEN "short"
    ELSE IF valid[sdPack.fi] = 0 THEN "empty" ELSE "ok"

\* Packaging's result: the packages before the one that does not fit.
MutantPopped(queue, n) == SubSeq(queue, IF n > 1 THEN n ELSE n + 1, Len(queue))
Popped(queue, n) == SubSeq(queue, n + 1, Len(queue))

\* Packaging is over and PostSend posts the first buffer.  A first package that does not
\* fit makes Packaging start again with one more buffer, which it forgets: endless.
PackingEnds ==
    LET n == sdPack.pkg - 1
        valid == Trimmed(n < Len(sdQueue))
    IN  /\ sdFault = "ok" /\ sdPack.pkg > 0 /\ sdPack.frame = 1
        /\ sdPack.pkg \in 1..Len(sdQueue) => ~PkgFits(sdPack.pkg)
        /\ IF n = 0
             THEN sdFault' = "endless" /\ UNCHANGED <<sdQueue, sdTaken, sdValid, sdRound, sdPack>>
             ELSE /\ sdFault' = Verdict(valid)
                  /\ sdQueue' = Popped(sdQueue, n) /\ sdTaken' = sdTaken + n
                  /\ sdValid' = valid /\ sdPost' = 1 /\ sdCount' = sdPack.fi /\ sdFinish' = 0
                  /\ sdReq' = Posted(1, valid) /\ sdPack' = NotPacking
        /\ UNCHANGED <<sdSent, sdEnd, sdBufs, sdWire>>

-----------------------------------------------------------------------------
(* The completions *)

\* RecordSendData: where the next post starts when the socket took n bytes more.
MutantResume(done, n) == n
Resume(done, n) == done + n

\* NoticeComplateSend: the buffer was the last one of the round.
MutantLastBuffer == sdPost = NSend
LastBuffer == sdPost = sdCount

\* The socket takes n bytes of what is posted; NoticeComplateSend posts the rest, the
\* next buffer, or declares the round finished.
NoticeComplateSend(n) ==
    LET b == sdReq.buf
        at == Resume(sdReq.done, n)
    IN  /\ b # 0 /\ sdReq.done + n <= sdValid[b]
        /\ sdWire' = sdWire \o SubSeq(sdBufs[b], sdReq.done + 1, sdReq.done + n)
        /\ IF at < sdValid[b]
             THEN /\ sdReq' = [sdReq EXCEPT !.done = at]
                  /\ UNCHANGED <<sdValid, sdPost, sdCount, sdFinish>>
             ELSE /\ sdValid' = [sdValid EXCEPT ![b] = 0]
                  /\ IF LastBuffer
                       THEN sdPost' = 1 /\ sdCount' = 0 /\ sdFinish' = 1 /\ sdReq' = NoReq
                       ELSE /\ sdPost' = sdPost + 1 /\ sdReq' = Posted(sdPost + 1, sdValid)
                            /\ UNCHANGED <<sdCount, sdFinish>>
        /\ UNCHANGED <<sdQueue, sdSent, sdEnd, sdBufs, sdPack, sdTaken, sdFault>>

Pack == PostSend \/ FrameFits \/ FrameCut \/ PackingEnds

SdNext ==
    \/ Pack
    \/ \E len \in PkgLens : Send(len)
    \/ \E n \in 1..SendCap : NoticeComplateSend(n)

\* The balance thread calls PostSend in every round, and the socket takes bytes.
SdFair == WF_sdVars(Pack) /\ WF_sdVars(\E n \in 1..SendCap : NoticeComplateSend(n))
SdSpec == SdInit /\ [][SdNext]_sdVars /\ SdFair

-----------------------------------------------------------------------------
(* Properties *)

SdTypeOK ==
    /\ sdFinish \in {0, 1} /\ sdCount \in 0..NSend /\ sdPost \in 1..NSend
    /\ sdReq \in [buf : 0..NSend, done : 0..SendCap]
    /\ sdFault \in {"ok", "beyond", "throw", "endless", "short", "empty"}

\* The bytes of the frames of the packages removed from the queue.
TakenBytes == (IF sdQueue = <<>> THEN sdEnd ELSE sdQueue[1].at - 1)

\* What is on the wire is the stream of the frames of the packages taken from the queue,
\* in order, each byte once, over partial sends, frames cut at the end of a buffer and
\* packages that share a buffer; and when a round is over (m_finishW) all of it is there.
WireIsFraming ==
    sdFault \in {"ok", "empty"} =>
        /\ Len(sdWire) <= TakenBytes
        /\ \A k \in DOMAIN sdWire : sdWire[k] = k
        /\ sdFinish = 1 => Len(sdWire) = TakenBytes

\* Every package given to SendNetPackage is taken from the queue and sent in a round of its
\* own or with others, unless Packaging fails: no round waits for a completion nobody delivers.
AllTaken == \A i \in 1..MaxPkgs : sdSent = i ~> (sdFault # "ok" \/ (sdTaken >= i /\ sdFinish = 1))
=============================================================================
