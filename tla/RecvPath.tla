------------------------------ MODULE RecvPath ------------------------------
(***************************************************************************)
(* The receiving half of a connection: SocketSession::ParseData over the   *)
(* receive buffers (PackPerData).  The socket fills the one buffer that is *)
(* posted with any number of bytes; ParseData cuts them into frames, joins *)
(* a frame cut at the end of one completion with the start of the next     *)
(* one, collects the frames of a package under its timestamp, hands        *)
(* complete packages over and posts the next buffer.  A byte is its place  *)
(* in the stream; the frames in m_mapFrames are addresses in the buffers   *)
(* and are read when the package is handed over.  ParseData holds          *)
(* m_recvLock throughout; the socket does not.                             *)
(***************************************************************************)
EXTENDS SendPath, SequencesExt, Maps

CONSTANTS
    RecvCap,    \* PERIOPOSTSIZE: 4096
    NRecv,      \* receive buffers: 4
    Streams     \* what the peer may send: sequences of packages [ts, len]

ASSUME RecvAssumption == RecvCap \in Nat /\ Hdr < RecvCap /\ NRecv \in Nat \ {0}

VARIABLES
    rvFrames,   \* the frames on the wire, in order
    rvRead,     \* how many bytes the socket has delivered
    rvReq,      \* the receive that is posted; got > 0: completed, in m_perIoDatas
    rvBuf,      \* the receive buffers: content, m_nExtendLen, m_pExtendStart, m_isFinish, m_pPrevPerData
    rvMap,      \* m_mapFrames
    rvPost,     \* m_rPostIndex
    rvCur,      \* ParseData's locals
    rvPc,       \* where ParseData is
    rvOut,      \* what was put into m_recvQueue
    rvFault     \* "ok", or the exception

rvVars == <<rvFrames, rvRead, rvReq, rvBuf, rvMap, rvPost, rvCur, rvPc, rvOut, rvFault>>

None == -1          \* no buffer, no place
Bufs == 0..(NRecv - 1)

\* The frames of the packages ps, laid one after the other.
FramesOf(ps) ==
    LET Ends[i \in 0..Len(ps)] == IF i = 0 THEN 0
                                  ELSE Ends[i - 1] + TotalFrames(ps[i].len) * Hdr + ps[i].len
        Of(i) == [f \in 1..TotalFrames(ps[i].len) |->
                    [ts |-> ps[i].ts, pkg |-> i, total |-> TotalFrames(ps[i].len), pkgLen |-> ps[i].len,
                     at |-> Ends[i - 1] + 1 + (f - 1) * Trans, len |-> FrameLen(ps[i].len, f)]]
    IN  FlattenSeq([i \in 1..Len(ps) |-> Of(i)])

EndOf(j) == rvFrames[j].at + rvFrames[j].len - 1
StreamLen == EndOf(Len(rvFrames))

Request(i, pos, len, prev) == [buf |-> i, pos |-> pos, len |-> len, prev |-> prev, got |-> 0]
NoRecv == Request(None, 0, 0, None)

NoLocals == [req |-> NoRecv, len |-> 0, ret |-> 0, prevDone |-> FALSE, ts |-> 0, finish |-> FALSE,
             ready |-> {}]

RvInit ==
    /\ rvFrames \in {FramesOf(ps) : ps \in Streams} /\ rvRead = 0
    /\ rvReq = Request(0, 0, RecvCap, None)     \* the first PostRecv, when the client was accepted
    /\ rvBuf = [i \in Bufs |-> [d |-> [k \in 1..RecvCap |-> 0], ext |-> 0, start |-> None,
                                fin |-> FALSE, prev |-> None]]
    /\ rvMap = EmptyMap /\ rvPost = 0 /\ rvPc = "idle" /\ rvOut = <<>> /\ rvFault = "ok"
    /\ rvCur = NoLocals

\* d with s written at offset off, and the n bytes of d at offset off.
Over(d, off, s) == [k \in DOMAIN d |-> IF k - off \in 1..Len(s) THEN s[k - off] ELSE d[k]]
Part(d, off, n) == SubSeq(d, off + 1, off + n)

\* The frame whose header lies at offset off of d; 0: no header is there.
HeaderAt(d, off) ==
    LET js == {j \in DOMAIN rvFrames : /\ off + Hdr <= Len(d)
                                       /\ Part(d, off, Hdr) = Bytes(rvFrames[j].at, Hdr)}
    IN  IF js = {} THEN 0 ELSE CHOOSE j \in js : TRUE

\* The socket completes the request with n bytes.
Arrive(n) ==
    /\ rvReq.buf # None /\ rvReq.got = 0 /\ rvFault = "ok"
    /\ n <= rvReq.len /\ rvRead + n <= StreamLen
    /\ rvBuf' = [rvBuf EXCEPT ![rvReq.buf].d = Over(@, rvReq.pos, Bytes(rvRead + 1, n))]
    /\ rvRead' = rvRead + n /\ rvReq' = [rvReq EXCEPT !.got = n]
    /\ UNCHANGED <<rvFrames, rvMap, rvPost, rvCur, rvPc, rvOut, rvFault>>

-----------------------------------------------------------------------------
(* RecvData *)

\* MoveExtendData: the bytes behind the complete frames go to the start of the buffer.
MoveExtendData(b) == IF b.start = None THEN b.d ELSE Over(b.d, 0, Part(b.d, b.start, b.ext))

HasPrev == rvReq.prev # None /\ rvBuf[rvReq.prev].ext > 0

\* ParseData takes a completion; what the previous buffer lacks of its last frame is
\* taken from the start of this one.  A completion of at most a header goes to the
\* previous buffer as it is, also when that needs less.
Wanted(head, ext, n) == IF n > Hdr THEN rvFrames[head].len - ext ELSE n

MergePrev ==
    /\ rvPc = "idle" /\ rvReq.got > 0 /\ HasPrev /\ rvFault = "ok"
    /\ LET p == rvReq.prev
           n == rvReq.got
           cur == rvBuf[rvReq.buf].d
           ext == rvBuf[p].ext
           moved == MoveExtendData(rvBuf[p])
           head == HeaderAt(Over(moved, ext, Part(cur, 0, IF ext < Hdr THEN Hdr - ext ELSE 0)), 0)
       IN  \E take \in {Min({n, Wanted(head, ext, n)})} :
           \E d \in {Over(moved, ext, Part(cur, 0, take))} :
           \E done \in {HeaderAt(d, 0) # 0 /\ ext + take = rvFrames[HeaderAt(d, 0)].len} :
             /\ rvBuf' = [rvBuf EXCEPT
                   ![p] = [@ EXCEPT !.d = d, !.start = None, !.fin = IF done THEN TRUE ELSE @,
                                    !.ext = IF done THEN 0 ELSE ext + take],
                   ![rvReq.buf].d = Over(@, 0, Part(cur, take, n - take))]
             /\ rvCur' = [NoLocals EXCEPT !.req = rvReq, !.len = n - take, !.prevDone = done]
    /\ rvReq' = NoRecv /\ rvPc' = "data"
    /\ UNCHANGED <<rvFrames, rvRead, rvMap, rvPost, rvOut, rvFault>>

NoPrev ==
    /\ rvPc = "idle" /\ rvReq.got > 0 /\ ~HasPrev /\ rvFault = "ok"
    /\ rvCur' = [NoLocals EXCEPT !.req = rvReq, !.len = rvReq.got]
    /\ rvReq' = NoRecv /\ rvPc' = "data"
    /\ UNCHANGED <<rvFrames, rvRead, rvBuf, rvMap, rvPost, rvOut, rvFault>>

\* RecvData's second half: nothing left; at most a header (and no new request); a frame
\* that is complete; a frame to wait for, for which the missing bytes are requested.
RecvData ==
    LET i == rvCur.req.buf
        fill == rvCur.req.pos + rvCur.len
        head == HeaderAt(rvBuf[i].d, 0)
    IN  /\ rvPc = "data" /\ rvPc' = "frames"
        /\ \/ rvCur.len = 0 /\ rvCur' = [rvCur EXCEPT !.ret = -3] /\ UNCHANGED <<rvBuf, rvReq>>
           \/ rvCur.len > 0 /\ fill <= Hdr /\ rvCur' = [rvCur EXCEPT !.ret = 1]
              /\ UNCHANGED <<rvBuf, rvReq>>
           \/ /\ rvCur.len > 0 /\ fill > Hdr /\ head # 0 /\ rvFrames[head].len <= fill
              /\ rvBuf' = [rvBuf EXCEPT ![i] = [@ EXCEPT !.fin = TRUE, !.start = rvFrames[head].len,
                     !.ext = IF rvCur.len > rvFrames[head].len THEN rvCur.len - rvFrames[head].len ELSE @]]
              /\ rvCur' = [rvCur EXCEPT !.ret = 0] /\ UNCHANGED rvReq
           \/ /\ rvCur.len > 0 /\ fill > Hdr /\ head # 0 /\ rvFrames[head].len > fill
              /\ rvReq' = Request(i, fill, rvFrames[head].len - fill, rvCur.req.prev)
              /\ rvCur' = [rvCur EXCEPT !.ret = 2] /\ UNCHANGED rvBuf
        /\ UNCHANGED <<rvFrames, rvRead, rvMap, rvPost, rvOut, rvFault>>

-----------------------------------------------------------------------------
(* ParseData after RecvData *)

Frame(i, off) == [buf |-> i, off |-> off, idx |-> i]

\* GetOtherFrameCount: the complete frames behind the one at the start of the buffer.
MutantOthers(head, ext) ==
    {j \in DOMAIN rvFrames : j > head /\ EndOf(j - 1) - EndOf(head) + Hdr < ext}
Others(head, ext) ==
    {j \in DOMAIN rvFrames : j > head /\ EndOf(j) - EndOf(head) <= ext
                                      /\ EndOf(j - 1) - EndOf(head) + Hdr < ext}

\* m_mapFrames with the frames fs, given with their timestamps, appended.
FramesPushed(map, fs) ==
    [t \in DOMAIN map \cup {fs[k].ts : k \in DOMAIN fs} |->
        (IF t \in DOMAIN map THEN map[t] ELSE <<>>)
          \o [k \in 1..Len(SelectSeq(fs, LAMBDA f : f.ts = t)) |-> SelectSeq(fs, LAMBDA f : f.ts = t)[k].frame]]

\* The frame the previous buffer now holds, if it was completed.
PrevFrames ==
    LET p == rvBuf[rvCur.req.buf].prev
    IN  IF rvCur.prevDone /\ p # None
        THEN <<[ts |-> rvFrames[HeaderAt(rvBuf[p].d, 0)].ts, frame |-> Frame(p, 0)]>> ELSE <<>>

\* The complete frames in this buffer, if the first one is complete.
HereDone == rvCur.ret >= 0 /\ rvBuf[rvCur.req.buf].fin
HereFrames ==
    LET i == rvCur.req.buf
        head == HeaderAt(rvBuf[i].d, 0)
        n == Cardinality(Others(head, rvBuf[i].ext))
    IN  IF HereDone
        THEN [k \in 1..(n + 1) |->
                [ts |-> rvFrames[head + k - 1].ts,
                 frame |-> Frame(i, rvFrames[head + k - 1].at - rvFrames[head].at)]]
        ELSE <<>>

\* m_isFinish is set in a buffer whose last frame was joined from two completions, and
\* nobody clears it before the buffer is posted again: what has come of the next frame
\* is then taken for all of it.
Unreceived == HereDone /\ rvCur.ret # 0

TakeUnreceived ==
    /\ rvPc = "frames" /\ Unreceived /\ rvFault = "ok" /\ rvFault' = "unreceived"
    /\ UNCHANGED <<rvFrames, rvRead, rvReq, rvBuf, rvMap, rvPost, rvCur, rvPc, rvOut>>

TakeFrames ==
    LET i == rvCur.req.buf
    IN  /\ rvPc = "frames" /\ ~Unreceived
        /\ \E new \in {PrevFrames \o HereFrames} :
             IF new = <<>> THEN rvPc' = "idle" /\ UNCHANGED <<rvMap, rvCur, rvBuf>>
             ELSE /\ rvMap' = FramesPushed(rvMap, new)
                  /\ rvCur' = [rvCur EXCEPT !.ts = Last(new).ts]
                  /\ rvPc' = "next"
                  /\ IF ~HereDone THEN UNCHANGED rvBuf
                     ELSE \E taken \in {Last(new).frame.off
                                        + rvFrames[HeaderAt(rvBuf[i].d, Last(new).frame.off)].len} :
                          rvBuf' = [rvBuf EXCEPT ![i] = [@ EXCEPT !.fin = FALSE, !.start = taken,
                                        !.ext = @ - (taken - rvBuf[i].start)]]
        /\ UNCHANGED <<rvFrames, rvRead, rvReq, rvPost, rvOut, rvFault>>

\* What the header a frame refers to says now.
HeaderOf(f) == HeaderAt(rvBuf[f.buf].d, f.off)
StampOk(t, f) == HeaderOf(f) # 0 /\ rvFrames[HeaderOf(f)].ts = t
TotalOf(t) == rvFrames[HeaderOf(rvMap[t][1])].total
Complete(t) == Len(rvMap[t]) = TotalOf(t)

\* PackPerData::PostRecv
PostBuffer(i, prev) ==
    /\ rvReq' = Request(i, 0, RecvCap, prev)
    /\ rvBuf' = [rvBuf EXCEPT ![i] = [@ EXCEPT !.ext = 0, !.prev = prev]]

\* The package of the last frame is incomplete: the next buffer is posted.  After the
\* last buffer the one behind the package's first frame is next, or again the last one.
ByIndex(fs) == SortSeq(fs, LAMBDA f, g : f.idx < g.idx)
NextPost(fs) ==
    IF rvPost + 1 < NRecv THEN rvPost + 1
    ELSE IF fs[1].idx > 0 THEN rvCur.req.buf - fs[1].idx + 1
    ELSE rvPost

\* A frame joined from two completions, and the request still open for the one after it.
MutantJoinedOnly == rvCur.prevDone
JoinedOnly == rvCur.prevDone /\ rvCur.ret > 0

PostOrFinish ==
    LET t == rvCur.ts
        i == rvCur.req.buf
    IN  /\ rvPc = "next" /\ rvPc' = "check"
        /\ \/ /\ JoinedOnly
              /\ UNCHANGED <<rvMap, rvReq, rvBuf, rvPost, rvCur, rvFault>>
           \/ /\ ~JoinedOnly /\ HeaderOf(rvMap[t][1]) # 0 /\ Len(rvMap[t]) < TotalOf(t)
              /\ \E fs \in {ByIndex(rvMap[t])} : \E next \in {NextPost(fs)} :
                   /\ rvMap' = [rvMap EXCEPT ![t] = fs] /\ rvPost' = next
                   /\ PostBuffer(next, IF rvBuf[i].ext > 0 THEN i ELSE None)
              /\ UNCHANGED <<rvCur, rvFault>>
           \/ /\ ~JoinedOnly /\ HeaderOf(rvMap[t][1]) # 0 /\ Len(rvMap[t]) >= TotalOf(t)
              /\ rvCur' = [rvCur EXCEPT !.finish = TRUE] /\ rvPost' = 0
              /\ UNCHANGED <<rvMap, rvReq, rvBuf, rvFault>>
           \/ /\ ~JoinedOnly /\ HeaderOf(rvMap[t][1]) = 0
              /\ rvFault' = "overwritten"
              /\ UNCHANGED <<rvMap, rvReq, rvBuf, rvPost, rvCur>>
        /\ UNCHANGED <<rvFrames, rvRead, rvOut>>

\* The search for a complete package, in the order of the timestamps; it throws when a
\* frame no longer has the timestamp it was collected under.
Stamped(t) == \A k \in DOMAIN rvMap[t] : StampOk(t, rvMap[t][k])
StampsOk == \A t \in DOMAIN rvMap :
                Stamped(t) \/ \E u \in DOMAIN rvMap : u < t /\ Stamped(u) /\ Complete(u)

Search ==
    /\ rvPc = "check" /\ rvFault = "ok"
    /\ rvFault' = IF StampsOk THEN "ok" ELSE "throw"
    /\ rvCur' = [rvCur EXCEPT !.ready = {t \in DOMAIN rvMap : Stamped(t) /\ Complete(t)}]
    /\ rvPc' = IF StampsOk /\ rvCur'.ready # {} THEN "deliver" ELSE "idle"
    /\ UNCHANGED <<rvFrames, rvRead, rvReq, rvBuf, rvMap, rvPost, rvOut>>

\* setMsgFrames: the data of a package's frames, in the order they were collected.
Assembled(fs) ==
    FlattenSeq([k \in DOMAIN fs |->
        Part(rvBuf[fs[k].buf].d, fs[k].off + Hdr, rvFrames[HeaderOf(fs[k])].len - Hdr)])

\* Packages without data, or whose data has not the length announced, are dropped.
Handed(ts) ==
    LET all == [k \in DOMAIN ts |-> [data |-> Assembled(rvMap[ts[k]]),
                                     len |-> rvFrames[HeaderOf(rvMap[ts[k]][1])].pkgLen]]
    IN  SelectSeq(all, LAMBDA p : p.len > 0 /\ Len(p.data) = p.len)

\* The buffer after the first one that holds a part of a frame; after the last buffer,
\* counted from the buffer of the next package's first frame (or the last one's last).
FirstExt == IF \E i \in Bufs : rvBuf[i].ext > 0
            THEN CHOOSE i \in Bufs : rvBuf[i].ext > 0 /\ \A j \in 0..(i - 1) : rvBuf[j].ext = 0
            ELSE None

LastIndex(t) ==
    LET later == {u \in DOMAIN rvMap : u > t}
    IN  IF later # {} THEN ByIndex(rvMap[Min(later)])[1].idx ELSE Last(ByIndex(rvMap[t])).idx

\* m_mapFrames without the packages handed over.
MutantRemaining(ready) == [t \in DOMAIN rvMap \ {Min(ready)} |-> rvMap[t]]
Remaining(ready) == [t \in DOMAIN rvMap \ ready |-> rvMap[t]]

Deliver ==
    LET ready == rvCur.ready
        x == FirstExt
        wrap == x = NRecv - 1
        next == IF wrap THEN x - LastIndex(Max(ready)) + 1 ELSE x + 1
    IN  /\ rvPc = "deliver" /\ rvFault = "ok" /\ \A t \in ready : Stamped(t)
        /\ rvPc' = "idle" /\ rvOut' = rvOut \o Handed(SetToSortSeq(ready, <))
        /\ rvMap' = Remaining(ready)
        /\ IF wrap /\ LastIndex(Max(ready)) = 0
             THEN rvFault' = "need new more memory" /\ UNCHANGED <<rvReq, rvBuf, rvPost>>
             ELSE /\ UNCHANGED rvFault
                  /\ IF rvCur.finish
                       THEN /\ rvPost' = next /\ rvReq' = Request(next, 0, RecvCap, x)
                            /\ rvBuf' = [i \in Bufs |->
                                 IF i < next THEN [rvBuf[i] EXCEPT !.prev = None]
                                 ELSE IF i = next THEN [rvBuf[i] EXCEPT !.ext = 0, !.prev = x]
                                 ELSE rvBuf[i]]
                       ELSE UNCHANGED <<rvReq, rvBuf, rvPost>>
        /\ UNCHANGED <<rvFrames, rvRead, rvCur>>

\* The socket has overwritten a frame of a package that was found complete.
DeliverGarbage ==
    /\ rvPc = "deliver" /\ rvFault = "ok" /\ rvFault' = "overwritten"
    /\ \E t \in rvCur.ready : ~Stamped(t)
    /\ UNCHANGED <<rvFrames, rvRead, rvReq, rvBuf, rvMap, rvPost, rvCur, rvPc, rvOut>>

RvNext ==
    \/ \E n \in 1..RecvCap : Arrive(n)
    \/ MergePrev \/ NoPrev \/ RecvData \/ TakeFrames \/ TakeUnreceived \/ PostOrFinish \/ Search \/ Deliver
    \/ DeliverGarbage

RvSpec == RvInit /\ [][RvNext]_rvVars

-----------------------------------------------------------------------------
(* Properties *)

RvTypeOK ==
    /\ rvRead \in 0..StreamLen /\ rvPost \in Bufs
    /\ rvReq.buf \in Bufs \cup {None} /\ rvReq.pos + rvReq.len <= RecvCap
    /\ \A i \in Bufs : rvBuf[i].ext \in 0..RecvCap /\ rvBuf[i].prev \in Bufs \cup {None}
    /\ rvPc \in {"idle", "data", "frames", "next", "check", "deliver"}
    /\ rvFault \in {"ok", "throw", "overwritten", "unreceived", "need new more memory"}

\* The data of the packages on the wire, in order.
DataOf(i) == FlattenSeq([j \in DOMAIN rvFrames |-> IF rvFrames[j].pkg = i
                            THEN Bytes(rvFrames[j].at + Hdr, rvFrames[j].len - Hdr) ELSE <<>>])
Sent == SelectSeq([i \in 1..rvFrames[Len(rvFrames)].pkg |-> DataOf(i)], LAMBDA d : d # <<>>)

\* The streams ParseData can take: one frame for each package, in the order of their stamps.
OneFrameEach == \A j \in DOMAIN rvFrames : rvFrames[j].total = 1
StampsRise == \A j, k \in DOMAIN rvFrames : rvFrames[j].pkg < rvFrames[k].pkg => rvFrames[j].ts < rvFrames[k].ts

\* What ParseData puts into m_recvQueue are the packages of the peer, each once, in
\* order and with its own bytes, wherever the socket cut the stream.
InOrder ==
    rvFault = "ok" /\ OneFrameEach /\ StampsRise =>
        IsPrefix([k \in DOMAIN rvOut |-> rvOut[k].data], Sent)

\* A frame is handed over when the buffer holds all of it.
HandedWhenReceived == rvFault # "unreceived"

\* Between two calls of ParseData a receive is posted, unless the last completion ended
\* within a header, or in the part of it that was joined to the previous buffer.
Listening ==
    rvPc = "idle" /\ rvReq.buf = None /\ rvFault = "ok" /\ StampsRise =>
        \/ rvCur.ret = 1
        \/ rvCur.ret = -3 /\ ~rvCur.prevDone
=============================================================================
