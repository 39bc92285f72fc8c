--------------------------- MODULE SendPath_proofs ---------------------------
(***************************************************************************)
(* The sending half of a connection, for any sizes of header, frame and    *)
(* buffers, any packages and any partial sends.  The argument: the queue   *)
(* holds the packages at consecutive places of the stream (QueueInv);      *)
(* while Packaging runs, what lies in the buffers is the stream from the   *)
(* first byte not taken to the byte before the next frame (PackInv); while *)
(* a round is sent, the bytes on the wire end where the send goes on, and  *)
(* the buffers still to be sent count all their bytes (RoundInv).  Where   *)
(* each buffer starts in the stream is a witness, st.                      *)
(***************************************************************************)
EXTENDS SendPath, SequenceTheorems, TLAPS

-----------------------------------------------------------------------------
(* The frames of a package *)

\* How many bytes the frames of a package are.
PkgBytes(len) == TotalFrames(len) * Hdr + len

LEMMA Sizes == /\ Hdr \in Nat \ {0} /\ SendCap \in Nat /\ Trans \in Nat /\ NSend \in Nat \ {0}
               /\ Room \in Nat \ {0} /\ Trans = Room + Hdr /\ Hdr < SendCap /\ Trans <= SendCap
  BY SendAssumption DEF Room

LEMMA Shares ==
    ASSUME NEW n \in Nat, NEW r \in Nat \ {0}
    PROVE  /\ n \div r \in Nat /\ (n \div r) * r \in Nat /\ (n \div r) * r <= n /\ n < (n \div r) * r + r
  OBVIOUS

\* The last frame has the rest of the data, and no more than the others.
LEMMA FrameCount ==
    ASSUME NEW len \in Nat
    PROVE  /\ TotalFrames(len) \in Nat \ {0}
           /\ (TotalFrames(len) - 1) * Room \in Nat /\ (TotalFrames(len) - 1) * Room <= len
           /\ len <= (TotalFrames(len) - 1) * Room + Room
<1> PICK R : R = Room
  OBVIOUS
<1>0. R \in Nat \ {0}
  BY Sizes
<1>1. CASE len = 0
  <2>1. TotalFrames(len) = 1
    BY <1>1 DEF TotalFrames
  <2>2. (TotalFrames(len) - 1) * R = 0
    BY <1>0, <2>1
  <2>. QED BY <1>0, <1>1, <2>1, <2>2
<1>2. CASE len # 0
  <2>q. PICK q : q = (len + R - 1) \div R
    OBVIOUS
  <2>1. TotalFrames(len) = q
    BY <1>2, <2>q DEF TotalFrames
  <2>2. len + R - 1 \in Nat
    BY <1>0
  <2>3. q \in Nat /\ q * R \in Nat /\ q * R <= len + R - 1 /\ len + R - 1 < q * R + R
    BY <1>0, <2>2, <2>q, Shares
  <2>4. q # 0
    BY <1>0, <1>2, <2>3
  <2>5. (q - 1) * R = q * R - R
    BY <1>0, <2>3
  <2>6. (q - 1) * R \in Nat
    BY <1>0, <2>3, <2>4
  <2>. QED BY <1>0, <2>1, <2>3, <2>4, <2>5, <2>6
<1>. QED BY <1>1, <1>2

\* A frame ends where the next one starts, the last one where the package ends.
LEMMA FrameEnds ==
    ASSUME NEW len \in Nat, NEW f \in 1..TotalFrames(len)
    PROVE  /\ FrameLen(len, f) \in Nat /\ Hdr <= FrameLen(len, f) /\ FrameLen(len, f) <= Trans
           /\ (f - 1) * Trans \in Nat /\ f * Trans \in Nat /\ PkgBytes(len) \in Nat
           /\ f < TotalFrames(len) => (f - 1) * Trans + FrameLen(len, f) = f * Trans
           /\ f = TotalFrames(len) => (f - 1) * Trans + FrameLen(len, f) = PkgBytes(len)
<1> PICK R, H, T : R = Room /\ H = Hdr /\ T = TotalFrames(len)
  OBVIOUS
<1>0. /\ R \in Nat \ {0} /\ H \in Nat \ {0} /\ T \in Nat \ {0} /\ Trans = R + H
      /\ (T - 1) * R \in Nat /\ (T - 1) * R <= len /\ len <= (T - 1) * R + R
  BY Sizes, FrameCount
<1>1. f \in 1..T /\ f - 1 \in Nat /\ f \in Nat /\ T - 1 \in Nat
  BY <1>0
<1>2. /\ (f - 1) * (R + H) \in Nat /\ f * (R + H) \in Nat /\ T * H \in Nat
      /\ (f - 1) * (R + H) + (R + H) = f * (R + H)
  BY <1>0, <1>1
<1>3. (T - 1) * (R + H) = (T - 1) * R + (T - 1) * H /\ (T - 1) * H + H = T * H
      /\ (T - 1) * H \in Nat /\ (T - 1) * (R + H) \in Nat
  BY <1>0, <1>1
<1>4. PkgBytes(len) = T * H + len
  BY DEF PkgBytes
<1>5. CASE f < T
  <2>1. FrameLen(len, f) = H + R
    BY <1>5 DEF FrameLen
  <2>. QED BY <1>0, <1>1, <1>2, <1>4, <1>5, <2>1
<1>6. CASE f = T
  <2>1. FrameLen(len, f) = H + (len - (T - 1) * R)
    BY <1>0, <1>6 DEF FrameLen
  <2>. QED BY <1>0, <1>1, <1>2, <1>3, <1>4, <1>6, <2>1
<1>. QED BY <1>0, <1>1, <1>5, <1>6

\* The bytes written for a frame, or a part of it.
LEMMA BytesOf ==
    ASSUME NEW a \in Nat, NEW n \in Nat
    PROVE  /\ Bytes(a, n) \in Seq(Nat) /\ Len(Bytes(a, n)) = n
           /\ \A k \in 1..n : Bytes(a, n)[k] = a + k - 1
<1>1. \A k \in 1..n : a + k - 1 \in Nat
  OBVIOUS
<1>. QED BY <1>1 DEF Bytes

-----------------------------------------------------------------------------
(* The invariant *)

\* Where package i of the queue starts; behind the last one, where the next one will.
PlaceOf(i) == IF i <= Len(sdQueue) THEN sdQueue[i].at ELSE sdEnd + 1

Packages == [at : Nat \ {0}, len : Nat]

\* The packages of the queue lie one after the other.
QueueInv ==
    /\ sdQueue \in Seq(Packages) /\ sdEnd \in Nat
    /\ \A i \in 1..Len(sdQueue) : PlaceOf(i) + PkgBytes(sdQueue[i].len) = PlaceOf(i + 1)

ShapeInv ==
    /\ sdBufs \in [1..NSend -> Seq(Nat)] /\ sdValid \in [1..NSend -> Int]
    /\ sdFinish \in {0, 1} /\ sdCount \in Nat /\ sdPost \in Nat
    /\ sdReq \in [buf : 0..NSend, done : Nat]
    /\ sdPack \in [pkg : Nat, frame : Nat, fi : Nat, off : Nat, total : Nat]

\* The bytes on the wire are the stream so far; between rounds, all of what was taken.
WireInv ==
    /\ sdWire \in Seq(Nat) /\ \A k \in 1..Len(sdWire) : sdWire[k] = k
    /\ sdFinish = 1 => Len(sdWire) = TakenBytes /\ sdReq = NoReq

\* The buffers hold the stream up to pos, buffer i from the byte behind st[i] on.
Laid(st, pos) ==
    /\ st \in [1..(NSend + 1) -> Nat]
    /\ \A i \in 1..NSend : /\ st[i + 1] = st[i] + Len(sdBufs[i])
                           /\ \A k \in 1..Len(sdBufs[i]) : sdBufs[i][k] = st[i] + k
    /\ \A i \in 1..(NSend + 1) : st[i] <= pos

\* The last byte laid: the one before the next frame.
Reached == PlaceOf(sdPack.pkg) + (sdPack.frame - 1) * Trans - 1

\* The counters of Packaging.
Counters ==
    /\ sdFinish = 1 /\ sdPack.pkg \in 1..(Len(sdQueue) + 1) /\ sdPack.frame > 0
    /\ sdPack.pkg <= Len(sdQueue) => sdPack.frame <= TotalFrames(sdQueue[sdPack.pkg].len)
    /\ sdPack.pkg > Len(sdQueue) => sdPack.frame = 1
    /\ sdPack.fi \in 1..NSend /\ sdPack.off < SendCap

LaidToReached(st) ==
    /\ Laid(st, Reached) /\ st[1] = TakenBytes
    /\ \A i \in (sdPack.fi + 1)..(NSend + 1) : st[i] = Reached
    /\ \A i \in (sdPack.fi + 1)..NSend : sdBufs[i] = <<>>

PackInv == sdPack.pkg > 0 => Counters /\ \E st : LaidToReached(st)

\* The round under way: where it is, and what is still to be sent.
Sending(st) ==
    /\ Laid(st, TakenBytes) /\ st[sdCount + 1] = TakenBytes
    /\ Len(sdWire) = st[sdPost] + sdReq.done

RoundInv ==
    sdFinish = 0 =>
        /\ sdPack.pkg = 0
        /\ sdCount \in 1..NSend /\ sdPost \in 1..sdCount
        /\ sdReq.buf \in {0, sdPost} /\ (sdReq.buf = 0 => sdReq.done = 0)
        /\ sdReq.done <= Len(sdBufs[sdPost])
        /\ \A i \in sdPost..sdCount : sdValid[i] = Len(sdBufs[i])
        /\ \E st : Sending(st)

SendInv == QueueInv /\ ShapeInv /\ WireInv /\ PackInv /\ RoundInv
SInv == sdFault \in {"ok", "empty"} => SendInv

LEMMA Taken == ASSUME QueueInv PROVE /\ TakenBytes = PlaceOf(1) - 1 /\ TakenBytes \in Nat
                                     /\ \A i \in 1..(Len(sdQueue) + 1) : PlaceOf(i) \in Nat \ {0}
<1>1. sdQueue \in Seq(Packages) /\ sdEnd \in Nat /\ Len(sdQueue) \in Nat
  BY DEF QueueInv
<1>2. \A i \in 1..Len(sdQueue) : sdQueue[i] \in Packages
  BY <1>1
<1>3. \A i \in 1..Len(sdQueue) : sdQueue[i].at \in Nat \ {0}
  BY <1>2 DEF Packages
<1>4. \A i \in 1..(Len(sdQueue) + 1) : PlaceOf(i) \in Nat \ {0}
  BY <1>1, <1>3 DEF PlaceOf
<1>5. CASE sdQueue = <<>>
  <2>1. Len(sdQueue) = 0
    BY <1>5
  <2>2. PlaceOf(1) = sdEnd + 1 /\ TakenBytes = sdEnd
    BY <1>5, <2>1 DEF PlaceOf, TakenBytes
  <2>. QED BY <1>1, <1>4, <2>2
<1>6. CASE sdQueue # <<>>
  <2>1. Len(sdQueue) >= 1
    BY <1>1, <1>6
  <2>2. PlaceOf(1) = sdQueue[1].at /\ TakenBytes = sdQueue[1].at - 1
    BY <1>6, <2>1 DEF PlaceOf, TakenBytes
  <2>. QED BY <1>1, <1>3, <1>4, <2>1, <2>2
<1>. QED BY <1>5, <1>6

\* The steps that leave the stream where it is.
LEMMA LaidFrame ==
    ASSUME sdBufs' = sdBufs, NEW st, NEW pos, Laid(st, pos) PROVE Laid(st, pos)'
  BY DEF Laid

LEMMA StepSend ==
    ASSUME SendInv, NEW len \in PkgLens, Send(len) PROVE SendInv'
<1>0. len \in Nat
  BY SendAssumption
<1>1. /\ sdPack.pkg = 0 /\ sdQueue' = Append(sdQueue, [at |-> sdEnd + 1, len |-> len])
      /\ UNCHANGED <<sdPost, sdCount, sdFinish, sdReq, sdBufs, sdValid, sdPack, sdWire>>
  BY DEF Send, sdRound
<1>2. QueueInv /\ ShapeInv /\ WireInv /\ PackInv /\ RoundInv
  BY DEF SendInv
<1>3. sdQueue \in Seq(Packages) /\ sdEnd \in Nat /\ Len(sdQueue) \in Nat
  BY <1>2 DEF QueueInv
<1>4. PkgBytes(len) \in Nat
  <2>1. TotalFrames(len) \in Nat \ {0} /\ Hdr \in Nat
    BY <1>0, FrameCount, Sizes
  <2>. QED BY <1>0, <2>1 DEF PkgBytes
<1>e. sdEnd' = sdEnd + PkgBytes(len)
  <2>0. TotalFrames(len) \in Nat /\ Hdr \in Nat
    BY <1>0, FrameCount, Sizes
  <2>1. TotalFrames(len) * Hdr \in Nat
    BY <2>0
  <2>2. sdEnd' = sdEnd + TotalFrames(len) * Hdr + len
    BY DEF Send
  <2>. QED BY <1>0, <1>3, <2>1, <2>2 DEF PkgBytes
<1>5. [at |-> sdEnd + 1, len |-> len] \in Packages
  BY <1>0, <1>3 DEF Packages
<1>6. /\ sdQueue' \in Seq(Packages) /\ Len(sdQueue') = Len(sdQueue) + 1
      /\ \A i \in 1..Len(sdQueue) : sdQueue'[i] = sdQueue[i]
      /\ sdQueue'[Len(sdQueue) + 1] = [at |-> sdEnd + 1, len |-> len]
  BY <1>1, <1>3, <1>5
<1>7. ASSUME NEW i \in 1..(Len(sdQueue) + 1) PROVE PlaceOf(i)' = PlaceOf(i)
  <2>1. CASE i <= Len(sdQueue)
    BY <1>3, <1>6, <2>1 DEF PlaceOf
  <2>2. CASE i = Len(sdQueue) + 1
    BY <1>3, <1>6, <2>2 DEF PlaceOf
  <2>. QED BY <1>3, <2>1, <2>2
<1>9. QueueInv'
  <2>1. sdEnd' \in Nat
    BY <1>3, <1>4, <1>e
  <2>2. ASSUME NEW i \in 1..(Len(sdQueue) + 1)
        PROVE  PlaceOf(i)' + PkgBytes(sdQueue'[i].len) = PlaceOf(i + 1)'
    <3>1. CASE i \in 1..Len(sdQueue)
      <4>1. i + 1 \in 1..(Len(sdQueue) + 1)
        BY <1>3, <3>1
      <4>2. PlaceOf(i + 1)' = PlaceOf(i + 1)
        BY <1>7, <4>1
      <4>3. PlaceOf(i) + PkgBytes(sdQueue[i].len) = PlaceOf(i + 1) /\ PlaceOf(i)' = PlaceOf(i)
        BY <1>2, <1>7, <3>1 DEF QueueInv
      <4>. QED BY <1>6, <3>1, <4>2, <4>3
    <3>2. CASE i = Len(sdQueue) + 1
      <4>1. PlaceOf(i)' = sdEnd + 1 /\ i + 1 = Len(sdQueue) + 2 /\ sdQueue'[i].len = len
        BY <1>3, <1>6, <1>7, <3>2 DEF PlaceOf
      <4>2. PlaceOf(i + 1)' = sdEnd' + 1
        BY <1>3, <1>6, <3>2 DEF PlaceOf
      <4>. QED BY <1>3, <1>4, <1>e, <4>1, <4>2
    <3>. QED BY <1>3, <3>1, <3>2
  <2>. QED BY <1>6, <2>1, <2>2 DEF QueueInv
<1>10. TakenBytes' = TakenBytes
  <2>1. TakenBytes' = PlaceOf(1)' - 1
    <3>1. sdQueue' # <<>> /\ 1 <= Len(sdQueue')
      BY <1>3, <1>6
    <3>. QED BY <3>1 DEF TakenBytes, PlaceOf
  <2>2. PlaceOf(1)' = PlaceOf(1)
    BY <1>3, <1>7
  <2>. QED BY <1>2, <2>1, <2>2, Taken
<1>11. ShapeInv' /\ WireInv' /\ PackInv'
  BY <1>1, <1>2, <1>10 DEF ShapeInv, WireInv, PackInv
<1>12. ASSUME sdFinish = 0 PROVE \E st : Sending(st)'
  <2>1. PICK st : Sending(st)
    BY <1>2, <1>12 DEF RoundInv
  <2>2. Sending(st)'
    BY <1>1, <1>10, <2>1, LaidFrame DEF Sending
  <2>. QED BY <2>2
<1>13. RoundInv'
  BY <1>1, <1>2, <1>12 DEF RoundInv
<1>. QED BY <1>9, <1>11, <1>13 DEF SendInv

\* What a step of Packaging leaves alone.
LEMMA PackFrame ==
    ASSUME SendInv, UNCHANGED <<sdQueue, sdEnd, sdPost, sdCount, sdFinish, sdReq, sdWire>>,
           sdBufs' \in [1..NSend -> Seq(Nat)], sdValid' \in [1..NSend -> Int],
           sdPack' \in [pkg : Nat, frame : Nat, fi : Nat, off : Nat, total : Nat],
           sdFinish = 1, Counters', \E st : LaidToReached(st)'
    PROVE  SendInv'
<1>1. TakenBytes' = TakenBytes /\ QueueInv'
  BY DEF SendInv, QueueInv, PlaceOf, TakenBytes
<1>2. ShapeInv' /\ WireInv' /\ RoundInv'
  BY <1>1 DEF SendInv, ShapeInv, WireInv, RoundInv
<1>3. PackInv'
  BY DEF PackInv
<1>. QED BY <1>1, <1>2, <1>3 DEF SendInv

LEMMA StepPost ==
    ASSUME SendInv, PostSend PROVE SendInv'
<1>1. /\ sdFinish = 1 /\ sdQueue # <<>>
      /\ sdBufs' = [i \in 1..NSend |-> <<>>] /\ sdValid' = [i \in 1..NSend |-> 0]
      /\ sdPack' = [pkg |-> 1, frame |-> 1, fi |-> 1, off |-> 0, total |-> 0]
      /\ UNCHANGED <<sdQueue, sdEnd, sdPost, sdCount, sdFinish, sdReq, sdWire>>
  BY DEF PostSend, sdRound
<1>2. QueueInv /\ sdQueue \in Seq(Packages) /\ Len(sdQueue) \in Nat /\ Len(sdQueue) >= 1
  BY <1>1 DEF SendInv, QueueInv
<1>3. sdQueue[1].len \in Nat
  <2>1. sdQueue[1] \in Packages
    BY <1>2
  <2>. QED BY <2>1 DEF Packages
<1>4. Counters'
  <2>1. 1 <= TotalFrames(sdQueue[1].len)
    BY <1>3, FrameCount
  <2>. QED BY <1>1, <1>2, <2>1, Sizes DEF Counters
<1>5. TakenBytes = PlaceOf(1) - 1 /\ TakenBytes \in Nat /\ TakenBytes' = TakenBytes
  BY <1>1, <1>2, Taken DEF TakenBytes
<1>6. Reached' = TakenBytes
  <2>1. Reached' = PlaceOf(1)' + (1 - 1) * Trans - 1 /\ PlaceOf(1)' = PlaceOf(1)
    BY <1>1 DEF Reached, PlaceOf
  <2>2. (1 - 1) * Trans = 0
    BY Sizes
  <2>. QED BY <1>2, <1>5, <2>1, <2>2, Taken
<1>7. PICK st : st = [i \in 1..(NSend + 1) |-> TakenBytes]
  OBVIOUS
<1>8. LaidToReached(st)'
  <2>1. /\ st \in [1..(NSend + 1) -> Nat] /\ \A i \in 1..(NSend + 1) : st[i] = TakenBytes
        /\ \A i \in 1..NSend : i + 1 \in 1..(NSend + 1) /\ i \in 1..(NSend + 1)
    BY <1>5, <1>7, Sizes
  <2>2. \A i \in 1..NSend : sdBufs'[i] = <<>> /\ Len(sdBufs'[i]) = 0
    BY <1>1
  <2>3. Laid(st, Reached)'
    BY <1>5, <1>6, <2>1, <2>2 DEF Laid
  <2>4. sdPack'.fi = 1 /\ 1 \in 1..(NSend + 1)
    BY <1>1, Sizes
  <2>5. st[1] = TakenBytes' /\ \A i \in 2..(NSend + 1) : st[i] = Reached'
    BY <1>5, <1>6, <2>1, <2>4
  <2>6. \A i \in 2..NSend : sdBufs'[i] = <<>>
    BY <2>2
  <2>. QED BY <2>3, <2>4, <2>5, <2>6 DEF LaidToReached
<1>9. sdBufs' \in [1..NSend -> Seq(Nat)] /\ sdValid' \in [1..NSend -> Int]
      /\ sdPack' \in [pkg : Nat, frame : Nat, fi : Nat, off : Nat, total : Nat]
  BY <1>1
<1>. QED BY <1>1, <1>4, <1>8, <1>9, PackFrame

\* The frame Packaging is at.
LEMMA FrameHere ==
    ASSUME QueueInv, ShapeInv, Counters, sdPack.pkg \in 1..Len(sdQueue)
    PROVE  /\ CurLen \in Nat /\ Hdr <= CurLen /\ CurLen <= Trans
           /\ Reached \in Nat /\ CurAt = Reached + 1
           /\ CurPkg.len \in Nat /\ sdPack.frame \in 1..TotalFrames(CurPkg.len)
<1>1. PICK p, f : p = sdPack.pkg /\ f = sdPack.frame
  OBVIOUS
<1>2. p \in 1..Len(sdQueue) /\ f \in Nat \ {0} /\ f <= TotalFrames(sdQueue[p].len)
      /\ Len(sdQueue) \in Nat
  BY <1>1 DEF Counters, ShapeInv, QueueInv
<1>3. sdQueue[p] \in Packages
  BY <1>2 DEF QueueInv
<1>4. sdQueue[p].at \in Nat \ {0} /\ sdQueue[p].len \in Nat
  BY <1>3 DEF Packages
<1>5. f \in 1..TotalFrames(sdQueue[p].len)
  BY <1>2, <1>4, FrameCount
<1>6. CurLen \in Nat /\ Hdr <= CurLen /\ CurLen <= Trans /\ (f - 1) * Trans \in Nat
  BY <1>1, <1>4, <1>5, FrameEnds DEF CurLen, CurPkg
<1>7. PlaceOf(p) = sdQueue[p].at
  BY <1>2 DEF PlaceOf
<1>8. Reached = sdQueue[p].at + (f - 1) * Trans - 1 /\ CurAt = sdQueue[p].at + (f - 1) * Trans
  BY <1>1, <1>7 DEF Reached, CurAt, FrameAt, CurPkg
<1>9. CurPkg.len \in Nat /\ sdPack.frame \in 1..TotalFrames(CurPkg.len)
  BY <1>1, <1>4, <1>5 DEF CurPkg
<1>. QED BY <1>4, <1>6, <1>8, <1>9

\* The counters move on by one frame.
LEMMA Advance ==
    ASSUME QueueInv, ShapeInv, Counters, sdPack.pkg \in 1..Len(sdQueue),
           NEW x \in 1..NSend, NEW y \in 0..(SendCap - 1), sdPack' = NextFrame(x, y),
           UNCHANGED <<sdQueue, sdEnd, sdFinish>>
    PROVE  /\ Counters' /\ Reached' = Reached + CurLen /\ sdPack'.fi = x
           /\ sdPack' \in [pkg : Nat, frame : Nat, fi : Nat, off : Nat, total : Nat]
<1>1. PICK p, f, len : p = sdPack.pkg /\ f = sdPack.frame /\ len = sdQueue[p].len
  OBVIOUS
<1>2. /\ p \in 1..Len(sdQueue) /\ Len(sdQueue) \in Nat /\ len \in Nat /\ f \in 1..TotalFrames(len)
      /\ sdPack.total \in Nat /\ CurPkg.len = len /\ NSend \in Nat /\ SendCap \in Nat
  <2>1. CurPkg.len = len
    BY <1>1 DEF CurPkg
  <2>2. len \in Nat /\ f \in 1..TotalFrames(len)
    BY <1>1, <2>1, FrameHere
  <2>3. p \in 1..Len(sdQueue) /\ Len(sdQueue) \in Nat
    BY <1>1 DEF QueueInv
  <2>4. sdPack.total \in Nat
    BY DEF ShapeInv
  <2>. QED BY <2>1, <2>2, <2>3, <2>4, Sizes
<1>3. TotalFrames(len) \in Nat \ {0} /\ f \in Nat
  BY <1>2, FrameCount
<1>4. /\ CurLen = FrameLen(len, f) /\ (f - 1) * Trans \in Nat /\ f * Trans \in Nat /\ PkgBytes(len) \in Nat
      /\ FrameLen(len, f) \in Nat
      /\ f < TotalFrames(len) => (f - 1) * Trans + FrameLen(len, f) = f * Trans
      /\ f = TotalFrames(len) => (f - 1) * Trans + FrameLen(len, f) = PkgBytes(len)
  BY <1>1, <1>2, FrameEnds DEF CurLen
<1>6. Reached = PlaceOf(p) + (f - 1) * Trans - 1 /\ PlaceOf(p) \in Nat \ {0}
  BY <1>1, <1>2, Taken DEF Reached
<1>7. CASE f < TotalFrames(len)
  <2>1. sdPack' = [pkg |-> p, frame |-> f + 1, fi |-> x, off |-> y, total |-> sdPack.total]
    BY <1>1, <1>2, <1>3, <1>7 DEF NextFrame
  <2>2. Reached' = PlaceOf(sdPack.pkg)' + (sdPack'.frame - 1) * Trans - 1 /\ PlaceOf(sdPack.pkg)' = PlaceOf(p)
    BY <2>1 DEF Reached, PlaceOf
  <2>3. sdPack'.frame - 1 = f
    BY <1>3, <2>1
  <2>4. Reached' = Reached + CurLen
    BY <1>4, <1>6, <1>7, <2>2, <2>3
  <2>5. Counters'
    BY <1>1, <1>2, <1>3, <1>7, <2>1 DEF Counters
  <2>6. sdPack' \in [pkg : Nat, frame : Nat, fi : Nat, off : Nat, total : Nat]
    BY <1>2, <1>3, <2>1
  <2>. QED BY <2>1, <2>4, <2>5, <2>6
<1>8. CASE f = TotalFrames(len)
  <2>1. sdPack' = [pkg |-> p + 1, frame |-> 1, fi |-> x, off |-> y, total |-> sdPack.total + len]
    BY <1>1, <1>2, <1>3, <1>8 DEF NextFrame
  <2>2. Reached' = PlaceOf(p + 1) + (1 - 1) * Trans - 1
    <3>1. Reached' = PlaceOf(sdPack.pkg)' + (1 - 1) * Trans - 1
      BY <2>1 DEF Reached
    <3>2. PlaceOf(sdPack.pkg)' = PlaceOf(p + 1)
      BY <2>1 DEF PlaceOf
    <3>. QED BY <3>1, <3>2
  <2>3. (1 - 1) * Trans = 0
    BY Sizes
  <2>4. PlaceOf(p) + PkgBytes(len) = PlaceOf(p + 1)
    BY <1>1, <1>2 DEF QueueInv
  <2>5. Reached' = Reached + CurLen
    <3>1. PICK a, c, g, h, L : /\ a = PlaceOf(p) /\ c = PlaceOf(p + 1) /\ g = (f - 1) * Trans
                              /\ h = PkgBytes(len) /\ L = FrameLen(len, f)
      OBVIOUS
    <3>2. a \in Nat /\ g \in Nat /\ h \in Nat /\ L \in Nat
      BY <1>4, <1>6, <3>1
    <3>3. g + L = h /\ a + h = c
      BY <1>4, <1>8, <2>4, <3>1
    <3>4. Reached = a + g - 1 /\ CurLen = L
      BY <1>4, <1>6, <3>1
    <3>5. Reached' = c + 0 - 1
      BY <2>2, <2>3, <3>1
    <3>. QED BY <3>2, <3>3, <3>4, <3>5
  <2>6. Counters'
    <3>1. p + 1 <= Len(sdQueue) => 1 <= TotalFrames(sdQueue[p + 1].len)
      <4> SUFFICES ASSUME p + 1 <= Len(sdQueue) PROVE 1 <= TotalFrames(sdQueue[p + 1].len)
        OBVIOUS
      <4>1. sdQueue[p + 1] \in Packages
        BY <1>2 DEF QueueInv
      <4>2. sdQueue[p + 1].len \in Nat
        BY <4>1 DEF Packages
      <4>3. PICK m : m = sdQueue[p + 1].len
        OBVIOUS
      <4>4. TotalFrames(m) \in Nat \ {0}
        BY <4>2, <4>3, FrameCount
      <4>. QED BY <4>3, <4>4
    <3>2. /\ sdPack'.pkg = p + 1 /\ sdPack'.frame = 1 /\ sdPack'.fi = x /\ sdPack'.off = y
      BY <2>1
    <3>3. p + 1 \in 1..(Len(sdQueue) + 1) /\ y < SendCap
      BY <1>2
    <3>4. sdFinish' = 1
      BY DEF Counters
    <3>. QED BY <3>1, <3>2, <3>3, <3>4 DEF Counters
  <2>7. sdPack' \in [pkg : Nat, frame : Nat, fi : Nat, off : Nat, total : Nat]
    BY <1>2, <1>3, <2>1
  <2>. QED BY <2>1, <2>5, <2>6, <2>7
<1>. QED BY <1>2, <1>3, <1>7, <1>8

\* Bytes are added to a buffer that ends where they start.
LEMMA BytesAdded ==
    ASSUME NEW s \in Seq(Nat), NEW b \in Nat, \A k \in 1..Len(s) : s[k] = b + k,
           NEW a \in Nat, a = b + Len(s) + 1, NEW n \in Nat
    PROVE  /\ s \o Bytes(a, n) \in Seq(Nat) /\ Len(s \o Bytes(a, n)) = Len(s) + n
           /\ \A k \in 1..(Len(s) + n) : (s \o Bytes(a, n))[k] = b + k
<1>1. PICK t : t = Bytes(a, n)
  OBVIOUS
<1>2. /\ t \in Seq(Nat) /\ Len(t) = n /\ Len(s) \in Nat
      /\ \A k \in 1..n : t[k] = a + k - 1
  <2>1. /\ Bytes(a, n) \in Seq(Nat) /\ Len(Bytes(a, n)) = n
        /\ \A k \in 1..n : Bytes(a, n)[k] = a + k - 1
    BY BytesOf
  <2>. QED BY <1>1, <2>1
<1>3. /\ s \o t \in Seq(Nat) /\ Len(s \o t) = Len(s) + Len(t)
      /\ \A k \in 1..(Len(s) + Len(t)) : (s \o t)[k] = IF k <= Len(s) THEN s[k] ELSE t[k - Len(s)]
  BY <1>2, ConcatProperties
<1>4. ASSUME NEW k \in 1..(Len(s) + n) PROVE (s \o t)[k] = b + k
  <2>1. CASE k <= Len(s)
    BY <1>2, <1>3, <2>1
  <2>2. CASE ~ (k <= Len(s))
    <3>1. k - Len(s) \in 1..n
      BY <1>2, <2>2
    <3>2. t[k - Len(s)] = a + (k - Len(s)) - 1
      BY <1>2, <3>1
    <3>3. (s \o t)[k] = t[k - Len(s)]
      BY <1>2, <1>3, <2>2
    <3>. QED BY <1>2, <3>2, <3>3
  <2>. QED BY <2>1, <2>2
<1>. QED BY <1>1, <1>2, <1>3, <1>4

\* The buffer Packaging writes to ends with the last byte laid.
LEMMA OpenBuffer ==
    ASSUME ShapeInv, Counters, NEW st, LaidToReached(st)
    PROVE  /\ sdPack.fi \in 1..NSend /\ sdBufs[sdPack.fi] \in Seq(Nat) /\ st[sdPack.fi] \in Nat
           /\ Reached = st[sdPack.fi] + Len(sdBufs[sdPack.fi])
           /\ \A k \in 1..Len(sdBufs[sdPack.fi]) : sdBufs[sdPack.fi][k] = st[sdPack.fi] + k
<1>1. PICK f : f = sdPack.fi
  OBVIOUS
<1>2. f \in 1..NSend /\ NSend \in Nat /\ f \in 1..(NSend + 1) /\ f + 1 \in (f + 1)..(NSend + 1)
  BY <1>1, Sizes DEF Counters
<1>3. st[f + 1] = Reached /\ st \in [1..(NSend + 1) -> Nat]
  BY <1>1, <1>2 DEF LaidToReached, Laid
<1>4. /\ st[f + 1] = st[f] + Len(sdBufs[f])
      /\ \A k \in 1..Len(sdBufs[f]) : sdBufs[f][k] = st[f] + k
  BY <1>2 DEF LaidToReached, Laid
<1>. QED BY <1>1, <1>2, <1>3, <1>4 DEF ShapeInv

LEMMA StepFits ==
    ASSUME SendInv, FrameFits PROVE SInv'
<1>0. /\ QueueInv /\ ShapeInv /\ sdPack.pkg \in 1..Len(sdQueue)
  BY DEF SendInv, FrameFits, Packing
<1>b. sdBufs \in [1..NSend -> Seq(Nat)] /\ sdValid \in [1..NSend -> Int]
  BY <1>0 DEF ShapeInv
<1>1. sdPack.pkg > 0 /\ Len(sdQueue) \in Nat
  BY <1>0 DEF QueueInv
<1>2. Counters /\ sdFinish = 1
  BY <1>1 DEF SendInv, PackInv, Counters
<1>3. PICK st : LaidToReached(st)
  BY <1>1 DEF SendInv, PackInv
<1>4. PICK f, L, r : f = sdPack.fi /\ L = CurLen /\ r = Reached
  OBVIOUS
<1>5. /\ L \in Nat /\ Hdr <= L /\ L <= Trans /\ r \in Nat /\ CurAt = r + 1 /\ L <= SendCap - sdPack.off
      /\ sdPack.off \in 0..(SendCap - 1) /\ Hdr \in Nat \ {0} /\ SendCap \in Nat
  <2>1. sdPack.off \in 0..(SendCap - 1)
    BY <1>0, <1>2, Sizes DEF ShapeInv, Counters
  <2>2. L <= SendCap - sdPack.off
    BY <1>4 DEF FrameFits, Avail
  <2>3. L \in Nat /\ Hdr <= L /\ L <= Trans /\ r \in Nat /\ CurAt = r + 1
    BY <1>0, <1>2, <1>4, FrameHere
  <2>. QED BY <2>1, <2>2, <2>3, Sizes
<1>6. /\ f \in 1..NSend /\ NSend \in Nat /\ sdBufs[f] \in Seq(Nat) /\ st[f] \in Nat
      /\ r = st[f] + Len(sdBufs[f])
      /\ \A k \in 1..Len(sdBufs[f]) : sdBufs[f][k] = st[f] + k
  BY <1>0, <1>2, <1>3, <1>4, OpenBuffer, Sizes
<1>7. PICK new : new = sdBufs[f] \o Bytes(r + 1, L)
  OBVIOUS
<1>8. /\ new \in Seq(Nat) /\ Len(new) = Len(sdBufs[f]) + L
      /\ \A k \in 1..(Len(sdBufs[f]) + L) : new[k] = st[f] + k
  <2>1. r + 1 \in Nat /\ r + 1 = st[f] + Len(sdBufs[f]) + 1 /\ L \in Nat
    BY <1>5, <1>6
  <2>2. PICK a, b, t : a = r + 1 /\ b = st[f] /\ t = sdBufs[f]
    OBVIOUS
  <2>3. t \in Seq(Nat) /\ b \in Nat /\ (\A k \in 1..Len(t) : t[k] = b + k) /\ a = b + Len(t) + 1
    BY <1>6, <2>1, <2>2
  <2>n. a \in Nat /\ L \in Nat
    BY <2>1, <2>2
  <2>4. /\ t \o Bytes(a, L) \in Seq(Nat) /\ Len(t \o Bytes(a, L)) = Len(t) + L
        /\ \A k \in 1..(Len(t) + L) : (t \o Bytes(a, L))[k] = b + k
    BY <2>n, <2>3, BytesAdded, ZenonT(30)
  <2>. QED BY <1>7, <2>2, <2>4
<1>9. /\ sdBufs' = [sdBufs EXCEPT ![f] = new]
      /\ sdValid' = [sdValid EXCEPT ![f] = sdPack.off + L]
      /\ UNCHANGED <<sdQueue, sdEnd, sdPost, sdCount, sdFinish, sdReq, sdWire>>
  BY <1>4, <1>5, <1>7 DEF FrameFits, sdRound
<1>10. sdBufs' \in [1..NSend -> Seq(Nat)] /\ sdValid' \in [1..NSend -> Int]
  <2>1. sdBufs' \in [1..NSend -> Seq(Nat)]
    BY <1>6, <1>8, <1>9, <1>b
  <2>2. sdPack.off + L \in Int
    BY <1>5
  <2>. QED BY <1>6, <1>9, <1>b, <2>1, <2>2
<1> SUFFICES ASSUME sdFault' = "ok" PROVE SendInv'
  <2>1. sdFault' \in {"ok", "beyond"}
    BY DEF FrameFits
  <2>. QED BY <2>1 DEF SInv
\* The bytes laid, whichever buffer is the open one then.
<1>11. ASSUME NEW x \in 1..NSend, NEW y \in 0..(SendCap - 1), sdPack' = NextFrame(x, y), x >= f
       PROVE  SendInv'
  <2>1. /\ Counters' /\ Reached' = r + L /\ sdPack'.fi = x
        /\ sdPack' \in [pkg : Nat, frame : Nat, fi : Nat, off : Nat, total : Nat]
    BY <1>0, <1>2, <1>4, <1>9, <1>11, Advance
  <2>2. PICK su : su = [i \in 1..(NSend + 1) |-> IF i <= f THEN st[i] ELSE r + L]
    OBVIOUS
  <2>3. /\ st \in [1..(NSend + 1) -> Nat] /\ \A i \in 1..(NSend + 1) : st[i] <= r
        /\ \A i \in 1..NSend : /\ st[i + 1] = st[i] + Len(sdBufs[i])
                               /\ \A k \in 1..Len(sdBufs[i]) : sdBufs[i][k] = st[i] + k
        /\ \A i \in (f + 1)..NSend : sdBufs[i] = <<>>
        /\ st[1] = TakenBytes
    BY <1>3, <1>4 DEF LaidToReached, Laid
  <2>4. su \in [1..(NSend + 1) -> Nat] /\ \A i \in 1..(NSend + 1) : su[i] <= r + L
    <3>1. \A i \in 1..(NSend + 1) : st[i] \in Nat
      BY <2>3
    <3>2. \A i \in 1..(NSend + 1) : su[i] \in Nat /\ su[i] <= r + L
      BY <1>5, <2>2, <2>3, <3>1
    <3>. QED BY <2>2, <3>2
  <2>5. ASSUME NEW i \in 1..NSend
        PROVE  /\ su[i + 1] = su[i] + Len(sdBufs'[i])
               /\ \A k \in 1..Len(sdBufs'[i]) : sdBufs'[i][k] = su[i] + k
    <3>0. i \in 1..(NSend + 1) /\ i + 1 \in 1..(NSend + 1)
      BY <1>6
    <3>1. CASE i < f
      <4>1. su[i] = st[i] /\ su[i + 1] = st[i + 1] /\ sdBufs'[i] = sdBufs[i]
        BY <1>6, <1>9, <1>b, <2>2, <3>0, <3>1
      <4>. QED BY <2>3, <4>1
    <3>2. CASE i = f
      <4>1. su[i] = st[f] /\ su[i + 1] = r + L /\ sdBufs'[i] = new
        BY <1>6, <1>9, <1>b, <2>2, <3>0, <3>2
      <4>2. Len(sdBufs[f]) \in Nat
        BY <1>6
      <4>3. Len(sdBufs'[i]) = Len(sdBufs[f]) + L
        BY <1>8, <4>1
      <4>4. su[i + 1] = su[i] + Len(sdBufs'[i])
        <5>1. PICK g, m : g = st[f] /\ m = Len(sdBufs[f])
          OBVIOUS
        <5>2. g \in Nat /\ m \in Nat /\ r = g + m /\ L \in Nat
          BY <1>5, <1>6, <4>2, <5>1
        <5>3. su[i + 1] = (g + m) + L /\ su[i] = g /\ Len(sdBufs'[i]) = m + L
          BY <4>1, <4>3, <5>1, <5>2
        <5>. QED BY <5>2, <5>3
      <4>. QED BY <1>8, <4>1, <4>3, <4>4
    <3>3. CASE i > f
      <4>1. su[i] = r + L /\ su[i + 1] = r + L /\ sdBufs'[i] = <<>>
        <5>1. i \in (f + 1)..NSend
          BY <1>6, <3>3
        <5>2. sdBufs'[i] = sdBufs[i] /\ sdBufs[i] = <<>>
          <6>1. sdBufs[i] = <<>>
            BY <2>3, <5>1
          <6>2. i # f
            BY <1>6, <3>3
          <6>. QED BY <1>9, <1>b, <6>1, <6>2
        <5>. QED BY <1>6, <2>2, <3>0, <3>3, <5>2
      <4>. QED BY <1>5, <4>1
    <3>. QED BY <1>6, <3>1, <3>2, <3>3
  <2>6. Laid(su, Reached)'
    BY <2>1, <2>4, <2>5 DEF Laid
  <2>7. su[1] = TakenBytes'
    BY <1>6, <1>9, <2>2, <2>3 DEF TakenBytes
  <2>8. /\ \A i \in (x + 1)..(NSend + 1) : su[i] = r + L
        /\ \A i \in (x + 1)..NSend : sdBufs'[i] = <<>>
    <3>1. ASSUME NEW i \in (x + 1)..(NSend + 1) PROVE su[i] = r + L
      <4>1. i \in 1..(NSend + 1) /\ ~ (i <= f)
        BY <1>6, <1>11
      <4>. QED BY <2>2, <4>1
    <3>2. ASSUME NEW i \in (x + 1)..NSend PROVE sdBufs'[i] = <<>>
      <4>1. i \in (f + 1)..NSend /\ i \in 1..NSend /\ i # f
        BY <1>6, <1>11
      <4>. QED BY <1>9, <1>b, <2>3, <4>1
    <3>. QED BY <3>1, <3>2
  <2>9. LaidToReached(su)'
    BY <2>1, <2>6, <2>7, <2>8 DEF LaidToReached
  <2>. QED BY <1>2, <1>9, <1>10, <2>1, <2>9, PackFrame
<1>12. CASE L < SendCap - sdPack.off
  <2>1. sdPack' = NextFrame(f, sdPack.off + L) /\ sdPack.off + L \in 0..(SendCap - 1)
    BY <1>4, <1>5, <1>12 DEF FrameFits, Avail
  <2>. QED BY <1>6, <1>11, <2>1
<1>13. CASE L = SendCap - sdPack.off
  <2>1. sdPack' = NextFrame(f + 1, 0) /\ f # NSend
    BY <1>4, <1>5, <1>13 DEF FrameFits, Avail
  <2>2. f + 1 \in 1..NSend /\ 0 \in 0..(SendCap - 1) /\ f + 1 >= f
    BY <1>5, <1>6, <2>1, Sizes
  <2>. QED BY <1>11, <2>1, <2>2
<1>. QED BY <1>5, <1>12, <1>13

LEMMA StepCut ==
    ASSUME SendInv, FrameCut PROVE SInv'
<1>0. /\ QueueInv /\ ShapeInv /\ sdPack.pkg \in 1..Len(sdQueue)
  BY DEF SendInv, FrameCut, Packing
<1>b. sdBufs \in [1..NSend -> Seq(Nat)] /\ sdValid \in [1..NSend -> Int]
  BY <1>0 DEF ShapeInv
<1>1. sdPack.pkg > 0 /\ Len(sdQueue) \in Nat
  BY <1>0 DEF QueueInv
<1>2. Counters /\ sdFinish = 1
  BY <1>1 DEF SendInv, PackInv, Counters
<1>3. PICK st : LaidToReached(st)
  BY <1>1 DEF SendInv, PackInv
<1>4. PICK f, L, r, A : f = sdPack.fi /\ L = CurLen /\ r = Reached /\ A = Avail
  OBVIOUS
<1>5. /\ L \in Nat /\ Hdr <= L /\ L <= Trans /\ r \in Nat /\ CurAt = r + 1 /\ L > A /\ A \in 1..SendCap
      /\ Hdr \in Nat \ {0} /\ SendCap \in Nat /\ Trans \in Nat /\ Trans <= SendCap
  <2>1. sdPack.off \in 0..(SendCap - 1)
    BY <1>0, <1>2, Sizes DEF ShapeInv, Counters
  <2>2. L > A /\ A = SendCap - sdPack.off
    BY <1>4 DEF FrameCut, Avail
  <2>3. L \in Nat /\ Hdr <= L /\ L <= Trans /\ r \in Nat /\ CurAt = r + 1
    BY <1>0, <1>2, <1>4, FrameHere
  <2>4. A \in 1..SendCap
    BY <2>1, <2>2, Sizes
  <2>. QED BY <2>2, <2>3, <2>4, Sizes
<1>6. /\ f \in 1..NSend /\ NSend \in Nat /\ sdBufs[f] \in Seq(Nat) /\ st[f] \in Nat
      /\ r = st[f] + Len(sdBufs[f])
      /\ \A k \in 1..Len(sdBufs[f]) : sdBufs[f][k] = st[f] + k
  BY <1>0, <1>2, <1>3, <1>4, OpenBuffer, Sizes
<1>7. CASE f = NSend
  <2>1. sdFault' \in {"throw", "beyond"}
    BY <1>4, <1>7 DEF FrameCut
  <2>. QED BY <2>1 DEF SInv
<1>8. CASE f # NSend
  <2>0. f + 1 \in 1..NSend
    BY <1>6, <1>8
  <2>1. PICK head, tail : head = sdBufs[f] \o Bytes(r + 1, A) /\ tail = Bytes(r + 1 + A, L - A)
    OBVIOUS
  <2>2. /\ head \in Seq(Nat) /\ Len(head) = Len(sdBufs[f]) + A
        /\ \A k \in 1..(Len(sdBufs[f]) + A) : head[k] = st[f] + k
    <3>1. r + 1 \in Nat /\ r + 1 = st[f] + Len(sdBufs[f]) + 1 /\ A \in Nat
      BY <1>5, <1>6
    <3>2. PICK a, b, t : a = r + 1 /\ b = st[f] /\ t = sdBufs[f]
      OBVIOUS
    <3>3. t \in Seq(Nat) /\ b \in Nat /\ (\A k \in 1..Len(t) : t[k] = b + k) /\ a = b + Len(t) + 1
      BY <1>6, <3>1, <3>2
    <3>n. a \in Nat /\ A \in Nat
      BY <3>1, <3>2
    <3>4. /\ t \o Bytes(a, A) \in Seq(Nat) /\ Len(t \o Bytes(a, A)) = Len(t) + A
          /\ \A k \in 1..(Len(t) + A) : (t \o Bytes(a, A))[k] = b + k
      BY <3>n, <3>3, BytesAdded, ZenonT(30)
    <3>. QED BY <2>1, <3>2, <3>4
  <2>3. /\ tail \in Seq(Nat) /\ Len(tail) = L - A
        /\ \A k \in 1..(L - A) : tail[k] = r + A + k
    <3>1. r + 1 + A \in Nat /\ L - A \in Nat
      BY <1>5
    <3>2. /\ tail \in Seq(Nat) /\ Len(tail) = L - A
          /\ \A k \in 1..(L - A) : tail[k] = r + 1 + A + k - 1
      BY <2>1, <3>1, BytesOf
    <3>. QED BY <1>5, <3>2
  <2>4. /\ sdBufs' = [sdBufs EXCEPT ![f] = head, ![f + 1] = tail]
        /\ sdValid' = [sdValid EXCEPT ![f] = SendCap, ![f + 1] = L - A]
        /\ sdPack' = NextFrame(f + 1, IF Hdr <= A THEN L - A ELSE L - Hdr)
        /\ UNCHANGED <<sdQueue, sdEnd, sdPost, sdCount, sdFinish, sdReq, sdWire>>
    BY <1>4, <1>5, <1>8, <2>1 DEF FrameCut, OffAfterCut, sdRound
  <2>5. sdBufs' \in [1..NSend -> Seq(Nat)] /\ sdValid' \in [1..NSend -> Int]
    <3>1. SendCap \in Int /\ L - A \in Int
      BY <1>5
    <3>2. sdBufs' \in [1..NSend -> Seq(Nat)]
      BY <1>6, <1>b, <2>0, <2>2, <2>3, <2>4
    <3>. QED BY <1>6, <1>b, <2>0, <2>4, <3>1, <3>2
  <2>6. (IF Hdr <= A THEN L - A ELSE L - Hdr) \in 0..(SendCap - 1)
    BY <1>5
  <2>7. /\ Counters' /\ Reached' = r + L /\ sdPack'.fi = f + 1
        /\ sdPack' \in [pkg : Nat, frame : Nat, fi : Nat, off : Nat, total : Nat]
    BY <1>0, <1>2, <1>4, <2>0, <2>4, <2>6, Advance
  <2>8. PICK su : su = [i \in 1..(NSend + 1) |-> IF i <= f THEN st[i] ELSE IF i = f + 1 THEN r + A ELSE r + L]
    OBVIOUS
  <2>9. /\ st \in [1..(NSend + 1) -> Nat] /\ \A i \in 1..(NSend + 1) : st[i] <= r
        /\ \A i \in 1..NSend : /\ st[i + 1] = st[i] + Len(sdBufs[i])
                               /\ \A k \in 1..Len(sdBufs[i]) : sdBufs[i][k] = st[i] + k
        /\ \A i \in (f + 1)..NSend : sdBufs[i] = <<>>
        /\ st[1] = TakenBytes
    BY <1>3, <1>4 DEF LaidToReached, Laid
  <2>10. su \in [1..(NSend + 1) -> Nat] /\ \A i \in 1..(NSend + 1) : su[i] <= r + L
    <3>1. \A i \in 1..(NSend + 1) : st[i] \in Nat
      BY <2>9
    <3>2. \A i \in 1..(NSend + 1) : su[i] \in Nat /\ su[i] <= r + L
      BY <1>5, <2>8, <2>9, <3>1
    <3>. QED BY <2>8, <3>2
  <2>11. ASSUME NEW i \in 1..NSend
         PROVE  /\ su[i + 1] = su[i] + Len(sdBufs'[i])
                /\ \A k \in 1..Len(sdBufs'[i]) : sdBufs'[i][k] = su[i] + k
    <3>0. i \in 1..(NSend + 1) /\ i + 1 \in 1..(NSend + 1)
      BY <1>6
    <3>1. CASE i < f
      <4>1. su[i] = st[i] /\ su[i + 1] = st[i + 1] /\ sdBufs'[i] = sdBufs[i]
        <5>1. sdBufs'[i] = sdBufs[i]
          BY <1>6, <1>b, <2>0, <2>4, <3>1
        <5>2. i <= f /\ i + 1 <= f
          BY <1>6, <3>1
        <5>. QED BY <2>8, <3>0, <5>1, <5>2
      <4>. QED BY <2>9, <4>1
    <3>2. CASE i = f
      <4>1. su[i] = st[f] /\ su[i + 1] = r + A /\ sdBufs'[i] = head
        <5>1. sdBufs'[i] = head
          BY <1>6, <1>b, <2>0, <2>4, <3>2
        <5>. QED BY <1>6, <2>8, <3>0, <3>2, <5>1
      <4>2. Len(sdBufs[f]) \in Nat
        BY <1>6
      <4>3. Len(sdBufs'[i]) = Len(sdBufs[f]) + A
        BY <2>2, <4>1
      <4>4. su[i + 1] = su[i] + Len(sdBufs'[i])
        <5>1. PICK g, m : g = st[f] /\ m = Len(sdBufs[f])
          OBVIOUS
        <5>2. g \in Nat /\ m \in Nat /\ r = g + m /\ A \in Nat
          BY <1>5, <1>6, <4>2, <5>1
        <5>3. su[i + 1] = (g + m) + A /\ su[i] = g /\ Len(sdBufs'[i]) = m + A
          BY <4>1, <4>3, <5>1, <5>2
        <5>. QED BY <5>2, <5>3
      <4>. QED BY <2>2, <4>1, <4>3, <4>4
    <3>3. CASE i = f + 1
      <4>1. su[i] = r + A /\ su[i + 1] = r + L /\ sdBufs'[i] = tail
        <5>1. sdBufs'[i] = tail
          BY <1>6, <1>b, <2>0, <2>4, <3>3
        <5>. QED BY <1>6, <2>8, <3>0, <3>3, <5>1
      <4>2. Len(sdBufs'[i]) = L - A
        BY <2>3, <4>1
      <4>3. su[i + 1] = su[i] + Len(sdBufs'[i])
        BY <1>5, <4>1, <4>2
      <4>. QED BY <2>3, <4>1, <4>2, <4>3
    <3>4. CASE i > f + 1
      <4>1. su[i] = r + L /\ su[i + 1] = r + L /\ sdBufs'[i] = <<>>
        <5>1. i \in (f + 1)..NSend /\ i # f /\ i # f + 1
          BY <1>6, <3>4
        <5>2. sdBufs'[i] = sdBufs[i] /\ sdBufs[i] = <<>>
          BY <1>6, <1>b, <2>0, <2>4, <2>9, <5>1
        <5>. QED BY <1>6, <2>8, <3>0, <3>4, <5>2
      <4>. QED BY <1>5, <4>1
    <3>. QED BY <1>6, <3>1, <3>2, <3>3, <3>4
  <2>12. Laid(su, Reached)'
    BY <2>7, <2>10, <2>11 DEF Laid
  <2>13. su[1] = TakenBytes'
    BY <1>6, <2>4, <2>8, <2>9 DEF TakenBytes
  <2>14. /\ \A i \in (f + 2)..(NSend + 1) : su[i] = r + L
         /\ \A i \in (f + 2)..NSend : sdBufs'[i] = <<>>
    <3>1. ASSUME NEW i \in (f + 2)..(NSend + 1) PROVE su[i] = r + L
      <4>1. i \in 1..(NSend + 1) /\ ~ (i <= f) /\ i # f + 1
        BY <1>6
      <4>. QED BY <2>8, <4>1
    <3>2. ASSUME NEW i \in (f + 2)..NSend PROVE sdBufs'[i] = <<>>
      <4>1. i \in (f + 1)..NSend /\ i \in 1..NSend /\ i # f /\ i # f + 1
        BY <1>6
      <4>. QED BY <1>b, <2>4, <2>9, <4>1
    <3>. QED BY <3>1, <3>2
  <2>15. LaidToReached(su)'
    <3>1. f + 1 + 1 = f + 2
      BY <1>6
    <3>. QED BY <2>7, <2>12, <2>13, <2>14, <3>1 DEF LaidToReached
  <2>16. SendInv'
    BY <1>2, <2>4, <2>5, <2>7, <2>15, PackFrame
  <2>. QED BY <2>16 DEF SInv
<1>. QED BY <1>7, <1>8

\* Packaging's result: the queue from the first package that was not laid.
LEMMA QueuePopped ==
    ASSUME QueueInv, NEW n \in Nat, n <= Len(sdQueue), sdQueue' = Popped(sdQueue, n), sdEnd' = sdEnd
    PROVE  QueueInv' /\ TakenBytes' = PlaceOf(n + 1) - 1
<1>1. sdQueue \in Seq(Packages) /\ Len(sdQueue) \in Nat /\ sdEnd \in Nat
  BY DEF QueueInv
<1>2. PICK q, m : q = sdQueue' /\ m = Len(sdQueue)
  OBVIOUS
<1>3. /\ q \in Seq(Packages) /\ Len(q) = m - n
      /\ \A i \in 1..(m - n) : q[i] = sdQueue[n + i]
  <2>1. q = SubSeq(sdQueue, n + 1, m)
    BY <1>2 DEF Popped
  <2>2. \A i \in (n + 1)..m : sdQueue[i] \in Packages
    BY <1>1, <1>2
  <2>3. n + 1 \in Int /\ m \in Int
    BY <1>1, <1>2
  <2>4. /\ q \in Seq(Packages) /\ Len(q) = IF n + 1 <= m THEN m - (n + 1) + 1 ELSE 0
        /\ \A i \in 1..(m - (n + 1) + 1) : q[i] = sdQueue[n + 1 + i - 1]
    BY <1>1, <1>2, <2>1, <2>2, <2>3, SubSeqProperties
  <2>5. m - (n + 1) + 1 = m - n /\ m - n \in Nat
    BY <1>1, <1>2
  <2>6. ASSUME NEW i \in 1..(m - n) PROVE q[i] = sdQueue[n + i]
    <3>1. n + 1 + i - 1 = n + i
      BY <2>5
    <3>. QED BY <2>4, <2>5, <3>1
  <2>. QED BY <1>1, <1>2, <2>4, <2>5, <2>6
<1>4. ASSUME NEW i \in 1..(m - n + 1) PROVE PlaceOf(i)' = PlaceOf(n + i)
  <2>1. CASE i <= m - n
    <3>1. i \in 1..(m - n) /\ n + i <= m
      BY <1>1, <1>2, <2>1
    <3>2. q[i] = sdQueue[n + i]
      BY <1>3, <3>1
    <3>. QED BY <1>2, <1>3, <2>1, <3>1, <3>2 DEF PlaceOf
  <2>2. CASE ~ (i <= m - n)
    <3>1. ~ (n + i <= m)
      BY <1>1, <1>2, <2>2
    <3>. QED BY <1>2, <1>3, <2>2, <3>1 DEF PlaceOf
  <2>. QED BY <2>1, <2>2
<1>5. QueueInv'
  <2>1. ASSUME NEW i \in 1..(m - n)
        PROVE  PlaceOf(i)' + PkgBytes(q[i].len) = PlaceOf(i + 1)'
    <3>1. /\ n + i \in 1..m /\ n + (i + 1) = n + i + 1
          /\ i \in 1..(m - n + 1) /\ i + 1 \in 1..(m - n + 1)
      BY <1>1, <1>2
    <3>2. PlaceOf(n + i) + PkgBytes(sdQueue[n + i].len) = PlaceOf(n + i + 1)
      BY <1>2, <3>1 DEF QueueInv
    <3>3. PlaceOf(i)' = PlaceOf(n + i)
      BY <1>4, <3>1
    <3>4. PlaceOf(i + 1)' = PlaceOf(n + i + 1)
      BY <1>4, <3>1
    <3>. QED BY <1>3, <3>2, <3>3, <3>4
  <2>. QED BY <1>1, <1>2, <1>3, <2>1 DEF QueueInv
<1>6. TakenBytes' = PlaceOf(1)' - 1
  <2>1. CASE m - n >= 1
    <3>1. q # <<>> /\ 1 <= Len(q)
      BY <1>3, <2>1
    <3>. QED BY <1>2, <3>1 DEF TakenBytes, PlaceOf
  <2>2. CASE m - n = 0
    <3>1. q = <<>> /\ ~ (1 <= Len(q))
      BY <1>3, <2>2
    <3>. QED BY <1>1, <1>2, <3>1 DEF TakenBytes, PlaceOf
  <2>. QED BY <1>1, <1>2, <2>1, <2>2
<1>7. PlaceOf(1)' = PlaceOf(n + 1)
  <2>1. 1 \in 1..(m - n + 1)
    BY <1>1, <1>2
  <2>. QED BY <1>4, <2>1
<1>. QED BY <1>5, <1>6, <1>7

LEMMA StepEnds ==
    ASSUME SendInv, PackingEnds PROVE SInv'
<1>0. QueueInv /\ ShapeInv /\ WireInv /\ sdPack.pkg > 0 /\ sdPack.pkg \in Nat
  BY DEF SendInv, PackingEnds, ShapeInv
<1>b. sdBufs \in [1..NSend -> Seq(Nat)] /\ sdValid \in [1..NSend -> Int] /\ NSend \in Nat
  BY <1>0, Sizes DEF ShapeInv
<1>1. Counters /\ sdFinish = 1
  BY <1>0 DEF SendInv, PackInv, Counters
<1>2. PICK st : LaidToReached(st)
  BY <1>0 DEF SendInv, PackInv
<1>3. PICK p, f, v : p = sdPack.pkg /\ f = sdPack.fi /\ v = Trimmed(p - 1 < Len(sdQueue))
  OBVIOUS
<1>4. p \in 1..(Len(sdQueue) + 1) /\ f \in 1..NSend /\ Len(sdQueue) \in Nat
  BY <1>0, <1>1, <1>3 DEF Counters, QueueInv
<1>5. CASE p - 1 = 0
  <2>1. sdFault' = "endless"
    BY <1>3, <1>5 DEF PackingEnds
  <2>. QED BY <2>1 DEF SInv
<1>6. CASE p - 1 # 0
  <2>1. /\ sdFault' = Verdict(v) /\ sdQueue' = Popped(sdQueue, p - 1) /\ sdValid' = v /\ sdPost' = 1
        /\ sdCount' = f /\ sdFinish' = 0 /\ sdReq' = Posted(1, v) /\ sdPack' = NotPacking
        /\ UNCHANGED <<sdEnd, sdBufs, sdWire>> /\ sdPack.frame = 1
    BY <1>3, <1>6 DEF PackingEnds
  <2> SUFFICES ASSUME sdFault' \in {"ok", "empty"} PROVE SendInv'
    BY DEF SInv
  <2>2. v \in [1..NSend -> Int]
    <3>1. sdPack.off \in Int /\ sdPack.fi \in 1..NSend
      BY <1>0, <1>3, <1>4 DEF ShapeInv
    <3>2. [sdValid EXCEPT ![sdPack.fi] = sdPack.off] \in [1..NSend -> Int]
      BY <1>b, <3>1
    <3>. QED BY <1>3, <1>b, <3>2 DEF Trimmed
  <2>3. \A i \in 1..f : v[i] = Len(sdBufs[i])
    BY <1>3, <2>1 DEF Verdict
  <2>4. QueueInv' /\ TakenBytes' = PlaceOf(p) - 1
    <3>1. p - 1 \in Nat /\ p - 1 <= Len(sdQueue) /\ (p - 1) + 1 = p
      BY <1>4
    <3>2. QueueInv' /\ TakenBytes' = PlaceOf((p - 1) + 1) - 1
      BY <1>0, <2>1, <3>1, QueuePopped
    <3>. QED BY <3>1, <3>2
  <2>5. Reached = TakenBytes'
    <3>1. Reached = PlaceOf(p) + (1 - 1) * Trans - 1 /\ PlaceOf(p) \in Nat
      BY <1>0, <1>3, <1>4, <2>1, Taken DEF Reached
    <3>2. (1 - 1) * Trans = 0
      BY Sizes
    <3>. QED BY <2>4, <3>1, <3>2
  <2>6. sdReq' \in [buf : 0..NSend, done : Nat] /\ sdReq'.buf \in {0, 1} /\ sdReq'.done = 0
    BY <1>4, <1>b, <2>1 DEF Posted, NoReq
  <2>7. ShapeInv'
    <3>1. NotPacking \in [pkg : Nat, frame : Nat, fi : Nat, off : Nat, total : Nat]
      BY DEF NotPacking
    <3>2. sdFinish' \in {0, 1} /\ sdCount' \in Nat /\ sdPost' \in Nat
      BY <1>4, <2>1
    <3>3. sdBufs' \in [1..NSend -> Seq(Nat)] /\ sdValid' \in [1..NSend -> Int]
      BY <1>b, <2>1, <2>2
    <3>4. sdPack' \in [pkg : Nat, frame : Nat, fi : Nat, off : Nat, total : Nat]
      BY <2>1, <3>1
    <3>. QED BY <2>6, <3>2, <3>3, <3>4 DEF ShapeInv
  <2>8. WireInv' /\ PackInv'
    BY <1>0, <2>1 DEF WireInv, PackInv, NotPacking
  <2>9. Sending(st)'
    <3>1. Laid(st, Reached) /\ st[1] = TakenBytes
      BY <1>2 DEF LaidToReached
    <3>2. st[f + 1] = Reached
      <4>1. f + 1 \in (f + 1)..(NSend + 1)
        BY <1>4, <1>b
      <4>. QED BY <1>2, <1>3, <4>1 DEF LaidToReached
    <3>3. Laid(st, TakenBytes)'
      BY <2>1, <2>5, <3>1 DEF Laid
    <3>4. Len(sdWire) = TakenBytes
      BY <1>0, <1>1 DEF WireInv
    <3>5. st[1] + 0 = st[1]
      <4>1. 1 \in 1..(NSend + 1) /\ st \in [1..(NSend + 1) -> Nat]
        BY <1>b, <3>1 DEF Laid
      <4>. QED BY <4>1
    <3>. QED BY <2>1, <2>5, <2>6, <3>1, <3>2, <3>3, <3>4, <3>5 DEF Sending
  <2>10. RoundInv'
    <3>1. sdPack'.pkg = 0
      BY <2>1 DEF NotPacking
    <3>2. sdReq'.done <= Len(sdBufs'[1])
      <4>1. sdBufs[1] \in Seq(Nat)
        BY <1>4, <1>b
      <4>. QED BY <2>1, <2>6, <4>1
    <3>3. sdCount' \in 1..NSend /\ sdPost' \in 1..sdCount' /\ \A i \in 1..f : sdValid'[i] = Len(sdBufs'[i])
      BY <1>4, <2>1, <2>3
    <3>. QED BY <2>1, <2>6, <2>9, <3>1, <3>2, <3>3 DEF RoundInv
  <2>. QED BY <2>4, <2>7, <2>8, <2>10 DEF SendInv
<1>. QED BY <1>5, <1>6

\* The socket takes a part of the open buffer.
LEMMA StepNotice ==
    ASSUME SendInv, NEW n \in 1..SendCap, NoticeComplateSend(n) PROVE SendInv'
<1>0. QueueInv /\ ShapeInv /\ WireInv /\ RoundInv /\ PackInv
  BY DEF SendInv
<1>b. /\ sdBufs \in [1..NSend -> Seq(Nat)] /\ sdValid \in [1..NSend -> Int] /\ NSend \in Nat
      /\ sdReq \in [buf : 0..NSend, done : Nat] /\ sdWire \in Seq(Nat)
  BY <1>0, Sizes DEF ShapeInv, WireInv
<1>1. sdReq.buf # 0 /\ sdFinish = 0
  <2>1. sdReq.buf # 0
    BY DEF NoticeComplateSend
  <2>. QED BY <1>0, <2>1 DEF WireInv, NoReq, ShapeInv
<1>2. PICK b, d : b = sdReq.buf /\ d = sdReq.done
  OBVIOUS
<1>3. /\ b = sdPost /\ sdPack.pkg = 0 /\ sdCount \in 1..NSend /\ sdPost \in 1..sdCount
      /\ \A i \in sdPost..sdCount : sdValid[i] = Len(sdBufs[i])
  BY <1>0, <1>1, <1>2 DEF RoundInv
<1>4. PICK st : Sending(st)
  BY <1>0, <1>1 DEF RoundInv
<1>5. /\ b \in 1..NSend /\ b \in sdPost..sdCount /\ d \in Nat /\ n \in Nat \ {0}
      /\ sdBufs[b] \in Seq(Nat) /\ sdValid[b] = Len(sdBufs[b]) /\ Len(sdBufs[b]) \in Nat
  <2>1. b \in 1..NSend /\ b \in sdPost..sdCount
    BY <1>3, <1>b
  <2>2. n \in Nat \ {0}
    BY Sizes
  <2>3. sdBufs[b] \in Seq(Nat)
    BY <1>b, <2>1
  <2>. QED BY <1>2, <1>3, <1>b, <2>1, <2>2, <2>3
<1>6. /\ d + n <= Len(sdBufs[b])
      /\ sdWire' = sdWire \o SubSeq(sdBufs[b], d + 1, d + n)
      /\ UNCHANGED <<sdQueue, sdEnd, sdBufs, sdPack>>
  BY <1>2, <1>5 DEF NoticeComplateSend
<1>7. /\ st \in [1..(NSend + 1) -> Nat] /\ st[b + 1] = st[b] + Len(sdBufs[b])
      /\ \A k \in 1..Len(sdBufs[b]) : sdBufs[b][k] = st[b] + k
      /\ \A i \in 1..(NSend + 1) : st[i] <= TakenBytes
      /\ st[sdCount + 1] = TakenBytes /\ Len(sdWire) = st[b] + d
  BY <1>2, <1>3, <1>4, <1>5 DEF Sending, Laid
<1>8. st[b] \in Nat /\ TakenBytes \in Nat /\ Len(sdWire) \in Nat
  BY <1>0, <1>5, <1>7, <1>b, Taken
\* The bytes taken follow those on the wire.
<1>9. /\ sdWire' \in Seq(Nat) /\ Len(sdWire') = Len(sdWire) + n
      /\ \A k \in 1..(Len(sdWire) + n) : sdWire'[k] = k
  <2>1. PICK s, w : s = SubSeq(sdBufs[b], d + 1, d + n) /\ w = sdWire
    OBVIOUS
  <2>2. /\ s \in Seq(Nat) /\ Len(s) = n
        /\ \A k \in 1..n : s[k] = sdBufs[b][d + k]
    <3>1. PICK B : B = sdBufs[b]
      OBVIOUS
    <3>2. \A i \in (d + 1)..(d + n) : B[i] \in Nat
      BY <1>5, <1>6, <3>1
    <3>3. d + 1 \in Int /\ d + n \in Int /\ B \in Seq(Nat)
      BY <1>5, <3>1
    <3>4. /\ s \in Seq(Nat) /\ Len(s) = IF d + 1 <= d + n THEN (d + n) - (d + 1) + 1 ELSE 0
          /\ \A k \in 1..((d + n) - (d + 1) + 1) : s[k] = B[d + 1 + k - 1]
      BY <2>1, <3>1, <3>2, <3>3, SubSeqProperties
    <3>5. (d + n) - (d + 1) + 1 = n /\ d + 1 <= d + n
      BY <1>5
    <3>6. ASSUME NEW k \in 1..n PROVE s[k] = B[d + k]
      <4>1. d + 1 + k - 1 = d + k
        BY <1>5
      <4>. QED BY <3>4, <3>5, <4>1
    <3>. QED BY <3>1, <3>4, <3>5, <3>6
  <2>3. /\ w \o s \in Seq(Nat) /\ Len(w \o s) = Len(w) + Len(s)
        /\ \A k \in 1..(Len(w) + Len(s)) : (w \o s)[k] = IF k <= Len(w) THEN w[k] ELSE s[k - Len(w)]
    <3>1. w \in Seq(Nat) /\ s \in Seq(Nat)
      BY <1>b, <2>1, <2>2
    <3>. QED BY <3>1, ConcatProperties
  <2>4. ASSUME NEW k \in 1..(Len(w) + n) PROVE (w \o s)[k] = k
    <3>0. (w \o s)[k] = IF k <= Len(w) THEN w[k] ELSE s[k - Len(w)]
      BY <2>2, <2>3
    <3>1. CASE k <= Len(w)
      BY <1>0, <1>8, <2>1, <3>0, <3>1 DEF WireInv
    <3>2. CASE ~ (k <= Len(w))
      <4>0. PICK j, l, m, g : j = k - Len(w) /\ l = Len(w) /\ m = Len(sdBufs[b]) /\ g = st[b]
        OBVIOUS
      <4>1. /\ l \in Nat /\ m \in Nat /\ g \in Nat /\ l = g + d /\ d + n <= m /\ d \in Nat
            /\ n \in Nat /\ k \in 1..(l + n) /\ ~ (k <= l) /\ j = k - l
        <5>1. l = g + d
          BY <1>7, <2>1, <4>0
        <5>2. l \in Nat /\ m \in Nat /\ g \in Nat /\ d \in Nat /\ n \in Nat
          BY <1>5, <1>8, <2>1, <4>0
        <5>3. d + n <= m
          BY <1>6, <4>0
        <5>. QED BY <3>2, <4>0, <5>1, <5>2, <5>3
      <4>2. j \in 1..n /\ d + j \in 1..m /\ g + (d + j) = k
        BY <4>1
      <4>3. s[j] = sdBufs[b][d + j]
        BY <2>2, <4>2
      <4>4. sdBufs[b][d + j] = g + (d + j)
        BY <1>7, <4>0, <4>2
      <4>. QED BY <3>0, <3>2, <4>0, <4>2, <4>3, <4>4
    <3>. QED BY <3>1, <3>2
  <2>. QED BY <1>6, <2>1, <2>2, <2>3, <2>4
<1>10. TakenBytes' = TakenBytes /\ QueueInv' /\ Laid(st, TakenBytes)'
  <2>1. TakenBytes' = TakenBytes /\ QueueInv'
    BY <1>0, <1>6 DEF TakenBytes, QueueInv, PlaceOf
  <2>2. Laid(st, TakenBytes)
    BY <1>4 DEF Sending
  <2>. QED BY <1>6, <2>1, <2>2 DEF Laid
<1>11. PackInv'
  BY <1>3, <1>6 DEF PackInv
<1>12. CASE d + n < sdValid[b]
  <2>1. sdReq' = [sdReq EXCEPT !.done = d + n] /\ UNCHANGED <<sdValid, sdPost, sdCount, sdFinish>>
    BY <1>2, <1>12 DEF NoticeComplateSend, Resume
  <2>2. sdReq' \in [buf : 0..NSend, done : Nat] /\ sdReq'.buf = b /\ sdReq'.done = d + n
    BY <1>2, <1>5, <1>b, <2>1
  <2>3. ShapeInv' /\ WireInv'
    <3>1. ShapeInv'
      BY <1>0, <1>6, <2>1, <2>2 DEF ShapeInv
    <3>2. sdFinish' = 0
      BY <1>1, <2>1
    <3>. QED BY <1>9, <3>1, <3>2 DEF WireInv
  <2>4. Sending(st)'
    <3>1. Len(sdWire') = st[b] + (d + n)
      BY <1>5, <1>7, <1>8, <1>9
    <3>. QED BY <1>3, <1>7, <1>10, <2>1, <2>2, <3>1 DEF Sending
  <2>5. RoundInv'
    <3>1. sdPack'.pkg = 0 /\ sdCount' \in 1..NSend /\ sdPost' \in 1..sdCount' /\ b = sdPost'
      BY <1>3, <1>6, <2>1
    <3>2. sdReq'.buf \in {0, sdPost'} /\ (sdReq'.buf = 0 => sdReq'.done = 0)
      BY <1>5, <2>2, <3>1
    <3>3. sdReq'.done <= Len(sdBufs'[sdPost'])
      BY <1>6, <2>2, <3>1
    <3>4. \A i \in sdPost'..sdCount' : sdValid'[i] = Len(sdBufs'[i])
      BY <1>3, <1>6, <2>1
    <3>. QED BY <2>4, <3>1, <3>2, <3>3, <3>4 DEF RoundInv
  <2>. QED BY <1>10, <1>11, <2>3, <2>5 DEF SendInv
<1>13. CASE ~ (d + n < sdValid[b])
  <2>0. d + n = Len(sdBufs[b])
    <3>1. PICK m : m = Len(sdBufs[b])
      OBVIOUS
    <3>2. m \in Nat /\ d \in Nat /\ n \in Nat
      BY <1>5, <3>1
    <3>3. d + n <= m
      BY <1>6, <3>1
    <3>4. ~ (d + n < m)
      BY <1>5, <1>13, <3>1
    <3>5. d + n = m
      BY <3>2, <3>3, <3>4
    <3>. QED BY <3>1, <3>5
  <2>1. sdValid' = [sdValid EXCEPT ![b] = 0] /\ sdValid' \in [1..NSend -> Int]
    <3>1. sdValid' = [sdValid EXCEPT ![b] = 0]
      BY <1>2, <1>13 DEF NoticeComplateSend, Resume
    <3>2. b \in 1..NSend /\ sdValid \in [1..NSend -> Int]
      BY <1>5, <1>b
    <3>. QED BY <3>1, <3>2
  <2>2. Len(sdWire') = st[b + 1]
    BY <1>5, <1>7, <1>8, <1>9, <2>0
  <2>3. CASE sdPost = sdCount
    <3>1. sdPost' = 1 /\ sdCount' = 0 /\ sdFinish' = 1 /\ sdReq' = NoReq
      BY <1>2, <1>13, <2>3 DEF NoticeComplateSend, Resume, LastBuffer
    <3>2. NoReq \in [buf : 0..NSend, done : Nat]
      BY <1>b DEF NoReq
    <3>3. ShapeInv'
      BY <1>0, <1>6, <2>1, <3>1, <3>2 DEF ShapeInv
    <3>4. WireInv'
      BY <1>3, <1>7, <1>9, <1>10, <2>2, <2>3, <3>1 DEF WireInv
    <3>5. RoundInv'
      BY <3>1 DEF RoundInv
    <3>. QED BY <1>10, <1>11, <3>3, <3>4, <3>5 DEF SendInv
  <2>4. CASE sdPost # sdCount
    <3>1. sdPost' = b + 1 /\ sdReq' = Posted(b + 1, sdValid) /\ UNCHANGED <<sdCount, sdFinish>>
      BY <1>2, <1>3, <1>13, <2>4 DEF NoticeComplateSend, Resume, LastBuffer
    <3>2. b + 1 \in 1..sdCount /\ b + 1 \in 1..NSend
      BY <1>3, <1>5, <1>b, <2>4
    <3>3. sdReq' \in [buf : 0..NSend, done : Nat] /\ sdReq'.buf \in {0, b + 1} /\ sdReq'.done = 0
      BY <1>b, <3>1, <3>2 DEF Posted, NoReq
    <3>4. ShapeInv' /\ WireInv'
      <4>1. sdPost' \in Nat
        BY <3>1, <3>2
      <4>2. ShapeInv'
        BY <1>0, <1>6, <2>1, <3>1, <3>3, <4>1 DEF ShapeInv
      <4>3. sdFinish' = 0
        BY <1>1, <3>1
      <4>. QED BY <1>9, <4>2, <4>3 DEF WireInv
    <3>5. Sending(st)'
      <4>1. st[b + 1] + 0 = st[b + 1]
        BY <1>5, <1>7, <1>8
      <4>. QED BY <1>7, <1>10, <2>2, <3>1, <3>3, <4>1 DEF Sending
    <3>6. \A i \in (b + 1)..sdCount : sdValid'[i] = Len(sdBufs'[i])
      <4> SUFFICES ASSUME NEW i \in (b + 1)..sdCount PROVE sdValid'[i] = Len(sdBufs'[i])
        OBVIOUS
      <4>1. i \in sdPost..sdCount /\ i # b /\ i \in 1..NSend
        BY <1>3, <1>5, <1>b
      <4>. QED BY <1>3, <1>6, <1>b, <2>1, <4>1
    <3>7. sdReq'.done <= Len(sdBufs'[b + 1])
      <4>1. sdBufs[b + 1] \in Seq(Nat)
        BY <1>b, <3>2
      <4>. QED BY <1>6, <3>3, <4>1
    <3>8. RoundInv'
      BY <1>3, <1>6, <3>1, <3>2, <3>3, <3>5, <3>6, <3>7 DEF RoundInv
    <3>. QED BY <1>10, <1>11, <3>4, <3>8 DEF SendInv
  <2>. QED BY <2>3, <2>4
<1>. QED BY <1>12, <1>13

-----------------------------------------------------------------------------
(* The theorem *)

LEMMA SendInit == ASSUME SdInit PROVE SInv
<1>1. /\ sdQueue = <<>> /\ sdEnd = 0 /\ Len(sdQueue) = 0 /\ sdWire = <<>> /\ sdFinish = 1 /\ sdReq = NoReq
      /\ sdPack = NotPacking
  BY DEF SdInit
<1>2. QueueInv
  BY <1>1 DEF QueueInv
<1>3. ShapeInv
  <2>1. NoReq \in [buf : 0..NSend, done : Nat]
    BY Sizes DEF NoReq
  <2>2. NotPacking \in [pkg : Nat, frame : Nat, fi : Nat, off : Nat, total : Nat]
    BY DEF NotPacking
  <2>3. sdBufs \in [1..NSend -> Seq(Nat)] /\ sdValid \in [1..NSend -> Int]
    BY DEF SdInit
  <2>. QED BY <2>1, <2>2, <2>3 DEF SdInit, ShapeInv
<1>4. WireInv
  BY <1>1 DEF WireInv, TakenBytes
<1>5. PackInv /\ RoundInv
  BY <1>1 DEF PackInv, RoundInv, NotPacking
<1>. QED BY <1>2, <1>3, <1>4, <1>5 DEF SInv, SendInv

LEMMA SendStep == ASSUME SInv, [SdNext]_sdVars PROVE SInv'
<1>1. ASSUME Pack PROVE SInv'
  <2>1. sdFault = "ok"
    BY <1>1 DEF Pack, PostSend, FrameFits, FrameCut, PackingEnds, Packing
  <2>2. SendInv
    BY <2>1 DEF SInv
  <2>3. CASE PostSend
    BY <2>2, <2>3, StepPost DEF SInv
  <2>. QED BY <1>1, <2>2, <2>3, StepFits, StepCut, StepEnds DEF Pack
<1>2. ASSUME NEW len \in PkgLens, Send(len) PROVE SInv'
  <2>1. sdFault' = sdFault
    BY <1>2 DEF Send
  <2>. QED BY <1>2, <2>1, StepSend DEF SInv
<1>3. ASSUME NEW n \in 1..SendCap, NoticeComplateSend(n) PROVE SInv'
  <2>1. sdFault' = sdFault
    BY <1>3 DEF NoticeComplateSend
  <2>. QED BY <1>3, <2>1, StepNotice DEF SInv
<1>4. CASE UNCHANGED sdVars
  <2>1. UNCHANGED <<sdQueue, sdEnd, sdBufs, sdValid, sdPost, sdCount, sdFinish, sdReq, sdPack, sdWire, sdFault>>
    BY <1>4 DEF sdVars
  <2> SUFFICES ASSUME sdFault' \in {"ok", "empty"} PROVE SendInv'
    BY DEF SInv
  <2>2. QueueInv /\ ShapeInv /\ WireInv /\ PackInv /\ RoundInv
    BY <2>1 DEF SInv, SendInv
  <2>3. TakenBytes' = TakenBytes /\ Reached' = Reached
    BY <2>1 DEF TakenBytes, Reached, PlaceOf
  <2>4. QueueInv' /\ ShapeInv' /\ WireInv'
    <3>1. QueueInv'
      BY <2>1, <2>2 DEF QueueInv, PlaceOf
    <3>2. ShapeInv'
      BY <2>1, <2>2 DEF ShapeInv
    <3>3. WireInv'
      BY <2>1, <2>2, <2>3 DEF WireInv
    <3>. QED BY <3>1, <3>2, <3>3
  <2>5. PackInv'
    <3> SUFFICES ASSUME sdPack'.pkg > 0 PROVE Counters' /\ \E st : LaidToReached(st)'
      BY DEF PackInv
    <3>1. Counters /\ \E st : LaidToReached(st)
      BY <2>1, <2>2 DEF PackInv
    <3>2. PICK st : LaidToReached(st)
      BY <3>1
    <3>3. Laid(st, Reached) /\ st[1] = TakenBytes
      BY <3>2 DEF LaidToReached
    <3>4. Laid(st, Reached)'
      BY <2>1, <2>3, <3>3 DEF Laid
    <3>5. LaidToReached(st)'
      BY <2>1, <2>3, <3>2, <3>3, <3>4 DEF LaidToReached
    <3>6. Counters'
      BY <2>1, <3>1 DEF Counters
    <3>. QED BY <3>5, <3>6
  <2>6. RoundInv'
    <3> SUFFICES ASSUME sdFinish' = 0 PROVE RoundInv'
      BY DEF RoundInv
    <3>1. PICK st : Sending(st)
      BY <2>1, <2>2 DEF RoundInv
    <3>2. Laid(st, TakenBytes)'
      BY <2>1, <2>3, <3>1 DEF Laid, Sending
    <3>3. Sending(st)'
      BY <2>1, <2>3, <3>1, <3>2 DEF Sending
    <3>. QED BY <2>1, <2>2, <3>3 DEF RoundInv
  <2>. QED BY <2>4, <2>5, <2>6 DEF SendInv
<1>. QED BY <1>1, <1>2, <1>3, <1>4 DEF SdNext

LEMMA SendFacts == ASSUME SInv PROVE WireIsFraming
<1> SUFFICES ASSUME sdFault \in {"ok", "empty"}
             PROVE  /\ Len(sdWire) <= TakenBytes
                    /\ \A k \in DOMAIN sdWire : sdWire[k] = k
                    /\ sdFinish = 1 => Len(sdWire) = TakenBytes
  BY DEF WireIsFraming
<1>0. QueueInv /\ ShapeInv /\ WireInv /\ RoundInv
  BY DEF SInv, SendInv
<1>1. /\ \A k \in DOMAIN sdWire : sdWire[k] = k
      /\ sdFinish = 1 => Len(sdWire) = TakenBytes
  BY <1>0 DEF WireInv
<1>2. CASE sdFinish = 1
  BY <1>0, <1>1, <1>2, Taken
<1>3. CASE sdFinish = 0
  <2>1. PICK st : Sending(st)
    BY <1>0, <1>3 DEF RoundInv
  <2>2. sdPost \in 1..NSend /\ NSend \in Nat /\ sdReq.done \in Nat /\ sdReq.done <= Len(sdBufs[sdPost])
    BY <1>0, <1>3, Sizes DEF RoundInv, ShapeInv
  <2>3. sdPost \in 1..(NSend + 1) /\ sdPost + 1 \in 1..(NSend + 1)
    BY <2>2
  <2>4. /\ Len(sdWire) = st[sdPost] + sdReq.done /\ st[sdPost + 1] = st[sdPost] + Len(sdBufs[sdPost])
        /\ st[sdPost + 1] <= TakenBytes /\ st[sdPost] \in Nat
    BY <2>1, <2>2, <2>3 DEF Sending, Laid
  <2>5. Len(sdBufs[sdPost]) \in Nat /\ TakenBytes \in Nat
    BY <1>0, <2>2, Taken DEF ShapeInv
  <2>6. Len(sdWire) <= TakenBytes
    BY <2>2, <2>4, <2>5
  <2>. QED BY <1>1, <2>6
<1>. QED BY <1>0, <1>2, <1>3 DEF ShapeInv

\* Packaging, PostSend and NoticeComplateSend: the wire has the bytes of the frames of the
\* packages taken, in order and each once, and all of them when a round is over, for any
\* sizes, packages and partial sends.
THEOREM WireSafe == SdSpec => []WireIsFraming
<1>1. SdInit => SInv
  BY SendInit
<1>2. SInv /\ [SdNext]_sdVars => SInv'
  BY SendStep
<1>3. SInv => WireIsFraming
  BY SendFacts
<1>. QED BY <1>1, <1>2, <1>3, PTL DEF SdSpec
=============================================================================
