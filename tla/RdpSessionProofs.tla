--------------------------- MODULE RdpSessionProofs ---------------------------
(***************************************************************************)
(* Proofs about RdpSession, for any handlers, frame sizes and graphics     *)
(* modes: who may use the client and when it is freed, and of which frame  *)
(* an image is.                                                            *)
(***************************************************************************)
EXTENDS RdpSession, TLAPS

(* The client, the session's pointer to it, its thread and Close agree. *)
Owner ==
  /\ mem = "none" <=> loop = "none"
  /\ mem = "freed" <=> close = "closed"
  /\ ptr <=> mem = "live" /\ close \in {"no", "wait"}
  /\ done <=> loop = "ended"
  /\ err => loop \in {"finish", "ended"}
  /\ close \in {"free", "closed"} => done
  /\ boot \in {"start", "failed"} => mem # "live"
  /\ boot \in {"waiting", "rejected", "up", "crashed"} => mem # "none"

(* Whose turn it is: StartSession closes only what it does not use any     *)
(* more, and the server only what its handlers have left, or it is late.   *)
Turn ==
  /\ boot = "waiting" => close = "no" /\ blanks < BlankLimit
  /\ boot = "up" /\ serve = "open" => close = "no"
  /\ serve = "draining" => boot = "up"
  /\ reader[Starter].pc # "idle" => boot = "waiting"
  /\ \A h \in Handlers :
       reader[h].pc # "idle" \/ h \in again => boot = "up" /\ (close # "no" => late)
  /\ uaf => late

(* What the snapshot holds, and what each reader knows of the frame.  The  *)
(* frame changes under a reader only with its moved set, and under a       *)
(* snapshot update only with raced set.                                    *)
Holding(x) ==
  /\ x.pc \in {"copy", "copy2"} => x.frame = NoFrame \/ x.frame = gdi
  /\ x.pc \in {"size", "update2", "copy2", "take"} /\ ~x.moved => snap.bytes \in {gdi, NoFrame}
Awake(x) ==
  x.pc # "idle" /\ ~x.moved =>
    /\ loop # "hangup"
    /\ x.pc \in {"copy", "copy2"} /\ x.frame = NoFrame => gdi = NoFrame
SnapshotOK ==
  /\ snap.bytes = snap.dims
  /\ gdi = NoFrame /\ loop # "hangup" => snap.bytes = NoFrame
Frames ==
  /\ \A r \in Readers : Awake(reader[r])
  /\ ~raced => SnapshotOK /\ \A r \in Readers : Holding(reader[r])

IInv == TypeOK /\ Owner /\ Turn /\ Frames

LEMMA RecordTypes ==
  /\ NoFrame \in Sizes /\ NoSnapshot \in Snapshot /\ NoRead \in Reader
  /\ FrameSizes \subseteq Sizes
BY DEF Sizes, NoFrame, NoSnapshot, Snapshot, NoRead, Reader

(* The readers, when the frame changes under them. *)
LEMMA RedrawTypes ==
  ASSUME reader \in [Readers -> Reader], NEW size \in Sizes, Redraw(size)
  PROVE  reader' \in [Readers -> Reader]
<1>1. ASSUME NEW r \in Readers PROVE [reader[r] EXCEPT !.moved = TRUE] \in Reader
  BY <1>1 DEF Reader
<1>2. QED
  BY <1>1, RecordTypes DEF Redraw

(* A step of one reader keeps Frames when it does so for that reader, and  *)
(* when what it copies is the frame.                                       *)
LEMMA ReaderFrames ==
  ASSUME IInv, NEW r \in Readers, NEW x \in Reader,
         reader' = [reader EXCEPT ![r] = x], UNCHANGED <<loop, gdi, raced>>,
         Awake(x), ~raced => Holding(x)',
         ~raced => snap' = snap \/ (snap' = [bytes |-> gdi, dims |-> gdi])
  PROVE  Frames'
<1>1. \A q \in Readers : reader'[q] = IF q = r THEN x ELSE reader[q]
  BY DEF IInv, TypeOK
<1>2. Awake(x)'
  BY DEF Awake
<1>3. ASSUME NEW q \in Readers PROVE Awake(reader[q])' /\ (~raced => Holding(reader[q])')
  <2>1. CASE q = r
    BY <1>1, <1>2, <2>1 DEF Awake, Holding
  <2>2. CASE q # r
    <3>1. reader'[q] = reader[q]
      BY <1>1, <2>2
    <3>2. Awake(reader[q]) /\ (~raced => Holding(reader[q]))
      BY DEF IInv, Frames
    <3>3. QED
      BY <3>1, <3>2 DEF Awake, Holding
  <2>3. QED
    BY <2>1, <2>2
<1>4. ~raced => SnapshotOK'
  BY DEF IInv, Frames, SnapshotOK
<1>5. QED
  BY <1>3, <1>4 DEF Frames

(* When the frame changes, every reader at work is told, and an update in  *)
(* the middle of which it changes is raced.                                *)
LEMMA RedrawFrames ==
  ASSUME IInv, NEW size \in Sizes, Redraw(size), snap' \in {snap, NoSnapshot},
         size = NoFrame => loop' = "hangup"
  PROVE  Frames'
<1>1. ASSUME NEW r \in Readers
      PROVE  /\ reader'[r].pc = reader[r].pc
             /\ reader[r].pc # "idle" => reader'[r].frame = reader[r].frame /\ reader'[r].moved
  <2>1. reader[r] \in Reader /\ reader'[r] = IF reader[r].pc = "idle" THEN NoRead
                                              ELSE [reader[r] EXCEPT !.moved = TRUE]
    BY DEF IInv, TypeOK, Redraw
  <2>2. QED
    BY <2>1 DEF Reader, NoRead
<1>2. ASSUME NEW r \in Readers PROVE Awake(reader[r])'
  BY <1>1 DEF Awake
<1>3. ASSUME ~raced' PROVE SnapshotOK' /\ \A r \in Readers : Holding(reader[r])'
  <2>1. ~raced /\ \A r \in Readers : reader[r].pc \in {"copy", "copy2"} => reader[r].frame = NoFrame
    BY <1>3 DEF Redraw, IInv, TypeOK, SeenTypes
  <2>2. SnapshotOK'
    BY <2>1 DEF IInv, Frames, SnapshotOK, Redraw, NoSnapshot
  <2>3. ASSUME NEW r \in Readers PROVE Holding(reader[r])'
    BY <1>1, <2>1 DEF Holding
  <2>4. QED
    BY <2>2, <2>3
<1>4. QED
  BY <1>2, <1>3 DEF Frames

(* The initial states satisfy the inductive invariant. *)
THEOREM InitIInv == Init => IInv
<1> SUFFICES ASSUME Init PROVE IInv
  OBVIOUS
<1> USE RdpAssumption
<1>1. TypeOK
  <2>1. 1 \in 1..Modes /\ 0 \in 0..BlankLimit
    BY DEF RdpAssumption
  <2>2. QED
    BY <2>1, RecordTypes DEF Init, TypeOK, StartTypes, SessionTypes,
       ThreadTypes, FrameTypes, SeenTypes
<1>2. Owner /\ Turn
  BY DEF Init, Owner, Turn, NoRead, Readers
<1>3. Frames
  BY DEF Init, Frames, SnapshotOK, Holding, Awake, NoRead, NoSnapshot, NoFrame
<1>4. QED
  BY <1>1, <1>2, <1>3 DEF IInv

-----------------------------------------------------------------------------
(* The session's thread. *)
LEMMA ConnectInv ==
  ASSUME IInv, Connect
  PROVE  IInv'
<1> USE RdpAssumption DEF IInv, Connect, Redraw
<1>1. Owner'
  BY DEF Owner, TypeOK, SessionTypes, start, session, server
<1>2. TypeOK'
  <2>1. StartTypes'
    BY DEF TypeOK, StartTypes, start, session, server
  <2>1a. SessionTypes'
    <3>1. ptr' \in BOOLEAN /\ mem' \in {"none", "live", "freed"}
      BY DEF TypeOK, SessionTypes, start, session, server
    <3>2. /\ close' \in {"no", "wait", "free", "closed"} /\ serve' \in {"open", "draining"}
          /\ again' \subseteq Handlers
      BY DEF TypeOK, SessionTypes, start, session, server
    <3>3. aborted' \in BOOLEAN
      BY DEF TypeOK, SessionTypes, start, session, server
    <3>4. QED
      BY <1>1, <3>1, <3>2, <3>3 DEF Owner, SessionTypes
  <2>2. ThreadTypes' /\ SeenTypes'
    BY DEF TypeOK, ThreadTypes, SeenTypes, start, session, server
  <2>3. FrameTypes'
    BY RecordTypes DEF TypeOK, FrameTypes, Snapshot, Reader, start, session, server
  <2>4. reader' \in [Readers -> Reader]
    BY RecordTypes, RedrawTypes DEF TypeOK, FrameTypes, Reader, start, session, server
  <2>5. QED
    BY <2>1, <2>1a, <2>2, <2>3, <2>4 DEF TypeOK
<1>3. Turn'
  BY DEF Owner, Turn, TypeOK, StartTypes, SessionTypes, NoRead, Readers, start,
     session, server
<1>4. Frames'
  BY RecordTypes, RedrawFrames DEF RdpAssumption, Sizes, NoFrame
<1>5. QED
  BY <1>1, <1>2, <1>3, <1>4

(* A connection that fails. *)
LEMMA ConnectFailsInv ==
  ASSUME IInv, ConnectFails
  PROVE  IInv'
<1> USE RdpAssumption DEF IInv, ConnectFails
<1>1. Owner'
  BY DEF Owner, TypeOK, SessionTypes, start, session, server, seen
<1>2. TypeOK'
  <2>1. StartTypes'
    BY DEF TypeOK, StartTypes, start, session, server, seen
  <2>1a. SessionTypes'
    <3>1. ptr' \in BOOLEAN /\ mem' \in {"none", "live", "freed"}
      BY DEF TypeOK, SessionTypes, start, session, server, seen
    <3>2. /\ close' \in {"no", "wait", "free", "closed"} /\ serve' \in {"open", "draining"}
          /\ again' \subseteq Handlers
      BY DEF TypeOK, SessionTypes, start, session, server, seen
    <3>3. aborted' \in BOOLEAN
      BY DEF TypeOK, SessionTypes, start, session, server, seen
    <3>4. QED
      BY <1>1, <3>1, <3>2, <3>3 DEF Owner, SessionTypes
  <2>2. ThreadTypes' /\ SeenTypes'
    BY DEF TypeOK, ThreadTypes, SeenTypes, start, session, server, seen
  <2>3. FrameTypes'
    BY RecordTypes DEF TypeOK, FrameTypes, Snapshot, Reader, start, session, server,
       seen
  <2>4. reader' \in [Readers -> Reader]
    BY RecordTypes DEF TypeOK, FrameTypes, Reader, start, session, server, seen
  <2>5. QED
    BY <2>1, <2>1a, <2>2, <2>3, <2>4 DEF TypeOK
<1>3. Turn'
  BY DEF Owner, Turn, TypeOK, StartTypes, SessionTypes, NoRead, Readers, start,
     session, server, seen
<1>4. Frames'
  BY DEF Frames, SnapshotOK, Holding, Awake, TypeOK, FrameTypes, Snapshot,
     start, session, server, seen
<1>5. QED
  BY <1>1, <1>2, <1>3, <1>4

(* The thread's own snapshot is of its frame. *)
LEMMA EndPaintInv ==
  ASSUME IInv, EndPaint
  PROVE  IInv'
<1> USE RdpAssumption DEF IInv, EndPaint
<1>1. Owner'
  BY DEF Owner, TypeOK, SessionTypes, start, session, server, thread, seen
<1>2. TypeOK'
  <2>1. StartTypes'
    BY DEF TypeOK, StartTypes, start, session, server, thread, seen
  <2>1a. SessionTypes'
    <3>1. ptr' \in BOOLEAN /\ mem' \in {"none", "live", "freed"}
      BY DEF TypeOK, SessionTypes, start, session, server, thread, seen
    <3>2. /\ close' \in {"no", "wait", "free", "closed"} /\ serve' \in {"open", "draining"}
          /\ again' \subseteq Handlers
      BY DEF TypeOK, SessionTypes, start, session, server, thread, seen
    <3>3. aborted' \in BOOLEAN
      BY DEF TypeOK, SessionTypes, start, session, server, thread, seen
    <3>4. QED
      BY <1>1, <3>1, <3>2, <3>3 DEF Owner, SessionTypes
  <2>2. ThreadTypes' /\ SeenTypes'
    BY DEF TypeOK, ThreadTypes, SeenTypes, start, session, server, thread, seen
  <2>3. FrameTypes'
    BY RecordTypes DEF TypeOK, FrameTypes, Snapshot, Reader, start, session, server,
       thread, seen
  <2>4. reader' \in [Readers -> Reader]
    BY RecordTypes DEF TypeOK, FrameTypes, Reader, start, session, server, thread, seen
  <2>5. QED
    BY <2>1, <2>1a, <2>2, <2>3, <2>4 DEF TypeOK
<1>3. Turn'
  BY DEF Owner, Turn, TypeOK, StartTypes, SessionTypes, NoRead, Readers, start,
     session, server, thread, seen
<1>4. Frames'
  BY DEF Frames, SnapshotOK, Holding, Awake, TypeOK, FrameTypes, Snapshot,
     start, session, server, thread, seen
<1>5. QED
  BY <1>1, <1>2, <1>3, <1>4

(* A resize marks every reader that is at work. *)
LEMMA ResizeInv ==
  ASSUME IInv, Resize
  PROVE  IInv'
<1> USE RdpAssumption DEF IInv, Resize, Redraw
<1>1. Owner'
  BY DEF Owner, TypeOK, SessionTypes, start, session, server
<1>2. TypeOK'
  <2>1. StartTypes'
    BY DEF TypeOK, StartTypes, start, session, server
  <2>1a. SessionTypes'
    <3>1. ptr' \in BOOLEAN /\ mem' \in {"none", "live", "freed"}
      BY DEF TypeOK, SessionTypes, start, session, server
    <3>2. /\ close' \in {"no", "wait", "free", "closed"} /\ serve' \in {"open", "draining"}
          /\ again' \subseteq Handlers
      BY DEF TypeOK, SessionTypes, start, session, server
    <3>3. aborted' \in BOOLEAN
      BY DEF TypeOK, SessionTypes, start, session, server
    <3>4. QED
      BY <1>1, <3>1, <3>2, <3>3 DEF Owner, SessionTypes
  <2>2. ThreadTypes' /\ SeenTypes'
    BY DEF TypeOK, ThreadTypes, SeenTypes, start, session, server
  <2>3. FrameTypes'
    BY RecordTypes DEF TypeOK, FrameTypes, Snapshot, Reader, start, session, server
  <2>4. reader' \in [Readers -> Reader]
    BY RecordTypes, RedrawTypes DEF TypeOK, FrameTypes, Reader, start, session, server
  <2>5. QED
    BY <2>1, <2>1a, <2>2, <2>3, <2>4 DEF TypeOK
<1>3. Turn'
  BY DEF Owner, Turn, TypeOK, StartTypes, SessionTypes, NoRead, Readers, start,
     session, server
<1>4. Frames'
  BY RecordTypes, RedrawFrames DEF RdpAssumption, Sizes, NoFrame
<1>5. QED
  BY <1>1, <1>2, <1>3, <1>4

(* snapshot_reset, after a resize and after the end. *)
LEMMA ResetInv ==
  ASSUME IInv, ResetSnapshot \/ Disconnected
  PROVE  IInv'
<1> USE RdpAssumption DEF IInv, ResetSnapshot, Disconnected
<1>1. Owner'
  BY DEF Owner, TypeOK, SessionTypes, start, session, server, seen
<1>2. TypeOK'
  <2>1. StartTypes'
    BY DEF TypeOK, StartTypes, start, session, server, seen
  <2>1a. SessionTypes'
    <3>1. ptr' \in BOOLEAN /\ mem' \in {"none", "live", "freed"}
      BY DEF TypeOK, SessionTypes, start, session, server, seen
    <3>2. /\ close' \in {"no", "wait", "free", "closed"} /\ serve' \in {"open", "draining"}
          /\ again' \subseteq Handlers
      BY DEF TypeOK, SessionTypes, start, session, server, seen
    <3>3. aborted' \in BOOLEAN
      BY DEF TypeOK, SessionTypes, start, session, server, seen
    <3>4. QED
      BY <1>1, <3>1, <3>2, <3>3 DEF Owner, SessionTypes
  <2>2. ThreadTypes' /\ SeenTypes'
    BY DEF TypeOK, ThreadTypes, SeenTypes, start, session, server, seen
  <2>3. FrameTypes'
    BY RecordTypes DEF TypeOK, FrameTypes, Snapshot, Reader, start, session, server,
       seen
  <2>4. reader' \in [Readers -> Reader]
    BY RecordTypes DEF TypeOK, FrameTypes, Reader, start, session, server, seen
  <2>5. QED
    BY <2>1, <2>1a, <2>2, <2>3, <2>4 DEF TypeOK
<1>3. Turn'
  BY DEF Owner, Turn, TypeOK, StartTypes, SessionTypes, NoRead, Readers, start,
     session, server, seen
<1>4. Frames'
  BY DEF Frames, SnapshotOK, Holding, Awake, TypeOK, FrameTypes, Snapshot,
     NoSnapshot, start, session, server, seen
<1>5. QED
  BY <1>1, <1>2, <1>3, <1>4

(* The frame is freed. *)
LEMMA DisconnectInv ==
  ASSUME IInv, NEW f \in BOOLEAN, Disconnect(f)
  PROVE  IInv'
<1> USE RdpAssumption DEF IInv, Disconnect, Redraw
<1>1. Owner'
  BY DEF Owner, TypeOK, SessionTypes, start, session, server
<1>2. TypeOK'
  <2>1. StartTypes'
    BY DEF TypeOK, StartTypes, start, session, server
  <2>1a. SessionTypes'
    <3>1. ptr' \in BOOLEAN /\ mem' \in {"none", "live", "freed"}
      BY DEF TypeOK, SessionTypes, start, session, server
    <3>2. /\ close' \in {"no", "wait", "free", "closed"} /\ serve' \in {"open", "draining"}
          /\ again' \subseteq Handlers
      BY DEF TypeOK, SessionTypes, start, session, server
    <3>3. aborted' \in BOOLEAN
      BY DEF TypeOK, SessionTypes, start, session, server
    <3>4. QED
      BY <1>1, <3>1, <3>2, <3>3 DEF Owner, SessionTypes
  <2>2. ThreadTypes' /\ SeenTypes'
    BY DEF TypeOK, ThreadTypes, SeenTypes, start, session, server
  <2>3. FrameTypes'
    BY RecordTypes DEF TypeOK, FrameTypes, Snapshot, Reader, start, session, server
  <2>4. reader' \in [Readers -> Reader]
    BY RecordTypes, RedrawTypes DEF TypeOK, FrameTypes, Reader, start, session, server
  <2>5. QED
    BY <2>1, <2>1a, <2>2, <2>3, <2>4 DEF TypeOK
<1>3. Turn'
  BY DEF Owner, Turn, TypeOK, StartTypes, SessionTypes, NoRead, Readers, start,
     session, server
<1>4. Frames'
  BY RecordTypes, RedrawFrames DEF RdpAssumption, Sizes, NoFrame
<1>5. QED
  BY <1>1, <1>2, <1>3, <1>4

(* The thread ends. *)
LEMMA ReportInv ==
  ASSUME IInv, Report
  PROVE  IInv'
<1> USE RdpAssumption DEF IInv, Report
<1>1. Owner'
  BY DEF Owner, TypeOK, SessionTypes, start, session, server, seen
<1>2. TypeOK'
  <2>1. StartTypes'
    BY DEF TypeOK, StartTypes, start, session, server, seen
  <2>1a. SessionTypes'
    <3>1. ptr' \in BOOLEAN /\ mem' \in {"none", "live", "freed"}
      BY DEF TypeOK, SessionTypes, start, session, server, seen
    <3>2. /\ close' \in {"no", "wait", "free", "closed"} /\ serve' \in {"open", "draining"}
          /\ again' \subseteq Handlers
      BY DEF TypeOK, SessionTypes, start, session, server, seen
    <3>3. aborted' \in BOOLEAN
      BY DEF TypeOK, SessionTypes, start, session, server, seen
    <3>4. QED
      BY <1>1, <3>1, <3>2, <3>3 DEF Owner, SessionTypes
  <2>2. ThreadTypes' /\ SeenTypes'
    BY DEF TypeOK, ThreadTypes, SeenTypes, start, session, server, seen
  <2>3. FrameTypes'
    BY RecordTypes DEF TypeOK, FrameTypes, Snapshot, Reader, start, session, server,
       seen
  <2>4. reader' \in [Readers -> Reader]
    BY RecordTypes DEF TypeOK, FrameTypes, Reader, start, session, server, seen
  <2>5. QED
    BY <2>1, <2>1a, <2>2, <2>3, <2>4 DEF TypeOK
<1>3. Turn'
  BY DEF Owner, Turn, TypeOK, StartTypes, SessionTypes, NoRead, Readers, start,
     session, server, seen
<1>4. Frames'
  BY DEF Frames, SnapshotOK, Holding, Awake, TypeOK, FrameTypes, Snapshot,
     start, session, server, seen
<1>5. QED
  BY <1>1, <1>2, <1>3, <1>4

(* A handler takes the client: nobody has begun to close it. *)
LEMMA RequestInv ==
  ASSUME IInv, NEW h \in Handlers, NEW op \in {"shot", "input"}, Request(h, op)
  PROVE  IInv'
<1> USE RdpAssumption DEF IInv, Request, GetClient
<1>1. Owner'
  BY DEF Owner, TypeOK, SessionTypes, start, session, server, thread, seen
<1>2. TypeOK'
  <2>1. StartTypes'
    BY DEF TypeOK, StartTypes, start, session, server, thread, seen
  <2>1a. SessionTypes'
    <3>1. ptr' \in BOOLEAN /\ mem' \in {"none", "live", "freed"}
      BY DEF TypeOK, SessionTypes, start, session, server, thread, seen
    <3>2. /\ close' \in {"no", "wait", "free", "closed"} /\ serve' \in {"open", "draining"}
          /\ again' \subseteq Handlers
      BY DEF TypeOK, SessionTypes, start, session, server, thread, seen
    <3>3. aborted' \in BOOLEAN
      BY DEF TypeOK, SessionTypes, start, session, server, thread, seen
    <3>4. QED
      BY <1>1, <3>1, <3>2, <3>3 DEF Owner, SessionTypes
  <2>2. ThreadTypes' /\ SeenTypes'
    BY DEF TypeOK, ThreadTypes, SeenTypes, start, session, server, thread, seen
  <2>3. FrameTypes'
    BY RecordTypes DEF TypeOK, FrameTypes, Snapshot, Reader, start, session, server,
       thread, seen
  <2>4. reader' \in [Readers -> Reader]
    BY RecordTypes DEF TypeOK, FrameTypes, Reader, start, session, server, thread, seen
  <2>5. QED
    BY <2>1, <2>1a, <2>2, <2>3, <2>4 DEF TypeOK
<1>3. Turn'
  BY DEF Owner, Turn, TypeOK, StartTypes, SessionTypes, NoRead, Readers, start,
     session, server, thread, seen
<1>4. Frames'
  BY DEF Frames, SnapshotOK, Holding, Awake, TypeOK, FrameTypes, Snapshot,
     NoRead, start, session, server, thread, seen
<1>5. QED
  BY <1>1, <1>2, <1>3, <1>4

(* The readers' steps. *)
LEMMA UpdateSizeInv ==
  ASSUME IInv, NEW r \in Readers, UpdateSize(r)
  PROVE  IInv'
<1> USE RdpAssumption DEF IInv, UpdateSize, Use, Return
<1>1. Owner'
  BY DEF Owner, TypeOK, SessionTypes, ReaderRest, session, server, start, thread
<1>2. TypeOK'
  <2>1. StartTypes'
    BY DEF TypeOK, StartTypes, ReaderRest, session, server, start, thread
  <2>1a. SessionTypes'
    <3>1. ptr' \in BOOLEAN /\ mem' \in {"none", "live", "freed"}
      BY DEF TypeOK, SessionTypes, ReaderRest, session, server, start, thread
    <3>2. /\ close' \in {"no", "wait", "free", "closed"} /\ serve' \in {"open", "draining"}
          /\ again' \subseteq Handlers
      BY DEF TypeOK, SessionTypes, ReaderRest, session, server, start, thread
    <3>3. aborted' \in BOOLEAN
      BY DEF TypeOK, SessionTypes, ReaderRest, session, server, start, thread
    <3>4. QED
      BY <1>1, <3>1, <3>2, <3>3 DEF Owner, SessionTypes
  <2>2. ThreadTypes' /\ SeenTypes'
    BY DEF TypeOK, ThreadTypes, SeenTypes, ReaderRest, session, server, start, thread
  <2>3. FrameTypes'
    BY RecordTypes DEF TypeOK, FrameTypes, Snapshot, Reader, ReaderRest,
       session, server, start, thread
  <2>4. reader' \in [Readers -> Reader]
    <3>1. reader[r] \in Reader /\ gdi \in Sizes /\ snap.bytes \in Sizes
      BY DEF TypeOK, FrameTypes, Snapshot
    <3>2. \E x \in Reader : reader' = [reader EXCEPT ![r] = x]
      BY <3>1, RecordTypes DEF Reader
    <3>3. QED
      BY <3>2 DEF TypeOK
  <2>5. QED
    BY <2>1, <2>1a, <2>2, <2>3, <2>4 DEF TypeOK
<1>3. Turn'
  BY DEF Owner, Turn, TypeOK, StartTypes, SessionTypes, NoRead, Readers,
     ReaderRest, session, server, start, thread
<1>4. Frames'
  <2>0. PICK x \in Reader : reader' = [reader EXCEPT ![r] = x]
    <3>1. reader' = [reader EXCEPT ![r] = reader'[r]] /\ reader'[r] \in Reader
      BY <1>2 DEF TypeOK
    <3>2. QED
      BY <3>1
  <2>1. UNCHANGED <<loop, gdi, raced>> /\ reader[r] \in Reader
    BY DEF ReaderRest, thread, TypeOK
  <2>2. x = reader'[r]
    BY <2>0 DEF TypeOK
  <2>3. Awake(reader[r]) /\ (~raced => Holding(reader[r]) /\ SnapshotOK)
    BY DEF Frames
  <2>4a. \/ x = NoRead
         \/ x = [reader[r] EXCEPT !.pc = IF reader[r].pc = "update" THEN "copy" ELSE "copy2",
                                  !.frame = gdi]
    BY <2>2 DEF TypeOK
  <2>4b. \/ x = NoRead
         \/ /\ reader[r].pc # "idle" /\ x.frame = gdi /\ x.moved = reader[r].moved
            /\ x.pc = "copy" \/ (x.pc = "copy2" /\ reader[r].pc = "update2")
    BY <2>1, <2>4a DEF Reader
  <2>4. Awake(x)
    BY <2>3, <2>4b DEF Awake, NoRead
  <2>6. snap' = snap
    OBVIOUS
  <2>5. ~raced => Holding(x)'
    BY <2>1, <2>3, <2>4b, <2>6 DEF Holding, NoRead
  <2>8. QED
    BY <2>0, <2>1, <2>4, <2>5, <2>6, ReaderFrames
<1>5. QED
  BY <1>1, <1>2, <1>3, <1>4

(* What is copied is the frame, unless that changed. *)
LEMMA UpdateCopyInv ==
  ASSUME IInv, NEW r \in Readers, UpdateCopy(r)
  PROVE  IInv'
<1> USE RdpAssumption DEF IInv, UpdateCopy, Use, Return
<1>1. Owner'
  BY DEF Owner, TypeOK, SessionTypes, ReaderRest, session, server, start, thread
<1>2. TypeOK'
  <2>1. StartTypes'
    BY DEF TypeOK, StartTypes, ReaderRest, session, server, start, thread
  <2>1a. SessionTypes'
    <3>1. ptr' \in BOOLEAN /\ mem' \in {"none", "live", "freed"}
      BY DEF TypeOK, SessionTypes, ReaderRest, session, server, start, thread
    <3>2. /\ close' \in {"no", "wait", "free", "closed"} /\ serve' \in {"open", "draining"}
          /\ again' \subseteq Handlers
      BY DEF TypeOK, SessionTypes, ReaderRest, session, server, start, thread
    <3>3. aborted' \in BOOLEAN
      BY DEF TypeOK, SessionTypes, ReaderRest, session, server, start, thread
    <3>4. QED
      BY <1>1, <3>1, <3>2, <3>3 DEF Owner, SessionTypes
  <2>2. ThreadTypes' /\ SeenTypes'
    BY DEF TypeOK, ThreadTypes, SeenTypes, ReaderRest, session, server, start, thread
  <2>3. FrameTypes'
    BY RecordTypes DEF TypeOK, FrameTypes, Snapshot, Reader, ReaderRest,
       session, server, start, thread
  <2>4. reader' \in [Readers -> Reader]
    <3>1. reader[r] \in Reader /\ gdi \in Sizes /\ snap.bytes \in Sizes
      BY DEF TypeOK, FrameTypes, Snapshot
    <3>2. \E x \in Reader : reader' = [reader EXCEPT ![r] = x]
      BY <3>1, RecordTypes DEF Reader
    <3>3. QED
      BY <3>2 DEF TypeOK
  <2>5. QED
    BY <2>1, <2>1a, <2>2, <2>3, <2>4 DEF TypeOK
<1>3. Turn'
  BY DEF Owner, Turn, TypeOK, StartTypes, SessionTypes, NoRead, Readers,
     ReaderRest, session, server, start, thread
<1>4. Frames'
  <2>0. PICK x \in Reader : reader' = [reader EXCEPT ![r] = x]
    <3>1. reader' = [reader EXCEPT ![r] = reader'[r]] /\ reader'[r] \in Reader
      BY <1>2 DEF TypeOK
    <3>2. QED
      BY <3>1
  <2>1. UNCHANGED <<loop, gdi, raced>> /\ reader[r] \in Reader
    BY DEF ReaderRest, thread, TypeOK
  <2>2. x = reader'[r]
    BY <2>0 DEF TypeOK
  <2>3. Awake(reader[r]) /\ (~raced => Holding(reader[r]) /\ SnapshotOK)
    BY DEF Frames
  <2>4a. \/ x = NoRead
         \/ x = [reader[r] EXCEPT !.pc = IF reader[r].pc = "copy" THEN "size" ELSE "take",
                                  !.frame = NoFrame]
    BY <2>2 DEF TypeOK
  <2>4b. \/ x = NoRead
         \/ /\ reader[r].pc \in {"copy", "copy2"} /\ x.moved = reader[r].moved
            /\ x.pc \in {"size", "take"}
    BY <2>1, <2>4a DEF Reader
  <2>4. Awake(x)
    BY <2>3, <2>4b DEF Awake, NoRead
  <2>6a. \/ snap' = snap /\ (mem = "live" => reader[r].frame = NoFrame)
         \/ /\ reader[r].pc \in {"copy", "copy2"} /\ reader[r].frame # NoFrame
            /\ gdi # NoFrame => snap' = [bytes |-> reader[r].frame, dims |-> gdi]
    OBVIOUS
  <2>6. ~raced => snap' = snap \/ (snap' = [bytes |-> gdi, dims |-> gdi])
    BY <2>3, <2>6a DEF Holding
  <2>5. ASSUME ~raced PROVE Holding(x)'
    <3>1. CASE x = NoRead
      BY <3>1 DEF Holding, NoRead
    <3>2. CASE x # NoRead /\ reader[r].frame = NoFrame
      <4>1. snap' = snap /\ reader[r].pc \in {"copy", "copy2"}
        BY <2>4b, <2>6a, <3>2
      <4>2. QED
        BY <2>1, <2>3, <2>4b, <2>5, <3>2, <4>1 DEF Holding, Awake, SnapshotOK
    <3>3. CASE x # NoRead /\ reader[r].frame # NoFrame
      <4>1. mem = "live"
        BY <2>2, <3>3 DEF TypeOK
      <4>2. snap' = [bytes |-> gdi, dims |-> gdi]
        BY <2>3, <2>5, <2>6a, <3>3, <4>1 DEF Holding
      <4>3. QED
        BY <2>1, <2>4b, <3>3, <4>2 DEF Holding
    <3>4. QED
      BY <3>1, <3>2, <3>3
  <2>8. QED
    BY <2>0, <2>1, <2>4, <2>5, <2>6, ReaderFrames
<1>5. QED
  BY <1>1, <1>2, <1>3, <1>4

(* The size, and what a status means to StartSession. *)
LEMMA SnapshotSizeInv ==
  ASSUME IInv, NEW r \in Readers, SnapshotSize(r)
  PROVE  IInv'
<1> USE RdpAssumption DEF IInv, SnapshotSize, Use, Return, GetClient, Judge, Blank, Usable
<1>1. Owner'
  BY DEF Owner, TypeOK, SessionTypes, ReaderRest, session, server, start, thread
<1>2. TypeOK'
  <2>1. StartTypes'
    BY DEF TypeOK, StartTypes, ReaderRest, session, server, start, thread
  <2>1a. SessionTypes'
    <3>1. ptr' \in BOOLEAN /\ mem' \in {"none", "live", "freed"}
      BY DEF TypeOK, SessionTypes, ReaderRest, session, server, start, thread
    <3>2. /\ close' \in {"no", "wait", "free", "closed"} /\ serve' \in {"open", "draining"}
          /\ again' \subseteq Handlers
      BY DEF TypeOK, SessionTypes, ReaderRest, session, server, start, thread
    <3>3. aborted' \in BOOLEAN
      BY DEF TypeOK, SessionTypes, ReaderRest, session, server, start, thread
    <3>4. QED
      BY <1>1, <3>1, <3>2, <3>3 DEF Owner, SessionTypes
  <2>2. ThreadTypes' /\ SeenTypes'
    BY DEF TypeOK, ThreadTypes, SeenTypes, ReaderRest, session, server, start, thread
  <2>3. FrameTypes'
    BY RecordTypes DEF TypeOK, FrameTypes, Snapshot, Reader, ReaderRest,
       session, server, start, thread
  <2>4. reader' \in [Readers -> Reader]
    <3>1. reader[r] \in Reader /\ gdi \in Sizes /\ snap.bytes \in Sizes
      BY DEF TypeOK, FrameTypes, Snapshot
    <3>2. \E x \in Reader : reader' = [reader EXCEPT ![r] = x]
      BY <3>1, RecordTypes DEF Reader
    <3>3. QED
      BY <3>2 DEF TypeOK
  <2>5. QED
    BY <2>1, <2>1a, <2>2, <2>3, <2>4 DEF TypeOK
<1>3. Turn'
  BY DEF Owner, Turn, TypeOK, StartTypes, SessionTypes, NoRead, Readers,
     ReaderRest, session, server, start, thread
<1>4. Frames'
  <2>0. PICK x \in Reader : reader' = [reader EXCEPT ![r] = x]
    <3>1. reader' = [reader EXCEPT ![r] = reader'[r]] /\ reader'[r] \in Reader
      BY <1>2 DEF TypeOK
    <3>2. QED
      BY <3>1
  <2>1. UNCHANGED <<loop, gdi, raced>> /\ reader[r] \in Reader
    BY DEF ReaderRest, thread, TypeOK
  <2>2. x = reader'[r]
    BY <2>0 DEF TypeOK
  <2>3. Awake(reader[r]) /\ (~raced => Holding(reader[r]) /\ SnapshotOK)
    BY DEF Frames
  <2>4a. \/ x = NoRead
         \/ \E m \in BOOLEAN : /\ m = (loop = "hangup")
                               /\ x = [NoRead EXCEPT !.pc = "update", !.op = "shot", !.moved = m]
         \/ x = [reader[r] EXCEPT !.pc = "update2", !.buf = snap.bytes]
    BY <2>2 DEF TypeOK
  <2>4b. \/ x = NoRead
         \/ x.pc = "update" /\ (~x.moved => loop # "hangup")
         \/ x.pc = "update2" /\ x.moved = reader[r].moved
    <3>1. ASSUME NEW m \in BOOLEAN, m = (loop = "hangup"),
                 x = [NoRead EXCEPT !.pc = "update", !.op = "shot", !.moved = m]
          PROVE  x.pc = "update" /\ (~x.moved => loop # "hangup")
      <4>1. x.pc = "update" /\ x.moved = m
        BY <3>1 DEF NoRead
      <4>2. ~m => loop # "hangup"
        BY <3>1
      <4>3. QED
        BY <4>1, <4>2
    <3>2. ASSUME x = [reader[r] EXCEPT !.pc = "update2", !.buf = snap.bytes]
          PROVE  x.pc = "update2" /\ x.moved = reader[r].moved
      BY <2>1, <3>2 DEF Reader
    <3>3. CASE \E m \in BOOLEAN : /\ m = (loop = "hangup")
                                /\ x = [NoRead EXCEPT !.pc = "update", !.op = "shot", !.moved = m]
      <4>1. PICK m \in BOOLEAN : /\ m = (loop = "hangup")
                                /\ x = [NoRead EXCEPT !.pc = "update", !.op = "shot", !.moved = m]
        BY <3>3
      <4>2. QED
        BY <3>1, <4>1
    <3>4. QED
      BY <2>4a, <3>2, <3>3
  <2>4. Awake(x)
    BY <2>3, <2>4b DEF Awake, NoRead
  <2>6. snap' = snap
    OBVIOUS
  <2>5. ~raced => Holding(x)'
    BY <2>1, <2>3, <2>4b, <2>6 DEF Holding, NoRead
  <2>8. QED
    BY <2>0, <2>1, <2>4, <2>5, <2>6, ReaderFrames
<1>5. QED
  BY <1>1, <1>2, <1>3, <1>4

(* The image, and what StartSession makes of it. *)
LEMMA CopySnapshotInv ==
  ASSUME IInv, NEW r \in Readers, CopySnapshot(r)
  PROVE  IInv'
<1> USE RdpAssumption DEF IInv, CopySnapshot, TakeSnapshot, Use, Return, Judge, Blank, Usable
<1>1. Owner'
  BY DEF Owner, TypeOK, SessionTypes, ReaderRest, session, server, start, thread
<1>2. TypeOK'
  <2>1. StartTypes'
    BY DEF TypeOK, StartTypes, Turn, Readers, ReaderRest, session, server, start, thread
  <2>1a. SessionTypes'
    <3>1. ptr' \in BOOLEAN /\ mem' \in {"none", "live", "freed"}
      BY DEF TypeOK, SessionTypes, ReaderRest, session, server, start, thread
    <3>2. /\ close' \in {"no", "wait", "free", "closed"} /\ serve' \in {"open", "draining"}
          /\ again' \subseteq Handlers
      BY DEF TypeOK, SessionTypes, ReaderRest, session, server, start, thread
    <3>3. aborted' \in BOOLEAN
      BY DEF TypeOK, SessionTypes, ReaderRest, session, server, start, thread
    <3>4. QED
      BY <1>1, <3>1, <3>2, <3>3 DEF Owner, SessionTypes
  <2>2. ThreadTypes' /\ SeenTypes'
    BY DEF TypeOK, ThreadTypes, SeenTypes, ReaderRest, session, server, start, thread
  <2>3. FrameTypes'
    BY RecordTypes DEF TypeOK, FrameTypes, Snapshot, Reader, ReaderRest,
       session, server, start, thread
  <2>4. reader' \in [Readers -> Reader]
    <3>1. reader[r] \in Reader /\ gdi \in Sizes /\ snap.bytes \in Sizes
      BY DEF TypeOK, FrameTypes, Snapshot
    <3>2. \E x \in Reader : reader' = [reader EXCEPT ![r] = x]
      BY <3>1, RecordTypes DEF Reader
    <3>3. QED
      BY <3>2 DEF TypeOK
  <2>5. QED
    BY <2>1, <2>1a, <2>2, <2>3, <2>4 DEF TypeOK
<1>3. Turn'
  BY DEF Owner, Turn, TypeOK, StartTypes, SessionTypes, NoRead, Readers,
     ReaderRest, session, server, start, thread
<1>4. Frames'
  <2>0. PICK x \in Reader : reader' = [reader EXCEPT ![r] = x]
    <3>1. reader' = [reader EXCEPT ![r] = reader'[r]] /\ reader'[r] \in Reader
      BY <1>2 DEF TypeOK
    <3>2. QED
      BY <3>1
  <2>1. UNCHANGED <<loop, gdi, raced>> /\ reader[r] \in Reader
    BY DEF ReaderRest, thread, TypeOK
  <2>2. x = reader'[r]
    BY <2>0 DEF TypeOK
  <2>3. Awake(reader[r]) /\ (~raced => Holding(reader[r]) /\ SnapshotOK)
    BY DEF Frames
  <2>4a. x.pc = "idle" /\ snap' = snap
    BY <2>2 DEF TypeOK, NoRead
  <2>4. Awake(x)
    BY <2>4a DEF Awake
  <2>6. snap' = snap
    BY <2>4a
  <2>5. ~raced => Holding(x)'
    BY <2>4a DEF Holding
  <2>8. QED
    BY <2>0, <2>1, <2>4, <2>5, <2>6, ReaderFrames
<1>5. QED
  BY <1>1, <1>2, <1>3, <1>4

(* An input call. *)
LEMMA SendInputInv ==
  ASSUME IInv, NEW r \in Readers, SendInput(r)
  PROVE  IInv'
<1> USE RdpAssumption DEF IInv, SendInput, Use, Return
<1>1. Owner'
  BY DEF Owner, TypeOK, SessionTypes, ReaderRest, session, server, start, thread
<1>2. TypeOK'
  <2>1. StartTypes'
    BY DEF TypeOK, StartTypes, ReaderRest, session, server, start, thread
  <2>1a. SessionTypes'
    <3>1. ptr' \in BOOLEAN /\ mem' \in {"none", "live", "freed"}
      BY DEF TypeOK, SessionTypes, ReaderRest, session, server, start, thread
    <3>2. /\ close' \in {"no", "wait", "free", "closed"} /\ serve' \in {"open", "draining"}
          /\ again' \subseteq Handlers
      BY DEF TypeOK, SessionTypes, ReaderRest, session, server, start, thread
    <3>3. aborted' \in BOOLEAN
      BY DEF TypeOK, SessionTypes, ReaderRest, session, server, start, thread
    <3>4. QED
      BY <1>1, <3>1, <3>2, <3>3 DEF Owner, SessionTypes
  <2>2. ThreadTypes' /\ SeenTypes'
    BY DEF TypeOK, ThreadTypes, SeenTypes, ReaderRest, session, server, start, thread
  <2>3. FrameTypes'
    BY RecordTypes DEF TypeOK, FrameTypes, Snapshot, Reader, ReaderRest,
       session, server, start, thread
  <2>4. reader' \in [Readers -> Reader]
    <3>1. reader[r] \in Reader /\ gdi \in Sizes /\ snap.bytes \in Sizes
      BY DEF TypeOK, FrameTypes, Snapshot
    <3>2. \E x \in Reader : reader' = [reader EXCEPT ![r] = x]
      BY <3>1, RecordTypes DEF Reader
    <3>3. QED
      BY <3>2 DEF TypeOK
  <2>5. QED
    BY <2>1, <2>1a, <2>2, <2>3, <2>4 DEF TypeOK
<1>3. Turn'
  BY DEF Owner, Turn, TypeOK, StartTypes, SessionTypes, NoRead, Readers,
     ReaderRest, session, server, start, thread
<1>4. Frames'
  <2>0. PICK x \in Reader : reader' = [reader EXCEPT ![r] = x]
    <3>1. reader' = [reader EXCEPT ![r] = reader'[r]] /\ reader'[r] \in Reader
      BY <1>2 DEF TypeOK
    <3>2. QED
      BY <3>1
  <2>1. UNCHANGED <<loop, gdi, raced>> /\ reader[r] \in Reader
    BY DEF ReaderRest, thread, TypeOK
  <2>2. x = reader'[r]
    BY <2>0 DEF TypeOK
  <2>3. Awake(reader[r]) /\ (~raced => Holding(reader[r]) /\ SnapshotOK)
    BY DEF Frames
  <2>4a. x.pc = "idle" /\ snap' = snap
    BY <2>2 DEF TypeOK, NoRead
  <2>4. Awake(x)
    BY <2>4a DEF Awake
  <2>6. snap' = snap
    BY <2>4a
  <2>5. ~raced => Holding(x)'
    BY <2>4a DEF Holding
  <2>8. QED
    BY <2>0, <2>1, <2>4, <2>5, <2>6, ReaderFrames
<1>5. QED
  BY <1>1, <1>2, <1>3, <1>4

(* Close, when the thread has ended. *)
LEMMA CloseEndInv ==
  ASSUME IInv, CloseEnd
  PROVE  IInv'
<1> USE RdpAssumption DEF IInv, CloseEnd, CloseAfter
<1>1. Owner'
  BY DEF Owner, TypeOK, SessionTypes, start, server, thread, seen
<1>2. TypeOK'
  <2>1. StartTypes'
    BY DEF TypeOK, StartTypes, start, server, thread, seen
  <2>1a. SessionTypes'
    <3>1. ptr' \in BOOLEAN /\ mem' \in {"none", "live", "freed"}
      BY DEF TypeOK, SessionTypes, start, server, thread, seen
    <3>2. /\ close' \in {"no", "wait", "free", "closed"} /\ serve' \in {"open", "draining"}
          /\ again' \subseteq Handlers
      BY DEF TypeOK, SessionTypes, start, server, thread, seen
    <3>3. aborted' \in BOOLEAN
      BY DEF TypeOK, SessionTypes, start, server, thread, seen
    <3>4. QED
      BY <1>1, <3>1, <3>2, <3>3 DEF Owner, SessionTypes
  <2>2. ThreadTypes' /\ SeenTypes'
    BY DEF TypeOK, ThreadTypes, SeenTypes, start, server, thread, seen
  <2>3. FrameTypes'
    BY RecordTypes DEF TypeOK, FrameTypes, Snapshot, Reader, start, server, thread, seen
  <2>4. reader' \in [Readers -> Reader]
    BY RecordTypes DEF TypeOK, FrameTypes, Reader, start, server, thread, seen
  <2>5. QED
    BY <2>1, <2>1a, <2>2, <2>3, <2>4 DEF TypeOK
<1>3. Turn'
  BY DEF Owner, Turn, TypeOK, StartTypes, SessionTypes, NoRead, Readers, start,
     server, thread, seen
<1>4. Frames'
  BY DEF Frames, SnapshotOK, Holding, Awake, TypeOK, FrameTypes, Snapshot,
     start, server, thread, seen
<1>5. QED
  BY <1>1, <1>2, <1>3, <1>4

(* StartSession goes on to another mode, or gives up. *)
LEMMA StartInv ==
  ASSUME IInv, StartFails \/ TryNextMode
  PROVE  IInv'
<1> USE RdpAssumption DEF IInv, StartFails, TryNextMode, NextMode
<1>1. Owner'
  BY DEF Owner, TypeOK, SessionTypes, start, session, server, thread, seen
<1>2. TypeOK'
  <2>1. StartTypes'
    BY DEF TypeOK, StartTypes, start, session, server, thread, seen
  <2>1a. SessionTypes'
    <3>1. ptr' \in BOOLEAN /\ mem' \in {"none", "live", "freed"}
      BY DEF TypeOK, SessionTypes, start, session, server, thread, seen
    <3>2. /\ close' \in {"no", "wait", "free", "closed"} /\ serve' \in {"open", "draining"}
          /\ again' \subseteq Handlers
      BY DEF TypeOK, SessionTypes, start, session, server, thread, seen
    <3>3. aborted' \in BOOLEAN
      BY DEF TypeOK, SessionTypes, start, session, server, thread, seen
    <3>4. QED
      BY <1>1, <3>1, <3>2, <3>3 DEF Owner, SessionTypes
  <2>2. ThreadTypes' /\ SeenTypes'
    BY DEF TypeOK, ThreadTypes, SeenTypes, start, session, server, thread, seen
  <2>3. FrameTypes'
    BY RecordTypes DEF TypeOK, FrameTypes, Snapshot, Reader, start, session, server,
       thread, seen
  <2>4. reader' \in [Readers -> Reader]
    BY RecordTypes DEF TypeOK, FrameTypes, Reader, start, session, server, thread, seen
  <2>5. QED
    BY <2>1, <2>1a, <2>2, <2>3, <2>4 DEF TypeOK
<1>3. Turn'
  BY DEF Owner, Turn, TypeOK, StartTypes, SessionTypes, NoRead, Readers, start,
     session, server, thread, seen
<1>4. Frames'
  BY DEF Frames, SnapshotOK, Holding, Awake, TypeOK, FrameTypes, Snapshot,
     start, session, server, thread, seen
<1>5. QED
  BY <1>1, <1>2, <1>3, <1>4

(* A new session. *)
LEMMA StartOnceInv ==
  ASSUME IInv, StartOnce
  PROVE  IInv'
<1> USE RdpAssumption DEF IInv, StartOnce, Usable
<1>1. Owner'
  BY DEF Owner, TypeOK, SessionTypes, start, server, seen
<1>2. TypeOK'
  <2>1. StartTypes'
    BY DEF TypeOK, StartTypes, start, server, seen
  <2>1a. SessionTypes'
    <3>1. ptr' \in BOOLEAN /\ mem' \in {"none", "live", "freed"}
      BY DEF TypeOK, SessionTypes, start, server, seen
    <3>2. /\ close' \in {"no", "wait", "free", "closed"} /\ serve' \in {"open", "draining"}
          /\ again' \subseteq Handlers
      BY DEF TypeOK, SessionTypes, start, server, seen
    <3>3. aborted' \in BOOLEAN
      BY DEF TypeOK, SessionTypes, start, server, seen
    <3>4. QED
      BY <1>1, <3>1, <3>2, <3>3 DEF Owner, SessionTypes
  <2>2. ThreadTypes' /\ SeenTypes'
    BY DEF TypeOK, ThreadTypes, SeenTypes, start, server, seen
  <2>3. FrameTypes'
    BY RecordTypes DEF TypeOK, FrameTypes, Snapshot, Reader, start, server, seen
  <2>4. reader' \in [Readers -> Reader]
    BY RecordTypes DEF TypeOK, FrameTypes, Reader, start, server, seen
  <2>5. QED
    BY <2>1, <2>1a, <2>2, <2>3, <2>4 DEF TypeOK
<1>3. Turn'
  BY DEF Owner, Turn, TypeOK, StartTypes, SessionTypes, NoRead, Readers, start,
     server, seen
<1>4. Frames'
  BY DEF Frames, SnapshotOK, Holding, Awake, TypeOK, FrameTypes, Snapshot,
     Reader, Sizes, NoSnapshot, NoFrame, Owner, Turn, StartTypes, SessionTypes,
     ThreadTypes, NoRead, Readers, start, server, seen
<1>5. QED
  BY <1>1, <1>2, <1>3, <1>4

(* StartSession looks at the session. *)
LEMMA ProbeInv ==
  ASSUME IInv, NEW op \in {"status", "last"}, Probe(op)
  PROVE  IInv'
<1> USE RdpAssumption DEF IInv, Probe, GetClient
<1>1. Owner'
  BY DEF Owner, TypeOK, SessionTypes, start, session, server, thread, seen
<1>2. TypeOK'
  <2>1. StartTypes'
    BY DEF TypeOK, StartTypes, start, session, server, thread, seen
  <2>1a. SessionTypes'
    <3>1. ptr' \in BOOLEAN /\ mem' \in {"none", "live", "freed"}
      BY DEF TypeOK, SessionTypes, start, session, server, thread, seen
    <3>2. /\ close' \in {"no", "wait", "free", "closed"} /\ serve' \in {"open", "draining"}
          /\ again' \subseteq Handlers
      BY DEF TypeOK, SessionTypes, start, session, server, thread, seen
    <3>3. aborted' \in BOOLEAN
      BY DEF TypeOK, SessionTypes, start, session, server, thread, seen
    <3>4. QED
      BY <1>1, <3>1, <3>2, <3>3 DEF Owner, SessionTypes
  <2>2. ThreadTypes' /\ SeenTypes'
    BY DEF TypeOK, ThreadTypes, SeenTypes, start, session, server, thread, seen
  <2>3. FrameTypes'
    BY RecordTypes DEF TypeOK, FrameTypes, Snapshot, Reader, start, session, server,
       thread, seen
  <2>4. reader' \in [Readers -> Reader]
    BY RecordTypes DEF TypeOK, FrameTypes, Reader, start, session, server, thread, seen
  <2>5. QED
    BY <2>1, <2>1a, <2>2, <2>3, <2>4 DEF TypeOK
<1>3. Turn'
  BY DEF Owner, Turn, TypeOK, StartTypes, SessionTypes, NoRead, Readers, start,
     session, server, thread, seen
<1>4. Frames'
  BY DEF Frames, SnapshotOK, Holding, Awake, TypeOK, FrameTypes, Snapshot,
     NoRead, start, session, server, thread, seen
<1>5. QED
  BY <1>1, <1>2, <1>3, <1>4

(* And closes it, when it reads no more. *)
LEMMA RejectInv ==
  ASSUME IInv, SessionDone \/ CloseRejected
  PROVE  IInv'
<1> USE RdpAssumption DEF IInv, SessionDone, CloseRejected, CloseBegin
<1>1. Owner'
  BY DEF Owner, TypeOK, SessionTypes, start, session, server, thread, seen
<1>2. TypeOK'
  <2>1. StartTypes'
    BY DEF TypeOK, StartTypes, start, session, server, thread, seen
  <2>1a. SessionTypes'
    <3>1. ptr' \in BOOLEAN /\ mem' \in {"none", "live", "freed"}
      BY DEF TypeOK, SessionTypes, start, session, server, thread, seen
    <3>2. /\ close' \in {"no", "wait", "free", "closed"} /\ serve' \in {"open", "draining"}
          /\ again' \subseteq Handlers
      BY DEF TypeOK, SessionTypes, start, session, server, thread, seen
    <3>3. aborted' \in BOOLEAN
      BY DEF TypeOK, SessionTypes, start, session, server, thread, seen
    <3>4. QED
      BY <1>1, <3>1, <3>2, <3>3 DEF Owner, SessionTypes
  <2>2. ThreadTypes' /\ SeenTypes'
    BY DEF TypeOK, ThreadTypes, SeenTypes, start, session, server, thread, seen
  <2>3. FrameTypes'
    BY RecordTypes DEF TypeOK, FrameTypes, Snapshot, Reader, start, session, server,
       thread, seen
  <2>4. reader' \in [Readers -> Reader]
    BY RecordTypes DEF TypeOK, FrameTypes, Reader, start, session, server, thread, seen
  <2>5. QED
    BY <2>1, <2>1a, <2>2, <2>3, <2>4 DEF TypeOK
<1>3. Turn'
  BY DEF Owner, Turn, TypeOK, StartTypes, SessionTypes, NoRead, Readers, start,
     session, server, thread, seen
<1>4. Frames'
  BY DEF Frames, SnapshotOK, Holding, Awake, TypeOK, FrameTypes, Snapshot,
     start, session, server, thread, seen
<1>5. QED
  BY <1>1, <1>2, <1>3, <1>4

(* The server stops. *)
LEMMA ServerStopsInv ==
  ASSUME IInv, ServerStops
  PROVE  IInv'
<1> USE RdpAssumption DEF IInv, ServerStops
<1>1. Owner'
  BY DEF Owner, TypeOK, SessionTypes, start, session, server, thread, seen
<1>2. TypeOK'
  <2>1. StartTypes'
    BY DEF TypeOK, StartTypes, start, session, server, thread, seen
  <2>1a. SessionTypes'
    <3>1. ptr' \in BOOLEAN /\ mem' \in {"none", "live", "freed"}
      BY DEF TypeOK, SessionTypes, start, session, server, thread, seen
    <3>2. /\ close' \in {"no", "wait", "free", "closed"} /\ serve' \in {"open", "draining"}
          /\ again' \subseteq Handlers
      BY DEF TypeOK, SessionTypes, start, session, server, thread, seen
    <3>3. aborted' \in BOOLEAN
      BY DEF TypeOK, SessionTypes, start, session, server, thread, seen
    <3>4. QED
      BY <1>1, <3>1, <3>2, <3>3 DEF Owner, SessionTypes
  <2>2. ThreadTypes' /\ SeenTypes'
    BY DEF TypeOK, ThreadTypes, SeenTypes, start, session, server, thread, seen
  <2>3. FrameTypes'
    BY RecordTypes DEF TypeOK, FrameTypes, Snapshot, Reader, start, session, server,
       thread, seen
  <2>4. reader' \in [Readers -> Reader]
    BY RecordTypes DEF TypeOK, FrameTypes, Reader, start, session, server, thread, seen
  <2>5. QED
    BY <2>1, <2>1a, <2>2, <2>3, <2>4 DEF TypeOK
<1>3. Turn'
  BY DEF Owner, Turn, TypeOK, StartTypes, SessionTypes, NoRead, Readers, start,
     session, server, thread, seen
<1>4. Frames'
  BY DEF Frames, SnapshotOK, Holding, Awake, TypeOK, FrameTypes, Snapshot,
     start, session, server, thread, seen
<1>5. QED
  BY <1>1, <1>2, <1>3, <1>4

(* It closes the session,, late or not. *)
LEMMA ServerClosesInv ==
  ASSUME IInv, ~uaf, ServerCloses
  PROVE  IInv'
<1> USE DEF IInv, ServerCloses, CloseBegin
<1>1. /\ boot = "up" /\ close = "no" /\ close' = "wait" /\ mem # "none"
      /\ aborted' = TRUE
      /\ UNCHANGED <<boot, mode, blanks, ptr, mem, loop, failed, err, done, serve, again, gdi, snap>>
      /\ UNCHANGED <<reader, uaf, raced>>
  BY DEF Owner, Turn, start, server, thread
<1>2. late' \in BOOLEAN /\ (Busy => late')
  BY DEF Busy
<1>3. Owner'
  BY <1>1 DEF Owner, TypeOK, SessionTypes
<1>4. TypeOK'
  BY <1>1, <1>2 DEF TypeOK, StartTypes, SessionTypes, ThreadTypes, FrameTypes,
     SeenTypes
<1>5. uaf' => late'
  BY <1>1
<1>6. ASSUME NEW h \in Handlers, reader[h].pc # "idle" \/ h \in again PROVE late'
  BY <1>2, <1>6 DEF Busy
<1>7. Turn'
  BY <1>1, <1>5, <1>6 DEF Turn
<1>8. Frames'
  BY <1>1 DEF Frames, SnapshotOK, Holding, Awake
<1>9. QED
  BY <1>3, <1>4, <1>7, <1>8

LEMMA StutterInv == IInv /\ UNCHANGED vars => IInv'
BY DEF IInv, TypeOK, StartTypes, SessionTypes, ThreadTypes, FrameTypes,
   SeenTypes, Owner, Turn, Frames, SnapshotOK, Holding, Awake, vars, start,
   session, server, thread, seen

(* Every step keeps the inductive invariant. *)
THEOREM NextIInv == IInv /\ [Next]_vars => IInv'
<1> SUFFICES ASSUME IInv, [Next]_vars PROVE IInv'
  OBVIOUS
<1>1. CASE UNCHANGED vars
  BY <1>1, StutterInv
<1>2. CASE StartStep
  BY <1>2, StartInv, StartOnceInv, ProbeInv, RejectInv DEF StartStep, Tick,
     Deadline
<1>3. CASE Thread
  BY <1>3, ConnectInv, ConnectFailsInv, EndPaintInv, ResizeInv, ResetInv,
     DisconnectInv,
     ReportInv DEF Thread
<1>4. CASE ~uaf /\ (CloseEnd \/ ServerStops \/ ServerCloses)
  BY <1>4, CloseEndInv, ServerStopsInv, ServerClosesInv
<1>5. ASSUME NEW h \in Handlers, NEW op \in {"shot", "input"}, Request(h, op) PROVE IInv'
  BY <1>5, RequestInv
<1>6. ASSUME NEW r \in Readers, Step(r) PROVE IInv'
  BY <1>6, UpdateSizeInv, UpdateCopyInv, SnapshotSizeInv, CopySnapshotInv,
     SendInputInv DEF Step
<1>7. QED
  BY <1>1, <1>2, <1>3, <1>4, <1>5, <1>6 DEF Next

(* The inductive invariant holds of every behaviour. *)
THEOREM Invariance == Spec => []IInv
BY InitIInv, NextIInv, PTL DEF Spec

-----------------------------------------------------------------------------
(* Every variable keeps its type. *)
THEOREM TypeCorrect == Spec => []TypeOK
<1>1. IInv => TypeOK
  BY DEF IInv
<1>2. QED
  BY Invariance, <1>1, PTL

(* NoUseAfterFree (Close): a freed client is used only by a handler that   *)
(* the server did not wait for.                                            *)
THEOREM ClientOutlivesUsers == Spec => []NoUseAfterFree
<1>1. IInv => NoUseAfterFree
  BY DEF IInv, TypeOK, SessionTypes, ThreadTypes, Owner, Turn, NoUseAfterFree,
     ThreadHasClient
<1>2. QED
  BY Invariance, <1>1, PTL

(* FailedStartFreesAll (StartSession): between two modes, and after the    *)
(* last one failed, there is neither a client nor a thread.                *)
THEOREM NothingLeftBehind == Spec => []FailedStartFreesAll
<1>1. IInv => FailedStartFreesAll
  BY DEF IInv, TypeOK, SessionTypes, ThreadTypes, Owner, FailedStartFreesAll
<1>2. QED
  BY Invariance, <1>1, PTL

(* ImplementsResource (run): the first half of Report is Fail, the second  *)
(* End, the last of Close is Close.  A session is returned when a frame of *)
(* it was found usable, and may have failed or ended by then.              *)
LEMMA InitPromise == Init => Promise!Init
BY DEF Init, Returned, Promise!Init

(* A reader's step leaves a returned session alone; of any other it may    *)
(* make a returned one, that is not closed.                                *)
LEMMA ReaderReturns ==
  ASSUME IInv, NEW r \in Readers, Step(r)
  PROVE  /\ UNCHANGED <<done, err, close>>
         /\ Returned => Returned'
         /\ ~Returned /\ Returned' => close = "no"
<1>1. UNCHANGED <<done, err, close>> /\ reader[r].pc # "idle"
  BY DEF Step, UpdateSize, UpdateCopy, SnapshotSize, CopySnapshot, TakeSnapshot, SendInput,
         ReaderRest, session, server, thread
<1>2. CASE r = Starter
  BY <1>1, <1>2 DEF IInv, Turn, Returned
<1>3. CASE r # Starter
  <2>1. UNCHANGED boot
    BY <1>3 DEF Step, UpdateSize, UpdateCopy, SnapshotSize, CopySnapshot, TakeSnapshot, SendInput,
                Use, Judge, start
  <2>2. QED
    BY <1>1, <2>1 DEF Returned
<1>4. QED
  BY <1>2, <1>3

LEMMA NextPromise == IInv /\ [Next]_vars => [Promise!Next]_(Promise!view)
<1> SUFFICES ASSUME IInv, [Next]_vars PROVE [Promise!Next]_(Promise!view)
  OBVIOUS
<1>1. ASSUME UNCHANGED <<boot, done, err, close>> PROVE [Promise!Next]_(Promise!view)
  BY <1>1 DEF Returned, Promise!view
<1>2. CASE UNCHANGED vars
  BY <1>1, <1>2 DEF vars, start, thread, session
<1>3. CASE StartStep
  <2>1. ~Returned
    BY <1>3 DEF IInv, StartStep, StartFails, StartOnce, Tick, Deadline, Probe, SessionDone,
                CloseRejected, TryNextMode, Returned
  <2>2. Returned' => ~done' /\ ~err' /\ close' = "no"
    BY <1>3, <2>1 DEF StartStep, StartFails, StartOnce, Tick, Deadline, Probe, SessionDone,
                      CloseRejected, TryNextMode, NextMode, Returned, start
  <2>3. QED
    BY <2>1, <2>2 DEF Promise!view
<1>4. CASE Thread
  <2>1. CASE Report /\ loop = "report"
    <3>1. ~err /\ ~done /\ err' = failed /\ UNCHANGED <<boot, done, close>>
      BY <2>1 DEF IInv, Owner, Report, start, session, server
    <3>2. CASE failed /\ Returned
      <4>1. Promise!Fail
        BY <3>1, <3>2 DEF Returned, IInv, TypeOK, ThreadTypes, Promise!Fail
      <4>2. QED
        BY <4>1 DEF Promise!Next
    <3>3. CASE ~failed \/ ~Returned
      BY <3>1, <3>3 DEF Returned, IInv, TypeOK, ThreadTypes, Promise!view
    <3>4. QED
      BY <3>2, <3>3
  <2>2. CASE Report /\ loop = "finish"
    <3>1. ~done /\ done' /\ UNCHANGED <<boot, err, close>>
      BY <2>2 DEF IInv, Owner, Report, start, session, server
    <3>2. CASE Returned
      <4>1. Promise!End
        BY <3>1, <3>2 DEF Returned, Promise!End
      <4>2. QED
        BY <4>1 DEF Promise!Next
    <3>3. CASE ~Returned
      BY <3>1, <3>3 DEF Returned, Promise!view
    <3>4. QED
      BY <3>2, <3>3
  <2>3. CASE ~Report
    BY <1>1, <1>4, <2>3 DEF Thread, Connect, ConnectFails, EndPaint, Resize, Disconnect,
                            ResetSnapshot, Disconnected, start, session, server, thread
  <2>4. QED
    BY <2>1, <2>2, <2>3 DEF Report
<1>5. CASE CloseEnd
  <2>1. UNCHANGED <<boot, done, err>> /\ close # "closed" /\ (close' = "closed" => done)
    BY <1>5 DEF IInv, Owner, CloseEnd, CloseAfter, start, thread
  <2>2. CASE Returned /\ close' = "closed"
    <3>1. Promise!Close
      BY <2>1, <2>2 DEF Returned, Promise!Close
    <3>2. QED
      BY <3>1 DEF Promise!Next
  <2>3. CASE ~Returned \/ close' # "closed"
    BY <2>1, <2>3 DEF Returned, Promise!view
  <2>4. QED
    BY <2>2, <2>3
<1>6. CASE ServerStops \/ ServerCloses
  BY <1>6 DEF ServerStops, ServerCloses, CloseBegin, start, session, server, thread, Returned, Promise!view
<1>7. ASSUME NEW h \in Handlers, NEW op \in {"shot", "input"}, Request(h, op)
      PROVE  [Promise!Next]_(Promise!view)
  BY <1>1, <1>7 DEF Request, start, session, server, thread
<1>8. ASSUME NEW r \in Readers, Step(r) PROVE [Promise!Next]_(Promise!view)
  <2>1. UNCHANGED <<done, err, close>> /\ (Returned => Returned') /\ (~Returned /\ Returned' => close = "no")
    BY <1>8, ReaderReturns
  <2>2. CASE Returned \/ ~Returned'
    BY <2>1, <2>2 DEF Promise!view
  <2>3. CASE ~Returned /\ Returned' /\ done
    <3>1. Promise!End
      BY <2>1, <2>3 DEF IInv, TypeOK, ThreadTypes, Promise!End
    <3>2. QED
      BY <3>1 DEF Promise!Next
  <2>4. CASE ~Returned /\ Returned' /\ ~done /\ err
    <3>1. Promise!Fail
      BY <2>1, <2>4 DEF Promise!Fail
    <3>2. QED
      BY <3>1 DEF Promise!Next
  <2>5. CASE ~Returned /\ Returned' /\ ~done /\ ~err
    BY <2>1, <2>5 DEF Promise!view
  <2>6. QED
    BY <2>2, <2>3, <2>4, <2>5
<1>9. QED
  BY <1>2, <1>3, <1>4, <1>5, <1>6, <1>7, <1>8 DEF Next

(* The RDP session,, once StartSession has returned it, keeps what its user *)
(* is promised of any backend: every step is one of Resource's or changes  *)
(* nothing that Resource speaks of.                                        *)
THEOREM KeepsPromises == Spec => ImplementsResource
<1>1. IInv /\ [Next]_vars => [Promise!Next]_(Promise!view)
  BY NextPromise
<1>2. QED
  BY <1>1, InitPromise, Invariance, PTL DEF Spec, ImplementsResource, Promise!Spec

-----------------------------------------------------------------------------
(* A call that is under way has no answer yet. *)
Pending == \A r \in Readers : reader[r].pc # "idle" => reader[r].answer = "none"

LEMMA PendingStep ==
  ASSUME TypeOK, Pending, NEW r \in Readers, NEW x, reader' = [reader EXCEPT ![r] = x],
         x.pc # "idle" => x.answer = "none"
  PROVE  Pending'
BY DEF TypeOK, Pending

LEMMA NextPending == TypeOK /\ Pending /\ [Next]_vars => Pending'
<1> SUFFICES ASSUME TypeOK, Pending, [Next]_vars PROVE Pending'
  OBVIOUS
<1>1. CASE UNCHANGED reader
  BY <1>1 DEF Pending
<1>2. ASSUME NEW size, Redraw(size) PROVE Pending'
  <2>1. ASSUME NEW r \in Readers
        PROVE  reader'[r].pc # "idle" => reader[r].pc # "idle" /\ reader'[r].answer = reader[r].answer
    BY <1>2, <2>1 DEF Redraw, TypeOK, Reader, NoRead
  <2>2. QED
    BY <2>1 DEF Pending
<1>3. ASSUME NEW r \in Readers, NEW op, GetClient(r, op) PROVE Pending'
  <2> DEFINE x == IF ptr THEN [NoRead EXCEPT !.pc = IF op = "input" THEN "send" ELSE "update",
                                !.op = op, !.moved = loop = "hangup"]
                  ELSE NoRead
  <2>1. reader' = [reader EXCEPT ![r] = x]
    BY <1>3 DEF GetClient
  <2>2. x.answer = "none"
    BY DEF NoRead
  <2> HIDE DEF x
  <2>3. QED
    BY <2>1, <2>2, PendingStep
<1>4. ASSUME NEW r \in Readers, Return(r) PROVE Pending'
  BY <1>4, PendingStep DEF Return, NoRead
<1>5. CASE StartStep
  <2>1. CASE UNCHANGED reader
    BY <1>1, <2>1
  <2>2. CASE Tick \/ Deadline
    BY <1>3, <2>2 DEF Tick, Deadline, Probe, Readers
  <2>3. QED
    BY <1>5, <2>1, <2>2 DEF StartStep, StartFails, StartOnce, SessionDone,
       CloseRejected, TryNextMode
<1>6. CASE Thread
  BY <1>1, <1>2, <1>6 DEF Thread, Connect, ConnectFails, EndPaint, Resize,
     Disconnect,
                          ResetSnapshot, Disconnected, Report
<1>7. CASE CloseEnd \/ ServerStops \/ ServerCloses
  BY <1>1, <1>7 DEF CloseEnd, CloseAfter, ServerStops, ServerCloses
<1>8. ASSUME NEW h \in Handlers, NEW op \in {"shot", "input"}, Request(h, op) PROVE Pending'
  BY <1>3, <1>8 DEF Request, Readers
<1>9. ASSUME NEW r \in Readers, Step(r) PROVE Pending'
  <2>1. reader[r] \in Reader /\ (reader[r].pc # "idle" => reader[r].answer = "none")
    BY DEF TypeOK, Pending
  <2>2. ASSUME NEW x, reader' = [reader EXCEPT ![r] = x],
               x.pc # "idle" => x.answer = reader[r].answer, reader[r].pc # "idle"
        PROVE  Pending'
    BY <2>1, <2>2, PendingStep
  <2>3. CASE UpdateSize(r) \/ UpdateCopy(r)
    <3>1. CASE Return(r)
      BY <1>4, <3>1
    <3>2. CASE ~Return(r)
      <4>1. PICK pc \in {"copy", "copy2", "size", "take"}, frame \in {gdi, NoFrame} :
              reader' = [reader EXCEPT ![r] = [reader[r] EXCEPT !.pc = pc, !.frame = frame]]
        BY <2>3, <3>2 DEF UpdateSize, UpdateCopy, Use
      <4>2. [reader[r] EXCEPT !.pc = pc, !.frame = frame].answer = reader[r].answer
        BY <2>1 DEF Reader
      <4>3. reader[r].pc # "idle"
        BY <2>3 DEF UpdateSize, UpdateCopy
      <4>4. QED
        BY <2>2, <4>1, <4>2, <4>3
    <3>3. QED
      BY <3>1, <3>2
  <2>4. CASE SnapshotSize(r)
    <3>1. CASE Return(r) \/ GetClient(r, "shot")
      BY <1>3, <1>4, <3>1
    <3>2. CASE ~Return(r) /\ ~GetClient(r, "shot")
      <4>1. /\ reader' = [reader EXCEPT ![r] =
                            [reader[r] EXCEPT !.pc = "update2", !.buf = snap.bytes]]
            /\ reader[r].pc # "idle"
        BY <2>4, <3>2 DEF SnapshotSize, Use
      <4>2. [reader[r] EXCEPT !.pc = "update2", !.buf = snap.bytes].answer = reader[r].answer
        BY <2>1 DEF Reader
      <4>3. QED
        BY <2>2, <4>1, <4>2
    <3>3. QED
      BY <3>1, <3>2
  <2>5. CASE CopySnapshot(r) \/ SendInput(r)
    <3>1. CASE Return(r)
      BY <1>4, <3>1
    <3>2. CASE ~Return(r)
      <4>1. PICK a : reader' = [reader EXCEPT ![r] = [NoRead EXCEPT !.answer = a]]
        BY <2>5, <3>2 DEF CopySnapshot, TakeSnapshot, SendInput, Use
      <4>2. [NoRead EXCEPT !.answer = a].pc = "idle"
        BY DEF NoRead
      <4>3. QED
        BY <4>1, <4>2, PendingStep
    <3>3. QED
      BY <3>1, <3>2
  <2>6. QED
    BY <1>9, <2>3, <2>4, <2>5 DEF Step
<1>10. QED
  <2>1. CASE UNCHANGED vars
    BY <1>1, <2>1 DEF vars
  <2>2. QED
    BY <2>1, <1>5, <1>6, <1>7, <1>8, <1>9 DEF Next

LEMMA AlwaysPending == Spec => []Pending
<1>1. Init => Pending
  BY DEF Init, Pending, NoRead
<1>2. QED
  BY <1>1, NextPending, TypeCorrect, PTL DEF Spec

(* Only copy_snapshot answers with an image. *)
LEMMA AnsweredByCopy ==
  ASSUME IInv, Pending, [Next]_vars, NEW r \in Readers,
         reader[r].pc = "take", reader'[r].answer # "none"
  PROVE  CopySnapshot(r) /\ mem = "live" /\ ~Return(r)
<1> USE DEF IInv
<1>0. /\ reader[r] \in Reader /\ reader[r].answer = "none" /\ reader'[r] # reader[r]
      /\ reader'[r] # NoRead
  BY DEF TypeOK, Pending, NoRead
<1>1. ASSUME NEW q \in Readers, NEW x, reader' = [reader EXCEPT ![q] = x] PROVE q = r
  BY <1>0, <1>1 DEF TypeOK
<1>2. ASSUME NEW q \in Readers, Return(q) PROVE FALSE
  BY <1>0, <1>1, <1>2 DEF Return, TypeOK
<1>3. ASSUME NEW q \in Readers, NEW op, reader[q].pc = "idle", GetClient(q, op) PROVE FALSE
  BY <1>1, <1>3 DEF GetClient
<1>4. ASSUME NEW size, Redraw(size) PROVE FALSE
  <2>1. reader'[r].answer = reader[r].answer
    BY <1>0, <1>4 DEF Redraw, Reader
  <2>2. QED
    BY <1>0, <2>1
<1>5. ~UNCHANGED reader
  BY <1>0
<1>6. ~StartStep
  BY <1>3, <1>5 DEF StartStep, StartFails, StartOnce, Tick, Deadline, Probe,
     SessionDone,
                    CloseRejected, TryNextMode, Readers
<1>7. ~Thread
  BY <1>4, <1>5 DEF Thread, Connect, ConnectFails, EndPaint, Resize, Disconnect,
                    ResetSnapshot, Disconnected, Report
<1>8. ~(CloseEnd \/ ServerStops \/ ServerCloses)
  BY <1>5 DEF CloseEnd, CloseAfter, ServerStops, ServerCloses
<1>9. ASSUME NEW h \in Handlers, NEW op, Request(h, op) PROVE FALSE
  BY <1>3, <1>9 DEF Request, Readers
<1>10. PICK q \in Readers : Step(q)
  BY <1>5, <1>6, <1>7, <1>8, <1>9 DEF Next, vars
<1>11. q = r
  <2>1. \E x : reader' = [reader EXCEPT ![q] = x]
    BY <1>10 DEF Step, UpdateSize, UpdateCopy, SnapshotSize, CopySnapshot,
       TakeSnapshot,
                 SendInput, Use, Return, GetClient
  <2>2. QED
    BY <1>1, <2>1
<1>12. CopySnapshot(r)
  BY <1>10, <1>11 DEF Step, UpdateSize, UpdateCopy, SnapshotSize, SendInput
<1>13. QED
  BY <1>2, <1>12 DEF CopySnapshot, TakeSnapshot, Use

(* ScreenshotIsCurrent (snapshot_update, copy_snapshot): unless the frame  *)
(* changed in the middle of an update, an image is whole, and of the       *)
(* frame of now or of one that the call has seen change.                   *)
THEOREM ImagesAreWhole == Spec => ScreenshotIsCurrent
<1>1. ASSUME IInv, Pending, [Next]_vars PROVE raced \/ \A r \in Readers : WholeFrame(r)
  <2> SUFFICES ASSUME ~raced, NEW r \in Readers, reader[r].pc = "take",
                      reader'[r].answer # "none"
               PROVE  reader'[r].answer = "image" /\ (snap.bytes = gdi \/ reader[r].moved)
    BY DEF WholeFrame
  <2>1. CopySnapshot(r) /\ mem = "live" /\ ~Return(r)
    BY <1>1, AnsweredByCopy
  <2>2. snap.bytes = snap.dims /\ (~reader[r].moved => snap.bytes \in {gdi, NoFrame})
    BY <1>1 DEF IInv, Frames, SnapshotOK, Holding
  <2>3. snap.bytes # NoFrame /\ snap.bytes <= reader[r].buf
    BY <2>1 DEF CopySnapshot, TakeSnapshot, Use
  <2>4. snap.bytes \in Nat /\ reader[r].buf \in Nat
    <3>1. Sizes \subseteq Nat
      BY RdpAssumption DEF RdpAssumption, Sizes, NoFrame
    <3>2. snap.bytes \in Sizes /\ reader[r] \in Reader
      BY <1>1 DEF IInv, TypeOK, FrameTypes, Snapshot
    <3>3. reader[r].buf \in Sizes
      BY <3>2 DEF Reader
    <3>4. QED
      BY <3>1, <3>2, <3>3
  <2>5. ~(snap.dims > reader[r].buf)
    BY <2>2, <2>3, <2>4
  <2>6. reader' = [reader EXCEPT ![r] = [NoRead EXCEPT !.answer = "image"]]
    BY <2>1, <2>2, <2>3, <2>5 DEF CopySnapshot, TakeSnapshot, Use
  <2>7. reader'[r].answer = "image"
    BY <1>1, <2>6 DEF IInv, TypeOK, NoRead
  <2>8. QED
    BY <2>2, <2>3, <2>7
<1>2. QED
  BY Invariance, AlwaysPending, <1>1, PTL DEF Spec, ScreenshotIsCurrent

=============================================================================
