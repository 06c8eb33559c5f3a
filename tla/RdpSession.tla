------------------------------ MODULE RdpSession ------------------------------
(***************************************************************************)
(* An RDP session (internal/freerdp/client.go and client_bridge.c): how it *)
(* is started with one graphics mode after another, the thread that runs   *)
(* FreeRDP's loop, the handlers that use the client by the pointer they    *)
(* have taken, and Close, which frees it.                                  *)
(*                                                                         *)
(* The frame that FreeRDP draws (gdi) belongs to its thread; every reader  *)
(* copies it into the snapshot itself, and only the snapshot has a mutex.  *)
(* A frame is told by its number of bytes (stride * height), of which the  *)
(* snapshot has two records: the bytes that were copied and the dimensions *)
(* that go with them.  Half painted frames are not told apart.             *)
(*                                                                         *)
(* The server is the one of ServerLifecycle over HTTP: it lets the         *)
(* handlers finish, for five seconds, before it closes the session.        *)
(***************************************************************************)
EXTENDS Integers, FiniteSets

CONSTANTS
  Handlers,    (* goroutines of requests                                   *)
  Starter,     (* the goroutine of StartSession, which reads frames too    *)
  FrameSizes,  (* the sizes that the remote desktop may have, in bytes     *)
  Modes,       (* how many graphics modes startupGraphicsModes gives       *)
  BlankLimit   (* blankSnapshotLimit                                       *)

ASSUME RdpAssumption ==
  /\ Starter \notin Handlers
  /\ FrameSizes \subseteq Nat \ {0}
  /\ Modes \in Nat \ {0} /\ BlankLimit \in Nat \ {0}

Readers == Handlers \union {Starter}
NoFrame == 0

VARIABLES
  boot, mode, blanks,  (* StartSession, its loops' i and blankCount        *)
  ptr, mem,            (* s.client # nil; what it points to                *)
  loop, failed,        (* the session's thread, and what its C call returns *)
  err, done,           (* s.runErr # nil, s.done is closed                 *)
  aborted, close,      (* gofreerdp_abort was called; Close                *)
  serve, again,        (* the server; once it stops, the handlers whose    *)
                       (* request has more calls to make                   *)
  gdi, snap,           (* the frame, and the snapshot of it                *)
  reader               (* what each reader is at                           *)

(* Observation only. *)
VARIABLES
  uaf,    (* the client was used after it was freed                        *)
  late,   (* the session was closed although handlers were still running   *)
  raced   (* the frame changed between two reads of one snapshot update    *)

start   == <<boot, mode, blanks>>
session == <<ptr, mem, close>>
thread  == <<loop, failed, err, done>>
server  == <<serve, again>>
seen    == <<uaf, late, raced>>
vars == <<start, session, thread, aborted, server, gdi, snap, reader, seen>>

Sizes == FrameSizes \union {NoFrame}
Snapshot == [bytes : Sizes, dims : Sizes]
Reader ==
  [pc : {"idle", "update", "copy", "size", "update2", "copy2", "take", "send"},
   op : {"status", "shot", "last", "input"},
   frame : Sizes,           (* the size that snapshot_update has computed    *)
   buf : Sizes,             (* the length of Screenshot's buffer             *)
   answer : {"none", "image", "torn", "panic"},   (* torn: the bytes and  *)
                            (* the dimensions are of different frames        *)
   moved : BOOLEAN]         (* observation: the frame is not the one that    *)
                            (* the call began with                           *)

StartTypes ==
  /\ boot \in {"start", "waiting", "rejected", "up", "failed", "crashed"}
  /\ mode \in 1..Modes /\ blanks \in 0..BlankLimit
SessionTypes ==
  /\ ptr \in BOOLEAN /\ mem \in {"none", "live", "freed"}
  /\ close \in {"no", "wait", "free", "closed"}
  /\ aborted \in BOOLEAN /\ serve \in {"open", "draining"} /\ again \subseteq Handlers
  /\ mem = "freed" => ~ptr
ThreadTypes ==
  /\ loop \in {"none", "connect", "up", "resized", "hangup", "report", "finish", "ended"}
  /\ failed \in BOOLEAN /\ err \in BOOLEAN /\ done \in BOOLEAN
FrameTypes == gdi \in Sizes /\ snap \in Snapshot
SeenTypes == uaf \in BOOLEAN /\ late \in BOOLEAN /\ raced \in BOOLEAN

(* Every variable keeps its type; a freed client is not to be had from the *)
(* session.                                                                *)
TypeOK ==
  /\ StartTypes /\ SessionTypes /\ ThreadTypes /\ FrameTypes /\ SeenTypes
  /\ reader \in [Readers -> Reader]

-----------------------------------------------------------------------------
NoSnapshot == [bytes |-> NoFrame, dims |-> NoFrame]

NoRead == [pc |-> "idle", op |-> "status", frame |-> NoFrame, buf |-> NoFrame,
           answer |-> "none", moved |-> FALSE]

(* The call returns, with a status, an error or the result of an input. *)
Return(r) == reader' = [reader EXCEPT ![r] = NoRead]

(* The handlers are at work. *)
Busy == \E h \in Handlers : reader[h].pc # "idle" \/ h \in again

Init ==
  /\ boot = "start" /\ mode = 1 /\ blanks = 0
  /\ ptr = FALSE /\ mem = "none" /\ close = "no"
  /\ loop = "none" /\ failed = FALSE /\ err = FALSE /\ done = FALSE
  /\ aborted = FALSE /\ serve = "open" /\ again = {}
  /\ gdi = NoFrame /\ snap = NoSnapshot
  /\ reader = [r \in Readers |-> NoRead]
  /\ uaf = FALSE /\ late = FALSE /\ raced = FALSE

-----------------------------------------------------------------------------
(* The session's thread: run, and gofreerdp_run_persistent. *)

(* The frame is now this one: whoever has computed its old size to copy it *)
(* goes on with that size.  The answer of a call that is over is forgotten *)
(* here: it was of a frame that is no more.                                *)
Redraw(size) ==
  /\ gdi' = size
  /\ raced' = (raced \/ \E r \in Readers :
                 reader[r].pc \in {"copy", "copy2"} /\ reader[r].frame # NoFrame)
  /\ reader' = [r \in Readers |->
                  IF reader[r].pc = "idle" THEN NoRead
                  ELSE [reader[r] EXCEPT !.moved = TRUE]]

(* freerdp_connect: post_connect, like desktop_resize, first makes the     *)
(* frame and then resets the snapshot.                                     *)
Connect ==
  /\ loop = "connect" /\ ~aborted /\ loop' = "resized"
  /\ \E size \in FrameSizes : Redraw(size)
  /\ UNCHANGED <<start, session, failed, err, done, aborted, server, snap, uaf, late>>

ConnectFails ==
  /\ loop = "connect" /\ loop' = "report" /\ failed' = TRUE
  /\ UNCHANGED <<start, session, err, done, aborted, server, gdi, snap, reader, seen>>

(* end_paint takes a snapshot, in the thread that the frame belongs to. *)
EndPaint ==
  /\ loop = "up" /\ snap' = [bytes |-> gdi, dims |-> gdi]
  /\ UNCHANGED <<start, session, thread, aborted, server, gdi, reader, seen>>

(* desktop_resize, first gdi_resize and then snapshot_reset. *)
Resize ==
  /\ loop = "up" /\ loop' = "resized"
  /\ \E size \in FrameSizes \ {gdi} : Redraw(size)
  /\ UNCHANGED <<start, session, failed, err, done, aborted, server, snap, uaf, late>>

ResetSnapshot ==
  /\ loop = "resized" /\ loop' = "up" /\ snap' = NoSnapshot
  /\ UNCHANGED <<start, session, failed, err, done, aborted, server, gdi, reader, seen>>

(* The loop ends with the server's goodbye or an abort, or fails;          *)
(* post_disconnect frees the frame and then resets the snapshot.           *)
Disconnect(f) ==
  /\ loop = "up" /\ loop' = "hangup" /\ failed' = f
  /\ Redraw(NoFrame)
  /\ UNCHANGED <<start, session, err, done, aborted, server, snap, uaf, late>>

Disconnected ==
  /\ loop = "hangup" /\ loop' = "report" /\ snap' = NoSnapshot
  /\ UNCHANGED <<start, session, failed, err, done, aborted, server, gdi, reader, seen>>

ReportAfterDone ==
  \/ /\ loop = "report" /\ loop' = "finish" /\ done' = TRUE
     /\ UNCHANGED <<start, session, failed, err, aborted, server, gdi, snap, reader, seen>>
  \/ /\ loop = "finish" /\ loop' = "ended" /\ err' = failed
     /\ UNCHANGED <<start, session, failed, done, aborted, server, gdi, snap, reader, seen>>

(* setErr, and then the deferred close of done. *)
Report ==
  \/ /\ loop = "report" /\ loop' = "finish" /\ err' = failed /\ failed' = FALSE
     /\ UNCHANGED <<start, session, done, aborted, server, gdi, snap, reader, seen>>
  \/ /\ loop = "finish" /\ loop' = "ended" /\ done' = TRUE
     /\ UNCHANGED <<start, session, failed, err, aborted, server, gdi, snap, reader, seen>>

(* What the thread does by itself, once it was aborted. *)
WindDown ==
  \/ aborted /\ (ConnectFails \/ Disconnect(FALSE))
  \/ ResetSnapshot \/ Disconnected \/ Report

Thread ==
  Connect \/ ConnectFails \/ EndPaint \/ Resize \/ Disconnect(TRUE) \/ Disconnect(FALSE)
  \/ ResetSnapshot \/ Disconnected \/ Report

-----------------------------------------------------------------------------
(* Readers.  A step uses the client it took in the beginning, even when    *)
(* that was freed since.                                                   *)
Use(r, step) ==
  IF mem = "live" THEN step /\ UNCHANGED uaf
  ELSE /\ uaf' = TRUE /\ Return(r)
       /\ UNCHANGED <<start, snap>>

ReaderRest == <<session, thread, aborted, server, gdi, late, raced>>

(* getClient. *)
GetClient(r, op) ==
  reader' = [reader EXCEPT ![r] =
    IF ptr THEN [NoRead EXCEPT !.pc = IF op = "input" THEN "send" ELSE "update", !.op = op,
                   !.moved = loop = "hangup"]
    ELSE NoRead]

(* A call of a new request, or the next one of a request that began before *)
(* the server stopped.                                                     *)
Request(h, op) ==
  /\ boot = "up" /\ reader[h].pc = "idle" /\ (serve = "open" \/ h \in again)
  /\ GetClient(h, op)
  /\ again' \in {again, again \ {h}}
  /\ UNCHANGED <<start, session, thread, aborted, serve, gdi, snap, seen>>

(* snapshot_update computes the size, before it takes the mutex ... *)
UpdateSize(r) ==
  /\ reader[r].pc \in {"update", "update2"}
  /\ Use(r, /\ reader' = [reader EXCEPT ![r] =
                 [reader[r] EXCEPT
                    !.pc = IF reader[r].pc = "update" THEN "copy" ELSE "copy2", !.frame = gdi]]
            /\ UNCHANGED <<start, snap>>)
  /\ UNCHANGED ReaderRest

(* ... and copies that many bytes under it, with the dimensions of now.    *)
(* When the frame is no more, that reads what was freed.                   *)
UpdateCopy(r) ==
  /\ reader[r].pc \in {"copy", "copy2"}
  /\ Use(r, /\ reader' = [reader EXCEPT ![r] =
                 [reader[r] EXCEPT
                    !.pc = IF reader[r].pc = "copy" THEN "size" ELSE "take", !.frame = NoFrame]]
            /\ IF reader[r].frame = NoFrame THEN UNCHANGED snap
               ELSE \E dims \in IF gdi = NoFrame THEN FrameSizes ELSE {gdi} :
                      snap' = [bytes |-> reader[r].frame, dims |-> dims]
            /\ UNCHANGED start)
  /\ UNCHANGED ReaderRest

(* What StartSession makes of an answer: a status that is ready is         *)
(* followed by a screenshot, and that is judged; the status at the         *)
(* deadline is only for the error's text.                                  *)
Blank ==
  /\ blanks' = blanks + 1
  /\ boot' = IF blanks' = BlankLimit THEN "rejected" ELSE boot
  /\ UNCHANGED mode

(* StartSession returns, and its loops' variables are gone. *)
Usable == boot' = "up" /\ blanks' = 0 /\ mode' = 1

Judge(r, answer) ==
  CASE r = Starter /\ reader[r].op = "shot" /\ answer \in {"image", "torn"} -> Blank \/ Usable
    [] r = Starter /\ reader[r].op = "last"  -> boot' = "rejected" /\ UNCHANGED <<mode, blanks>>
    [] r = Starter /\ answer = "panic"       -> boot' = "crashed" /\ UNCHANGED <<mode, blanks>>
    [] OTHER -> UNCHANGED start

(* The rest of snapshot_size.  Screenshot allocates the buffer; a handler's *)
(* Status, which begins like its Screenshot, returns.                      *)
SnapshotSize(r) ==
  /\ reader[r].pc = "size"
  /\ Use(r, /\ \/ /\ reader[r].op = "shot" /\ snap.bytes # NoFrame
                  /\ reader' = [reader EXCEPT ![r] =
                       [reader[r] EXCEPT !.pc = "update2", !.buf = snap.bytes]]
               \/ /\ reader[r].op = "status" /\ snap.bytes # NoFrame
                  /\ GetClient(r, "shot")
               \/ /\ reader[r].op = "shot" => r # Starter \/ snap.bytes = NoFrame
                  /\ reader[r].op = "status" => snap.bytes = NoFrame
                  /\ Return(r)
            /\ Judge(r, "none")
            /\ UNCHANGED snap)
  /\ UNCHANGED ReaderRest

(* The rest of copy_snapshot and of Screenshot, which walks the rows of    *)
(* the image: beyond the buffer, that panics.                              *)
TakeSnapshot(r, fits, dims) ==
  /\ reader[r].pc = "take"
  /\ Use(r, /\ IF snap.bytes # NoFrame /\ fits
               THEN LET a == CASE dims > reader[r].buf -> "panic"
                             [] dims <= reader[r].buf /\ dims # snap.bytes -> "torn"
                             [] OTHER -> "image"
                    IN  /\ reader' = [reader EXCEPT ![r] = [NoRead EXCEPT !.answer = a]]
                        /\ Judge(r, a)
               ELSE Return(r) /\ UNCHANGED start
            /\ UNCHANGED snap)
  /\ UNCHANGED ReaderRest

CopySnapshotKeepsSize(r) == TakeSnapshot(r, snap.bytes <= reader[r].buf, reader[r].buf)

CopySnapshot(r) == TakeSnapshot(r, snap.bytes <= reader[r].buf, snap.dims)

(* An input call, once it has the input lock.  What becomes of the event  *)
(* is ControlService's.                                                    *)
SendInput(h) ==
  /\ reader[h].pc = "send"
  /\ Use(h, Return(h) /\ UNCHANGED <<start, snap>>)
  /\ UNCHANGED ReaderRest

Step(r) ==
  UpdateSize(r) \/ UpdateCopy(r) \/ SnapshotSize(r) \/ CopySnapshot(r) \/ SendInput(r)

-----------------------------------------------------------------------------
CloseBeginSilently ==
  /\ close = "no" /\ close' = "wait" /\ UNCHANGED <<aborted, ptr, mem>>

(* Close. *)
CloseBegin ==
  /\ close = "no" /\ close' = "wait" /\ aborted' = TRUE
  /\ UNCHANGED <<ptr, mem>>

CloseAfter(ended) ==
  \/ /\ close = "wait" /\ ended
     /\ close' = "free" /\ ptr' = FALSE
     /\ UNCHANGED <<start, mem, thread, aborted, server, gdi, snap, reader, seen>>
  \/ /\ close = "free"
     /\ close' = "closed" /\ mem' = "freed"
     /\ UNCHANGED <<start, ptr, thread, aborted, server, gdi, snap, reader, seen>>

CloseAtOnce == CloseAfter(TRUE)

(* When the thread has ended: clearClient, and then the client is freed. *)
CloseEnd == CloseAfter(done)

-----------------------------------------------------------------------------
(* StartSession. *)
NextMode == IF mode = Modes THEN boot' = "failed" /\ UNCHANGED mode
            ELSE boot' = "start" /\ mode' = mode + 1

(* newConfiguredClient fails, and has freed what it had allocated. *)
StartFails ==
  /\ boot = "start" /\ NextMode
  /\ UNCHANGED <<blanks, session, thread, aborted, server, gdi, snap, reader, seen>>

(* startSessionOnce: a new session.  The last mode is not probed. *)
StartOnce ==
  /\ boot = "start"
  /\ IF mode = Modes THEN Usable ELSE boot' = "waiting" /\ blanks' = 0 /\ UNCHANGED mode
  /\ ptr' = TRUE /\ mem' = "live" /\ close' = "no" /\ aborted' = FALSE
  /\ loop' = "connect" /\ failed' = FALSE /\ err' = FALSE /\ done' = FALSE
  /\ gdi' = NoFrame /\ snap' = NoSnapshot
  /\ UNCHANGED <<server, reader, seen>>

(* waitForUsableStartupSnapshot: a tick, the deadline, the session's end. *)
Probe(op) ==
  /\ boot = "waiting" /\ reader[Starter].pc = "idle"
  /\ GetClient(Starter, op)
  /\ UNCHANGED <<start, session, thread, aborted, server, gdi, snap, seen>>

Tick == Probe("status")
Deadline == Probe("last")

SessionDone ==
  /\ boot = "waiting" /\ reader[Starter].pc = "idle" /\ done
  /\ boot' = "rejected"
  /\ UNCHANGED <<mode, blanks, session, thread, aborted, server, gdi, snap, reader, seen>>

(* A session that is not usable is closed, and the next mode is tried. *)
CloseRejected ==
  /\ boot = "rejected" /\ CloseBegin
  /\ UNCHANGED <<start, thread, server, gdi, snap, reader, seen>>

NextModeAtOnce ==
  /\ boot = "rejected" /\ NextMode
  /\ UNCHANGED <<blanks, session, thread, aborted, server, gdi, snap, reader, seen>>

TryNextMode ==
  /\ boot = "rejected" /\ close = "closed" /\ NextMode
  /\ UNCHANGED <<blanks, session, thread, aborted, server, gdi, snap, reader, seen>>

-----------------------------------------------------------------------------
(* The server stops, for a signal or because a backend ended; it waits for *)
(* the handlers, or five seconds, and closes the session.  Any handler may *)
(* be in the middle of its request, in a call or between two of them.      *)
ServerStops ==
  /\ boot = "up" /\ serve = "open" /\ serve' = "draining"
  /\ again' \in SUBSET Handlers
  /\ UNCHANGED <<start, session, thread, aborted, gdi, snap, reader, seen>>

ServerClosesUnasked ==
  /\ serve = "draining" /\ CloseBegin
  /\ UNCHANGED <<start, thread, server, gdi, snap, reader, seen>>

ServerCloses ==
  /\ serve = "draining" /\ CloseBegin
  /\ late' = Busy
  /\ UNCHANGED <<start, thread, server, gdi, snap, reader, uaf, raced>>

StartStep ==
  \/ StartFails \/ StartOnce \/ Tick \/ Deadline \/ SessionDone
  \/ CloseRejected \/ TryNextMode

Next ==
  /\ boot # "crashed" /\ ~uaf   (* nothing is said of what follows *)
  /\ \/ StartStep \/ Thread \/ CloseEnd \/ ServerStops \/ ServerCloses
     \/ \E h \in Handlers, op \in {"shot", "input"} : Request(h, op)
     \/ \E r \in Readers : Step(r)

Spec == Init /\ [][Next]_vars

(* StartSession's goroutine runs, its timers expire (a ready tick does not *)
(* keep the deadline from being chosen for ever), the thread looks again   *)
(* and again whether it was aborted, and Close goes on when it has ended.  *)
Fairness ==
  /\ WF_vars(StartStep) /\ SF_vars(Deadline)
  /\ WF_vars(Step(Starter)) /\ WF_vars(CloseEnd)
  /\ WF_vars(WindDown) /\ SF_vars(aborted /\ Disconnect(FALSE))

FairSpec == Spec /\ Fairness

-----------------------------------------------------------------------------
(* Properties. *)

(* A freed client is used by nobody: not by the thread that runs it, for   *)
(* which Close waits, nor by a handler that had taken the pointer before,  *)
(* unless the server gave up waiting for its handlers.                     *)
ThreadHasClient == loop \notin {"none", "ended"} => mem = "live"
NoUseAfterFree == ThreadHasClient /\ (uaf => late)

(* The session that StartSession returns keeps the promises of              *)
(* desktop.Resource: an error only before Done, which is final then, and a  *)
(* Close that returns after it.  It may have ended before it is returned.   *)
Returned == boot = "up"
Promise == INSTANCE Resource
  WITH ended <- Returned /\ done, error <- Returned /\ err, closed <- Returned /\ close = "closed"
ImplementsResource == Promise!Spec

(* An image is all of one frame, with that frame's dimensions, and of the  *)
(* frame of now unless that has changed since the call began; all of this  *)
(* unless the frame changed in the middle of a snapshot update.            *)
WholeFrame(r) ==
  reader[r].pc = "take" /\ reader'[r].answer # "none" =>
    reader'[r].answer = "image" /\ (snap.bytes = gdi \/ reader[r].moved)
ScreenshotIsCurrent == [][raced \/ \A r \in Readers : WholeFrame(r)]_vars

(* A start that failed has left no client and no thread behind, of any of  *)
(* the modes it tried; nor has the mode before when the next one begins.   *)
FailedStartFreesAll ==
  boot \in {"start", "failed"} => mem # "live" /\ loop \in {"none", "ended"}

(* StartSession returns, whatever the server draws or does not draw. *)
StartReturns == boot = "start" ~> boot \in {"up", "failed", "crashed"}

(* "returns the latest framebuffer" (docs/api.md): every image is a frame  *)
(* that there was.  A resize in the middle of an update leaves the bytes   *)
(* of one size with the dimensions of another.                             *)
ScreenshotIsTheFramebuffer == [][\A r \in Readers : WholeFrame(r)]_vars
=============================================================================
