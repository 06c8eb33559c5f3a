------------------------------ MODULE VncSession ------------------------------
(***************************************************************************)
(* A VNC session (internal/vnc/client.go and client_bridge.c): StartSession, *)
(* the goroutine that reads the server's messages and asks for frames, the *)
(* handlers that send input over the same connection, and Close.           *)
(*                                                                         *)
(* What is on the screen is told by a number that grows; an update on its  *)
(* way carries the number it shows.  An input call is told by how many     *)
(* messages it sends under the input lock: a key or a pointer message one, *)
(* a wheel step a press and a release, text two for each rune.             *)
(*                                                                         *)
(* LibVNCClient and the VNC server are external: reading blocks until      *)
(* there is a message or the connection is gone, and after an update the   *)
(* library asks for the next one.  The server that closes the session is   *)
(* that of ServerLifecycle: it waits five seconds for its handlers.        *)
(***************************************************************************)
EXTENDS Integers

CONSTANTS
  Handlers,   (* goroutines of requests                                    *)
  Runes,      (* how many runes a text has                                 *)
  MaxScreen   (* bounds how often the screen changes                       *)

ASSUME VncAssumption ==
  Runes \in Nat \ {0} /\ MaxScreen \in Nat \ {0} /\ Handlers \intersect {"free", "loop"} = {}

Ops == {"one", "wheel", "text"}
Sends(op) == CASE op = "one" -> 1 [] op = "wheel" -> 2 [] op = "text" -> 2 * Runes

VARIABLES
  sock, mem, handle,      (* the connection, the rfbClient, the cgo handle *)
  loop, err, done,        (* run; s.runErr # nil; s.done is closed         *)
  lock,                   (* who has s.inputMu                             *)
  call,                   (* the input call each handler is in             *)
  frame, connected,       (* s.frame, 0 when nil; s.status.Connected       *)
  close, serve,           (* Close; the server                             *)
  screen, shown, asked, update   (* the VNC server: its screen, the last   *)
                          (* one it sent, whether it owes one, the update  *)
                          (* on its way (0: none)                          *)

(* Observation only: the client was used after it was freed; the session   *)
(* was closed although handlers were still at work.                        *)
VARIABLES uaf, late

client == <<sock, mem, handle>>
thread == <<loop, err, done>>
remote == <<screen, shown, asked, update>>
status == <<frame, connected>>
vars   == <<client, thread, lock, call, status, close, serve, remote, uaf, late>>

Call == [pc : {"idle", "between", "lock", "send"}, op : Ops, left : 0..2 * Runes + 2]

TypeOK ==
  /\ sock \in {"none", "up", "cut", "shut"}
  /\ mem \in {"none", "live", "freed"} /\ handle \in {"live", "deleted"}
  /\ loop \in {"off", "select", "ask", "request", "read", "failed", "down", "ended"}
  /\ err \in BOOLEAN /\ done \in BOOLEAN /\ connected \in BOOLEAN
  /\ lock \in Handlers \union {"free", "loop"}
  /\ call \in [Handlers -> Call]
  /\ frame \in 0..MaxScreen /\ screen \in 1..MaxScreen
  /\ shown \in 0..MaxScreen /\ update \in 0..MaxScreen /\ asked \in BOOLEAN
  /\ close \in {"no", "join", "closed"} /\ serve \in {"off", "open", "draining"}
  /\ uaf \in BOOLEAN /\ late \in BOOLEAN

NoCall == [pc |-> "idle", op |-> "one", left |-> 0]
Busy == \E h \in Handlers : call[h].pc # "idle"

Init ==
  /\ sock = "none" /\ mem = "none" /\ handle = "live"
  /\ loop = "off" /\ err = FALSE /\ done = FALSE
  /\ lock = "free" /\ call = [h \in Handlers |-> NoCall]
  /\ frame = 0 /\ connected = TRUE
  /\ close = "no" /\ serve = "off"
  /\ screen = 1 /\ shown = 0 /\ asked = FALSE /\ update = 0
  /\ uaf = FALSE /\ late = FALSE

-----------------------------------------------------------------------------
(* StartSession: the client connects and asks for a full frame, and the    *)
(* goroutine starts; or there is no client, and the handle is given back.  *)
Connects ==
  /\ loop = "off" /\ handle = "live"
  /\ sock' = "up" /\ mem' = "live" /\ asked' = TRUE /\ loop' = "select" /\ serve' = "open"
  /\ UNCHANGED <<handle, err, done, lock, call, status, close, screen, shown, update, uaf, late>>

StartFails ==
  /\ loop = "off" /\ handle = "live" /\ handle' = "deleted"
  /\ UNCHANGED <<sock, mem, thread, lock, call, status, close, serve, remote, uaf, late>>

-----------------------------------------------------------------------------
(* run: a tick asks for a frame, under the input lock.  A request on a     *)
(* connection that is cut may fail or be swallowed.                        *)
Tick ==
  /\ loop = "select" /\ loop' = "ask"
  /\ UNCHANGED <<client, err, done, lock, call, status, close, serve, remote, uaf, late>>

RequestUnlocked ==
  /\ loop = "ask" /\ loop' = "request"
  /\ UNCHANGED <<client, err, done, lock, call, status, close, serve, remote, uaf, late>>

LockForRequest ==
  /\ loop = "ask" /\ lock = "free"
  /\ loop' = "request" /\ lock' = "loop"
  /\ UNCHANGED <<client, err, done, call, status, close, serve, remote, uaf, late>>

RequestFrame ==
  /\ loop = "request" /\ lock' = IF lock = "loop" THEN "free" ELSE lock
  /\ \/ /\ sock = "up" /\ loop' = "select" /\ asked' = TRUE
     \/ /\ sock = "cut" /\ loop' \in {"select", "failed"} /\ UNCHANGED asked
     \/ /\ sock = "shut" /\ loop' = "failed" /\ UNCHANGED asked
  /\ UNCHANGED <<client, err, done, call, status, close, serve, screen, shown, update, uaf, late>>

(* No tick is due: wait for a message, 100 ms at most, then read whether   *)
(* one came or not.                                                        *)
WaitForMessage ==
  /\ loop = "select" /\ loop' = IF sock = "shut" THEN "failed" ELSE "read"
  /\ UNCHANGED <<client, err, done, lock, call, status, close, serve, remote, uaf, late>>

(* The message is an update: updateFramebuffer keeps a new frame, and the  *)
(* library asks for the next.                                              *)
HandleUpdate(kept) ==
  /\ loop = "read" /\ sock # "shut" /\ update # 0
  /\ frame' = kept /\ update' = 0
  /\ asked' = (asked \/ sock = "up") /\ loop' = "select"
  /\ UNCHANGED <<client, err, done, lock, call, connected, close, serve, screen, shown, uaf, late>>

HandleFirstUpdate == HandleUpdate(IF frame = 0 THEN update ELSE frame)
HandleMessage == HandleUpdate(update)

ReadFails ==
  /\ loop = "read" /\ (sock = "shut" \/ (sock = "cut" /\ update = 0))
  /\ loop' = "failed"
  /\ UNCHANGED <<client, err, done, lock, call, status, close, serve, remote, uaf, late>>

(* setErr, setDisconnected, and the deferred close of the done channel. *)
SetErrAfterDone ==
  /\ \/ loop = "failed" /\ loop' = "down" /\ UNCHANGED err
     \/ loop = "ended" /\ ~err /\ err' = TRUE /\ UNCHANGED loop
  /\ UNCHANGED <<client, done, lock, call, status, close, serve, remote, uaf, late>>

SetErr ==
  /\ loop = "failed" /\ loop' = "down" /\ err' = TRUE
  /\ UNCHANGED <<client, done, lock, call, status, close, serve, remote, uaf, late>>

End ==
  /\ loop = "down" /\ loop' = "ended" /\ connected' = FALSE /\ done' = TRUE
  /\ UNCHANGED <<client, err, lock, call, frame, close, serve, remote, uaf, late>>

Loop ==
  \/ LockForRequest \/ RequestFrame \/ WaitForMessage \/ HandleMessage \/ ReadFails
  \/ SetErr \/ End

-----------------------------------------------------------------------------
(* An input call of handler h, once its arguments are valid: withInputLock, *)
(* and in it each message is sent with s.client, unchecked.  A request     *)
(* that began before the server stopped makes its calls to the end.        *)
Input(h, op) ==
  /\ \/ serve = "open" /\ call[h].pc = "idle"
     \/ call[h].pc = "between"
  /\ call' = [call EXCEPT ![h] = [pc |-> "lock", op |-> op, left |-> Sends(op)]]
  /\ UNCHANGED <<client, thread, lock, status, close, serve, remote, uaf, late>>

LockInput(h) ==
  /\ call[h].pc = "lock" /\ lock = "free" /\ lock' = h
  /\ call' = [call EXCEPT ![h].pc = "send"]
  /\ UNCHANGED <<client, thread, status, close, serve, remote, uaf, late>>

(* The message is sent and the next is due; or the call ends: it was the   *)
(* last, sending failed, or the next rune of a text is not supported.  The *)
(* request ends with it, or has another call to make.                      *)
Send(h) ==
  /\ call[h].pc = "send"
  /\ uaf' = (uaf \/ mem = "freed")
  /\ \/ /\ call[h].left > 1 /\ sock \in {"up", "cut"}
        /\ call' = [call EXCEPT ![h].left = @ - 1] /\ UNCHANGED lock
     \/ /\ \/ call[h].left = 1
           \/ sock # "up"
           \/ call[h].op = "text" /\ call[h].left % 2 = 0
        /\ \E pc \in {"idle", "between"} :
             call' = [call EXCEPT ![h] = [NoCall EXCEPT !.pc = pc]]
        /\ lock' = "free"
  /\ UNCHANGED <<client, thread, status, close, serve, remote, late>>

-----------------------------------------------------------------------------
(* The server stops, waits for its handlers or five seconds, and closes    *)
(* the session: Close shuts the socket, waits for run, and frees.          *)
ServerStops ==
  /\ serve = "open" /\ serve' = "draining"
  /\ UNCHANGED <<client, thread, lock, call, status, close, remote, uaf, late>>

CloseBegin ==
  /\ serve = "draining" /\ close = "no"
  /\ close' = "join" /\ sock' = "shut" /\ late' = Busy
  /\ UNCHANGED <<mem, handle, thread, lock, call, status, serve, remote, uaf>>

CloseWhen(ready) ==
  /\ close = "join" /\ ready
  /\ close' = "closed" /\ mem' = "freed" /\ handle' = "deleted"
  /\ UNCHANGED <<sock, thread, lock, call, status, serve, remote, uaf, late>>

CloseAtOnce == CloseWhen(TRUE)
CloseNever == CloseWhen(done /\ ~err)
CloseEnd == CloseWhen(done)

-----------------------------------------------------------------------------
(* The VNC server and the network. *)
ScreenChanges ==
  /\ loop # "off" /\ screen < MaxScreen /\ screen' = screen + 1
  /\ UNCHANGED <<client, thread, lock, call, status, close, serve, shown, asked, update, uaf, late>>

SendUpdate ==
  /\ sock = "up" /\ asked /\ screen # shown /\ update = 0
  /\ update' = screen /\ shown' = screen /\ asked' = FALSE
  /\ UNCHANGED <<client, thread, lock, call, status, close, serve, screen, uaf, late>>

LinkCut ==
  /\ sock = "up" /\ sock' = "cut"
  /\ UNCHANGED <<mem, handle, thread, lock, call, status, close, serve, remote, uaf, late>>

-----------------------------------------------------------------------------
Next ==
  /\ ~uaf   (* nothing is said of what follows *)
  /\ \/ Connects \/ StartFails \/ Tick \/ Loop
     \/ \E h \in Handlers : LockInput(h) \/ Send(h) \/ \E op \in Ops : Input(h, op)
     \/ ServerStops \/ CloseBegin \/ CloseEnd
     \/ ScreenChanges \/ SendUpdate \/ LinkCut

Spec == Init /\ [][Next]_vars

(* The goroutines run: the message loop whatever it is at (ticks do not    *)
(* keep it from reading for ever, and sync.Mutex hands the lock over to    *)
(* who waits), a handler that has the lock sends, Close goes on, and the   *)
(* VNC server sends what it owes.                                          *)
Fairness ==
  /\ WF_vars(Loop) /\ SF_vars(WaitForMessage) /\ SF_vars(LockForRequest)
  /\ \A h \in Handlers : WF_vars(Send(h))
  /\ WF_vars(CloseEnd) /\ WF_vars(SendUpdate)

FairSpec == Spec /\ Fairness

-----------------------------------------------------------------------------
(* Properties. *)

(* The client and the handle outlive the goroutine whose callbacks use     *)
(* them, for which Close waits; no handler uses a freed client unless the  *)
(* server gave up waiting for its handlers.                                *)
NoUseAfterFree ==
  /\ loop \notin {"off", "ended"} => (mem = "live" /\ handle = "live")
  /\ uaf => late

(* The messages of one call, a press and its release or the runes of a     *)
(* text, are not mixed with those of another call, nor with the requests   *)
(* of the ticker: only the library's own requests come between.            *)
Midway(h) == call[h].pc = "send" /\ call[h].left < Sends(call[h].op)
CallsDoNotMix ==
  \A h \in Handlers : Midway(h) =>
    loop # "request" /\ \A g \in Handlers \ {h} : call[g].pc # "send"

(* What is on the screen gets into the screenshots, however much input is  *)
(* sent meanwhile, while the connection lasts.                             *)
FrameFollowsScreen ==
  \A n \in 1..MaxScreen : (loop # "off" /\ screen = n) ~> (frame >= n \/ sock # "up")

(* Close returns: the shut socket gets the goroutine out of reading,       *)
(* waiting or asking, whoever has the input lock.                          *)
CloseReturns == (close = "join") ~> (close = "closed")

(* The session keeps the promises of desktop.Resource: a final error       *)
(* before Done, and Close returns after it.                                *)
Promise == INSTANCE Resource WITH ended <- done, error <- err, closed <- (close = "closed")
ImplementsResource == Promise!Spec
=============================================================================
