------------------------------ MODULE CallBackend ------------------------------
(***************************************************************************)
(* The backends that have no goroutine of their own: each call reaches the *)
(* desktop, and what became of it is written into the status.  They are    *)
(* the command backend, which runs a program here or over SSH              *)
(* (internal/commandbackend), the Windows and the macOS backend            *)
(* (internal/winlocal, internal/macoslocal), and KWin's screenshots        *)
(* (internal/kwin).                                                        *)
(*                                                                         *)
(* A call is told by its kind: a screenshot or a crop, an event at a       *)
(* point, another event.  Of the status there are Connected, and of each   *)
(* side of it, output and input, Ready and whether it shows an error; only *)
(* macOS keeps the sides apart.  Programs, sshd, KWin and macOS are        *)
(* external: a program acts (injects its event) before it exits with       *)
(* success, it may leave children that hold its output; KWin answers and   *)
(* closes the pipe.                                                        *)
(***************************************************************************)
EXTENDS Integers

CONSTANT Callers   (* goroutines of requests *)

Kinds == {"local", "ssh", "windows", "macos", "kwin"}
Programs == {"local", "ssh"}

Natives == {"windows", "macos"}

(* What a backend tells apart: commands and KWin not a point.  A crop is a *)
(* "shot" that may be refused and does not set Ready.                      *)
Ops == {"shot", "point", "key"}
OpsOf(k) == CASE k = "kwin" -> {"shot"} [] k \in Programs -> {"shot", "key"} [] OTHER -> Ops
Remote == {"ssh", "kwin"}

Sides == {"output", "input"}

(* What macOS has or its owner grants: a main display, Screen Recording,   *)
(* and Input Monitoring with Accessibility, which the code asks together.  *)
Grants == {"display", "screen", "input"}

VARIABLES
  kind,
  connected, ready, err,   (* the status: which sides are ready, which show  *)
                           (* an error                                       *)
  closing,                 (* Close: "no", "begun", "done"                    *)
  link,                    (* the SSH or D-Bus connection; "dead": nothing    *)
                           (* comes any more, and nobody is told              *)
  granted,                 (* macOS: what there is of Grants                  *)
  call                     (* what each caller is at, and what it started     *)

(* Observation only: what the calls came to since nobody was at work, if   *)
(* neither a Close nor a change of the grants fell into that time; and     *)
(* whether a call of Natives was made or at work when it was closed.       *)
VARIABLES outcomes, steady, outlived

status == <<connected, ready, err>>
world  == <<link, granted>>
seen   == <<outcomes, steady, outlived>>
vars   == <<kind, status, closing, world, call, seen>>

CallT == [pc : {"idle", "work", "second", "decode", "report", "write"}, op : Ops,
          res : {"ok", "fail"}, sees : SUBSET (Grants \union {"probe"}),
          job : {"none", "running", "exited", "ended"}, code : {"none", "ok", "fail"},
          timeout : BOOLEAN, acted : BOOLEAN]

TypeOK ==
  /\ kind \in Kinds /\ connected \in BOOLEAN /\ ready \in SUBSET Sides /\ err \in SUBSET Sides
  /\ closing \in {"no", "begun", "done"}
  /\ link \in {"up", "dead", "down"} /\ granted \in SUBSET Grants
  /\ call \in [Callers -> CallT]
  /\ outcomes \in SUBSET {"ok", "fail"} /\ steady \in BOOLEAN /\ outlived \in BOOLEAN

NoCall == [pc |-> "idle", op |-> "key", res |-> "ok", sees |-> {}, job |-> "none",
           code |-> "none", timeout |-> FALSE, acted |-> FALSE]

(* macOS: what one finds who looks now.  A capture is probed, and what it  *)
(* gives without the permission is macOS's affair.                         *)
Look == {s \in SUBSET (Grants \union {"probe"}) :
           s \intersect Grants = granted /\ ("probe" \in s => "display" \in s)}

(* The status that baseStatus, outputStatusError and inputStatusError make *)
(* of it, for a call that came to res.  What the call returned (runErr)    *)
(* shows on a side that has no error of its own.                           *)
ReadyBy(sees) == {s \in Sides : IF s = "output" THEN {"display", "probe"} \subseteq sees
                                                ELSE "input" \in sees}
ErrBy(sees, res) ==
  IF res = "fail" \/ "display" \notin sees THEN Sides
  ELSE {s \in Sides : s \notin ReadyBy(sees) \/ (s = "output" /\ "screen" \notin sees)}

(* New: macOS's looks; a command backend is ready that has the commands    *)
(* for a screenshot or for all input (one that has not never gets ready).  *)
Init ==
  /\ kind \in Kinds /\ connected = TRUE
  /\ granted \in IF kind = "macos" THEN SUBSET Grants ELSE {Grants}
  /\ IF kind = "macos" THEN \E sees \in Look : ready = ReadyBy(sees) /\ err = ErrBy(sees, "ok")
     ELSE err = {} /\ ready = Sides
  /\ closing = "no" /\ link = "up"
  /\ call = [c \in Callers |-> NoCall]
  /\ outcomes = {} /\ steady = FALSE /\ outlived = FALSE

At(c, pc) == call[c].pc = pc
Others(c) == \E d \in Callers \ {c} : ~At(d, "idle")

(* What the calls do to the status. *)
SetErr == err' = Sides /\ UNCHANGED <<connected, ready>>
ClearErr == err' = {} /\ UNCHANGED <<connected, ready>>
SetReadyConnected == ready' = Sides /\ err' = {} /\ connected' = TRUE
SetReady == ready' = Sides /\ err' = {} /\ UNCHANGED connected

(* What a call started, the program or children of it, may outlast its      *)
(* wait; that matters as long as it has not acted.                         *)
Leftover(x) == IF x.job \in {"running", "exited"} /\ ~x.acted THEN "running" ELSE "none"
Settled(x) == IF x.pc = "idle" THEN NoCall ELSE [x EXCEPT !.job = "none"]

(* The caller returns with res. *)
Return(c, res) ==
  /\ call' = [call EXCEPT ![c] = IF Leftover(@) = "none" THEN NoCall
                                 ELSE [NoCall EXCEPT !.job = "running", !.res = res]]
  /\ outcomes' = IF steady THEN outcomes \union {res} ELSE {}
  /\ UNCHANGED <<steady, outlived>>

-----------------------------------------------------------------------------
(* A call begins.  A crop that is not configured or lacks a bound, and a   *)
(* scancode without a command, are refused and leave no trace.             *)
Begin(c, op) ==
  /\ At(c, "idle") /\ call[c].job = "none" /\ op \in OpsOf(kind)
  /\ call' = [call EXCEPT ![c] = [NoCall EXCEPT !.op = op, !.pc = "work"]]
  /\ IF Others(c) THEN UNCHANGED <<outcomes, steady>> ELSE outcomes' = {} /\ steady' = TRUE
  /\ outlived' = (outlived \/ (kind \in Natives /\ closing # "no"))
  /\ UNCHANGED <<kind, status, closing, world>>

Refuse(c) ==
  /\ At(c, "work") /\ call[c].job = "none" /\ kind \in Programs \union {"kwin"}
  /\ call' = [call EXCEPT ![c] = NoCall]
  /\ UNCHANGED <<kind, status, closing, world, seen>>

(* The arguments cannot be used (a template, a coordinate, a crop), or     *)
(* there is no connection to use them on.                                  *)
BadArguments(c) ==
  /\ At(c, "work") /\ call[c].job = "none"
  /\ call' = [call EXCEPT ![c].pc = "report", ![c].res = "fail"]
  /\ UNCHANGED <<kind, status, closing, world, seen>>

-----------------------------------------------------------------------------
(* Commands and KWin: something else is started and waited for.            *)
StartJob(c) ==
  /\ At(c, "work") /\ call[c].job = "none" /\ kind \in Programs \union Remote
  /\ kind \in Remote => link = "up"
  /\ call' = [call EXCEPT ![c].job = "running"]
  /\ UNCHANGED <<kind, status, closing, world, seen>>

JobActs(c) ==
  /\ call[c].job \in {"running", "exited"} /\ ~call[c].acted
  /\ call' = [call EXCEPT ![c] = IF At(c, "work") THEN [@ EXCEPT !.acted = TRUE] ELSE Settled(@)]
  /\ UNCHANGED <<kind, status, closing, world, seen>>

(* It exits, or KWin answers: whoever waits is told, if the connection     *)
(* lasts.  Its children may still hold its output open.                    *)
JobExits(c) ==
  /\ call[c].job = "running"
  /\ \E code \in {"ok", "fail"}, held \in {"exited", "ended"} :
       /\ code = "ok" => call[c].acted
       /\ call' = [call EXCEPT ![c] =
            IF ~At(c, "work") THEN Settled(@)
            ELSE [@ EXCEPT !.job = held,
                           !.code = IF kind = "local" \/ link = "up" THEN code ELSE "none"]]
  /\ UNCHANGED <<kind, status, closing, world, seen>>

OutputCloses(c) ==
  /\ call[c].job = "exited"
  /\ call' = [call EXCEPT ![c].job = "ended",
       ![c].code = IF kind = "ssh" /\ link # "up" THEN "none" ELSE @]
  /\ UNCHANGED <<kind, status, closing, world, seen>>

(* The command's time is up.  The local program is killed, not its         *)
(* children; over SSH the session is closed, and the program goes on.      *)
TimesOut(c) ==
  /\ At(c, "work") /\ kind \in Programs /\ ~call[c].timeout
  /\ call[c].job = "running" \/ (kind = "ssh" /\ call[c].job = "exited")
  /\ \E held \in {"exited", "ended"} :
       call' = [call EXCEPT ![c] = IF kind = "ssh" THEN [@ EXCEPT !.timeout = TRUE]
                                   ELSE [@ EXCEPT !.job = held, !.code = "fail"]]
  /\ UNCHANGED <<kind, status, closing, world, seen>>

(* exec.Cmd.Run, session.Run and capture return when nobody holds the      *)
(* output any more; session.Run also when sshd confirms that the session   *)
(* is closed, or the connection is known to be lost.                       *)
Over(c) ==
  IF kind = "ssh"
  THEN \/ call[c].job = "ended" /\ call[c].code # "none"
       \/ call[c].timeout /\ link = "up"
       \/ link = "down"
  ELSE call[c].job = "ended"

Waited(c, over) ==
  /\ At(c, "work") /\ call[c].job # "none" /\ over
  /\ call' = [call EXCEPT ![c] = [@ EXCEPT !.pc = "report", !.code = "none", !.timeout = FALSE,
       !.job = Leftover(call[c]),
       !.res = IF call[c].code = "ok" /\ ~call[c].timeout THEN "ok" ELSE "fail"]]
  /\ UNCHANGED <<kind, status, closing, world, seen>>

JobReturnsAtExit(c) == Waited(c, Over(c) \/ call[c].job = "exited" \/ call[c].timeout)
JobReturns(c) == Waited(c, Over(c))

(* run leaves the error or clears it, and a screenshot is still to be       *)
(* decoded; KWin's has been decoded.                                       *)
ReportCommand(c) ==
  /\ kind \in Programs /\ At(c, "report")
  /\ IF call[c].res = "fail" THEN SetErr /\ Return(c, "fail")
     ELSE /\ ClearErr
          /\ IF call[c].op = "key" THEN Return(c, "ok")
             ELSE call' = [call EXCEPT ![c].pc = "decode"] /\ UNCHANGED seen
  /\ UNCHANGED <<kind, closing, world>>

ReportCapture(c) ==
  /\ kind = "kwin" /\ At(c, "report")
  /\ IF call[c].res = "fail" THEN SetErr
     ELSE SetReady \/ ClearErr
  /\ Return(c, call[c].res)
  /\ UNCHANGED <<kind, closing, world>>

DecodeUnreported(c) ==
  /\ At(c, "decode")
  /\ \E res \in {"ok", "fail"} :
       /\ Return(c, res)
       /\ (res = "ok" /\ SetReady) \/ UNCHANGED status
  /\ UNCHANGED <<kind, closing, world>>

Decode(c) ==
  /\ At(c, "decode")
  /\ \/ Return(c, "fail") /\ SetErr
     \/ Return(c, "ok") /\ (SetReady \/ UNCHANGED status)
  /\ UNCHANGED <<kind, closing, world>>

-----------------------------------------------------------------------------
(* Windows: the pointer is set first, which makes the status ready and     *)
(* clears the error, before the event that belongs to it is sent.          *)
MovePointer(c) ==
  /\ kind = "windows" /\ At(c, "work") /\ call[c].op = "point"
  /\ call' = [call EXCEPT ![c].pc = "second"] /\ SetReady
  /\ UNCHANGED <<kind, closing, world, seen>>

CallWindows(c) ==
  /\ kind = "windows"
  /\ At(c, "second") \/ (At(c, "work") /\ call[c].op # "point")
  /\ \E res \in {"ok", "fail"} : call' = [call EXCEPT ![c].pc = "report", ![c].res = res]
  /\ UNCHANGED <<kind, status, closing, world, seen>>

ReportWindows(c) ==
  /\ kind = "windows" /\ At(c, "report")
  /\ IF call[c].res = "fail" THEN SetErr
     ELSE IF call[c].op = "shot" THEN SetReady ELSE ClearErr
  /\ Return(c, call[c].res)
  /\ UNCHANGED <<kind, closing, world>>

-----------------------------------------------------------------------------
(* macOS: the keys ask for the permission before they post an event, the   *)
(* pointer asks only where the display is; a capture needs the display.    *)
CallMacos(c) ==
  /\ kind = "macos" /\ At(c, "work")
  /\ \E res \in {"ok", "fail"} :
       /\ res = "ok" => (IF call[c].op = "key" THEN "input" ELSE "display") \in granted
       /\ call' = [call EXCEPT ![c].pc = "report", ![c].res = res]
  /\ UNCHANGED <<kind, status, closing, world, seen>>

Refreshed(c, sees) ==
  /\ connected' = TRUE /\ ready' = ReadyBy(sees) /\ err' = ErrBy(sees, call[c].res)
  /\ Return(c, call[c].res)
  /\ UNCHANGED <<kind, closing, world>>

(* After the pointer setReady writes at once: it takes the display the     *)
(* event was sent to, and the permission for a probe that it does not make.*)
Pointed(c) == call[c].op = "point" /\ call[c].res = "ok"

SetReadyMacos(c) ==
  /\ kind = "macos" /\ At(c, "report") /\ Pointed(c)
  /\ Refreshed(c, granted \union IF "screen" \in granted THEN {"display", "probe"} ELSE {"display"})

(* refreshStatus looks at the display and the permissions and probes a     *)
(* capture, and then takes the lock and writes.                            *)
RefreshLooks(c) ==
  /\ kind = "macos" /\ At(c, "report") /\ ~Pointed(c)
  /\ \E sees \in Look :
       call' = [call EXCEPT ![c] = [NoCall EXCEPT !.pc = "write", !.res = call[c].res, !.sees = sees]]
  /\ UNCHANGED <<kind, status, closing, world, seen>>

RefreshWrites(c) == kind = "macos" /\ At(c, "write") /\ Refreshed(c, call[c].sees)

-----------------------------------------------------------------------------
(* Close writes the status, and then gives up the connection it has. *)
CloseBegin ==
  /\ closing = "no" /\ closing' = (IF kind \in Remote THEN "begun" ELSE "done")
  /\ connected' = FALSE
  /\ ready' = IF kind \in Natives THEN {} ELSE ready
  /\ steady' = FALSE /\ outcomes' = {}
  /\ outlived' = (kind \in Natives /\ \E c \in Callers : ~At(c, "idle"))
  /\ UNCHANGED <<kind, err, world, call>>

CloseKeepsLink ==
  /\ closing = "begun" /\ closing' = "done"
  /\ UNCHANGED <<kind, status, world, call, seen>>

CloseEnd ==
  /\ closing = "begun" /\ closing' = "done"
  /\ link' = IF kind \in Remote THEN "down" ELSE link
  /\ UNCHANGED <<kind, status, granted, call, seen>>

-----------------------------------------------------------------------------
(* The connection is lost, and this side is told or not; a display comes   *)
(* or goes, a permission is granted or taken away.                         *)
LinkLost ==
  /\ kind \in Remote /\ link = "up"
  /\ link' \in IF kind = "ssh" THEN {"dead", "down"} ELSE {"down"}
  /\ UNCHANGED <<kind, status, closing, granted, call, seen>>

GrantsChange ==
  /\ kind = "macos" /\ steady' = FALSE /\ outcomes' = {}
  /\ \E g \in Grants : granted' = (granted \ {g}) \union ({g} \ granted)
  /\ UNCHANGED <<kind, status, closing, link, call, outlived>>

-----------------------------------------------------------------------------
Steps(c) ==
  \/ JobReturns(c) \/ ReportCommand(c) \/ ReportCapture(c) \/ Decode(c)
  \/ MovePointer(c) \/ CallWindows(c) \/ ReportWindows(c)
  \/ CallMacos(c) \/ SetReadyMacos(c) \/ RefreshLooks(c) \/ RefreshWrites(c)

Outside(c) == JobActs(c) \/ JobExits(c) \/ OutputCloses(c)

Next ==
  \/ \E c \in Callers :
       \/ \E op \in Ops : Begin(c, op)
       \/ Refuse(c) \/ BadArguments(c) \/ StartJob(c) \/ TimesOut(c) \/ Steps(c) \/ Outside(c)
  \/ CloseBegin \/ CloseEnd \/ LinkLost \/ GrantsChange

Spec == Init /\ [][Next]_vars

(* The goroutines run, timers fire, and nobody holds a pipe for ever: KWin *)
(* answers, and the children of a command end.  A program need not end,    *)
(* nor a server answer.                                                    *)
GetsOn(c) ==
  \/ BadArguments(c) \/ StartJob(c) \/ TimesOut(c) \/ Steps(c)
  \/ OutputCloses(c) \/ (kind = "kwin" /\ JobExits(c))

Fairness == (\A c \in Callers : WF_vars(GetsOn(c))) /\ WF_vars(CloseEnd)

FairSpec == Spec /\ Fairness

-----------------------------------------------------------------------------
(* Properties. *)

(* A call that came back leaves nothing behind that still acts on the      *)
(* desktop, even when it timed out, except over SSH, after an error: a     *)
(* caller that repeats a failed command over SSH may have it twice.  A     *)
(* call that succeeded has acted.                                          *)
NothingComesLate ==
  \A c \in Callers :
    /\ (At(c, "idle") /\ call[c].job # "none") =>
         (kind = "ssh" /\ call[c].res = "fail")
    /\ (At(c, "report") /\ kind \notin Natives /\ call[c].res = "ok") => call[c].acted

(* However many calls overlapped: when the last of them is back the status *)
(* tells what came of one of them, and nothing older.  A side without an   *)
(* error means that a call succeeded, an error that a call failed or, on   *)
(* macOS, that something is not granted; there the input side is ready     *)
(* just when it may post events, the output side does not hide that Screen *)
(* Recording is missing, and no error at all means that nothing is.        *)
StatusTellsOutcome ==
  (outcomes # {} /\ \A c \in Callers : At(c, "idle")) =>
    /\ err # Sides => "ok" \in outcomes
    /\ "input" \in err => \/ "fail" \in outcomes
                          \/ kind = "macos" /\ ~({"display", "input"} \subseteq granted)
    /\ kind = "macos" => /\ "input" \in ready <=> "input" \in granted
                         /\ "screen" \notin granted => "output" \in err
                         /\ err = {} => granted = Grants

(* A closed backend is not connected, and on Windows not ready, whatever   *)
(* its last calls write; only calls that outlive Close make the one ready  *)
(* and macOS's connected again.                                            *)
ClosedIsDown ==
  closing # "no" =>
    /\ connected => (kind = "macos" /\ outlived)
    /\ (ready # {} /\ kind \in Natives) => outlived

(* docs/architecture.md:92-94: without the permissions "actions return     *)
(* permission-specific errors".  The keys do; the pointer does not ask.    *)
ActionsNeedPermission ==
  [][\A c \in Callers :
       kind = "macos" /\ At(c, "work") /\ At(c, "report")' /\ call'[c].res = "ok"
       /\ call[c].op \in {"point", "key"} => "input" \in granted]_vars

(* Calls return: in time, or at the latest after Close, though the SSH     *)
(* server has gone silent.                                                 *)
CallsReturn ==
  \A c \in Callers : ~At(c, "idle") ~> (At(c, "idle") \/ (link = "dead" /\ closing = "no"))
=============================================================================
