-------------------------- MODULE CallBackendProofs --------------------------
(***************************************************************************)
(* Proofs about CallBackend, for any callers: what a call leaves behind    *)
(* when it has come back, what the status tells of it, and what it says    *)
(* of a backend that is closed.                                            *)
(***************************************************************************)
EXTENDS CallBackend, TLAPS

(* What a call has started: one that reports, or has come back, has left   *)
(* its program only over SSH and with an error; a program that is known to *)
(* have exited with success has acted.                                     *)
Job(x) ==
  /\ kind \in Natives => x.job = "none"
  /\ x.pc # "work" => x.job \in {"none", "running"} /\ x.code = "none"
  /\ x.pc # "work" /\ x.job = "running" => kind = "ssh" /\ x.res = "fail"
  /\ x.pc = "decode" => kind \in Programs /\ x.res = "ok"
  /\ x.pc = "second" => kind = "windows" /\ x.op = "point"
  /\ x.pc = "write" => kind = "macos"
  /\ x.job = "none" => x.code = "none"
  /\ x.code = "ok" => x.acted
  /\ x.pc = "report" /\ kind \notin Natives /\ x.res = "ok" => x.acted

(* A call that has cleared the error and is not back yet. *)
Clearing(x) ==
  x.pc \in {"decode", "second"} \/ (kind = "windows" /\ x.op = "point" /\ x.pc = "report")

Succeeded ==
  outcomes # {} /\ err # Sides => "ok" \in outcomes \/ \E c \in Callers : Clearing(call[c])
Failed ==
  outcomes # {} /\ "input" \in err =>
    \/ "fail" \in outcomes
    \/ kind = "macos" /\ ~({"display", "input"} \subseteq granted)
Cleared == outcomes = {} /\ steady => \A c \in Callers : At(c, "decode") => err = {}

(* What a call of macOS goes by, while the grants stay as they are. *)
Fresh(x) ==
  /\ x.pc = "write" => x.sees \in Look
  /\ x.pc = "report" /\ x.op = "point" /\ x.res = "ok" => "display" \in granted
Looked == kind = "macos" /\ steady => \A c \in Callers : Fresh(call[c])

MacosTells(rdy, er) ==
  /\ "input" \in rdy <=> "input" \in granted
  /\ "screen" \notin granted => "output" \in er
  /\ er = {} => granted = Grants

Told ==
  /\ kind # "macos" => err \in {{}, Sides}
  /\ outcomes # {} => steady
  /\ Succeeded /\ Failed /\ Cleared /\ Looked
  /\ kind = "macos" /\ outcomes # {} => MacosTells(ready, err)

(* Who is at work on a backend that was closed has outlived it. *)
Outliving ==
  kind \in Natives /\ closing # "no" => outlived \/ \A c \in Callers : At(c, "idle")

IInv ==
  /\ TypeOK /\ (\A c \in Callers : Job(call[c]))
  /\ Told /\ Outliving /\ ClosedIsDown

-----------------------------------------------------------------------------
(* One caller's record is replaced. *)
LEMMA Replaced ==
  ASSUME TypeOK, NEW c \in Callers, NEW x \in CallT, call' = [call EXCEPT ![c] = x]
  PROVE  /\ call' \in [Callers -> CallT] /\ call'[c] = x
         /\ \A d \in Callers \ {c} : call'[d] = call[d]
BY DEF TypeOK

LEMMA NoCallType ==
  /\ NoCall \in CallT
  /\ \A op \in Ops : [NoCall EXCEPT !.op = op, !.pc = "work"] \in CallT
BY DEF NoCall, CallT, Ops

LEMMA SettledType ==
  ASSUME NEW x \in CallT
  PROVE  /\ Settled(x) \in CallT /\ Settled(x).pc = x.pc /\ Settled(x).job = "none"
         /\ x.pc # "idle" => Settled(x) = [x EXCEPT !.job = "none"]
<1> DEFINE y == [x EXCEPT !.job = "none"]
<1>1. y \in CallT /\ y.pc = x.pc /\ y.job = "none"
  BY DEF CallT
<1>2. NoCall \in CallT /\ NoCall.pc = "idle" /\ NoCall.job = "none"
  BY NoCallType DEF NoCall
<1>3. Settled(x) = IF x.pc = "idle" THEN NoCall ELSE y
  BY DEF Settled
<1>4. QED
  BY <1>1, <1>2, <1>3

(* The steps in which a caller's record changes, and the status does not. *)
LEMMA OwnStep ==
  ASSUME IInv, NEW c \in Callers, NEW x \in CallT, call' = [call EXCEPT ![c] = x],
         UNCHANGED <<kind, status, closing, world, seen>>,
         Job(x), At(c, "idle") => x.pc = "idle",
         Clearing(call[c]) => Clearing(x), x.pc = "decode" => At(c, "decode"),
         kind = "macos" /\ steady => Fresh(x)
  PROVE  IInv'
<1>1. /\ call' \in [Callers -> CallT] /\ call'[c] = x
      /\ \A d \in Callers \ {c} : call'[d] = call[d]
  BY Replaced DEF IInv
<1>2. UNCHANGED <<kind, connected, ready, err, closing, link, granted, outcomes, steady, outlived>>
  BY DEF status, world, seen
<1>3. TypeOK'
  BY <1>1, <1>2 DEF IInv, TypeOK
<1>4. \A d \in Callers : Job(call[d])'
  BY <1>1, <1>2 DEF IInv, Job
<1>5. Succeeded'
  <2>1. \A d \in Callers : Clearing(call[d]) => Clearing(call'[d])
    BY <1>1
  <2>2. \A d \in Callers : Clearing(call'[d]) => Clearing(call[d])'
    BY <1>2 DEF Clearing
  <2>3. QED
    BY <1>2, <2>1, <2>2 DEF IInv, Told, Succeeded
<1>6. Failed'
  BY <1>2 DEF IInv, Told, Failed
<1>7. Cleared'
  BY <1>1, <1>2 DEF IInv, Told, Cleared, At
<1>8. Looked'
  <2>1. kind = "macos" /\ steady => \A d \in Callers : Fresh(call'[d])
    BY <1>1 DEF IInv, Told, Looked
  <2>2. Look' = Look
    BY <1>2 DEF Look
  <2>3. \A d \in Callers : Fresh(call'[d]) => Fresh(call[d])'
    BY <1>2, <2>2 DEF Fresh
  <2>4. QED
    BY <1>2, <2>1, <2>3 DEF Looked
<1>9. Told'
  BY <1>2, <1>5, <1>6, <1>7, <1>8 DEF IInv, Told, MacosTells
<1>10. Outliving' /\ ClosedIsDown'
  BY <1>1, <1>2 DEF IInv, Outliving, ClosedIsDown, At
<1>11. QED
  BY <1>3, <1>4, <1>9, <1>10 DEF IInv

-----------------------------------------------------------------------------
LEMMA BeginStep ==
  ASSUME IInv, NEW c \in Callers, NEW op \in Ops, Begin(c, op)
  PROVE  IInv'
<1> DEFINE x == [NoCall EXCEPT !.op = op, !.pc = "work"]
<1>1. x \in CallT /\ call' = [call EXCEPT ![c] = x]
  BY NoCallType DEF Begin
<1>2. /\ call' \in [Callers -> CallT] /\ call'[c] = x
      /\ \A d \in Callers \ {c} : call'[d] = call[d]
  BY <1>1, Replaced DEF IInv
<1>3. /\ UNCHANGED <<kind, connected, ready, err, closing, link, granted>>
      /\ outlived' = (outlived \/ (kind \in Natives /\ closing # "no"))
      /\ (IF Others(c) THEN UNCHANGED <<outcomes, steady>> ELSE outcomes' = {} /\ steady' = TRUE)
  BY DEF Begin, status, world
<1>4. TypeOK'
  <2>1. outcomes' \in SUBSET {"ok", "fail"} /\ steady' \in BOOLEAN /\ outlived' \in BOOLEAN
    BY <1>3 DEF IInv, TypeOK
  <2>2. QED
    BY <1>2, <1>3, <2>1 DEF IInv, TypeOK
<1>5. x.pc = "work" /\ x.job = "none" /\ x.code = "none"
  BY DEF NoCall
<1>6. \A d \in Callers : Job(call[d])'
  <2>1. Job(x)'
    BY <1>5 DEF Job
  <2>2. \A d \in Callers \ {c} : Job(call[d])'
    BY <1>2, <1>3 DEF IInv, Job
  <2>3. QED
    BY <1>2, <2>1, <2>2
<1>7. Told'
  <2>1. At(c, "idle") /\ ~Clearing(call[c])
    BY DEF Begin, At, Clearing
  <2>2. Look' = Look
    BY <1>3 DEF Look
  <2>3. CASE Others(c)
    <3>1. UNCHANGED <<outcomes, steady>>
      BY <1>3, <2>3
    <3>2. Succeeded'
      <4>1. \A d \in Callers : Clearing(call[d]) => Clearing(call[d])'
        BY <1>2, <1>3, <2>1 DEF Clearing
      <4>2. QED
        BY <1>3, <3>1, <4>1 DEF IInv, Told, Succeeded
    <3>3. Failed' /\ Cleared'
      BY <1>2, <1>3, <1>5, <3>1 DEF IInv, Told, Failed, Cleared, At
    <3>4. Looked'
      BY <1>2, <1>3, <1>5, <2>2, <3>1 DEF IInv, Told, Looked, Fresh
    <3>5. QED
      BY <1>3, <3>1, <3>2, <3>3, <3>4 DEF IInv, Told, MacosTells
  <2>4. CASE ~Others(c)
    <3>1. outcomes' = {}
      BY <1>3, <2>4
    <3>2. \A d \in Callers : call'[d].pc \in {"idle", "work"}
      <4>1. \A d \in Callers \ {c} : call'[d].pc = "idle"
        BY <1>2, <2>4 DEF Others, At
      <4>2. call'[c].pc = "work"
        BY <1>2, <1>5
      <4>3. QED
        BY <4>1, <4>2
    <3>3. Cleared' /\ Looked'
      BY <3>2 DEF Cleared, Looked, Fresh, At
    <3>4. QED
      BY <1>3, <3>1, <3>3 DEF IInv, Told, Succeeded, Failed
  <2>5. QED
    BY <2>3, <2>4
<1>8. Outliving' /\ ClosedIsDown'
  BY <1>3 DEF IInv, Outliving, ClosedIsDown
<1>9. QED
  BY <1>4, <1>6, <1>7, <1>8 DEF IInv

LEMMA WorkStep ==
  ASSUME IInv, NEW c \in Callers,
         Refuse(c) \/ BadArguments(c) \/ StartJob(c) \/ JobActs(c)
  PROVE  IInv'
<1>1. call[c] \in CallT /\ Job(call[c]) /\ (kind = "macos" /\ steady => Fresh(call[c]))
  BY DEF IInv, TypeOK, Told, Looked
<1>2. CASE Refuse(c)
  <2>1. Job(NoCall) /\ NoCall.pc = "idle" /\ ~Clearing(call[c])
    BY <1>2 DEF Job, NoCall, Refuse, Clearing, At
  <2>2. Fresh(NoCall)
    BY DEF Fresh, NoCall
  <2>3. QED
    BY <1>2, <2>1, <2>2, NoCallType, OwnStep DEF Refuse
<1>3. CASE BadArguments(c)
  <2> DEFINE x == [call[c] EXCEPT !.pc = "report", !.res = "fail"]
  <2>1. x \in CallT /\ call' = [call EXCEPT ![c] = x]
    BY <1>1, <1>3 DEF BadArguments, CallT
  <2>2. Job(x) /\ ~At(c, "idle") /\ x.pc = "report" /\ ~Clearing(call[c]) /\ Fresh(x)
    BY <1>1, <1>3 DEF BadArguments, Job, At, CallT, Clearing, Fresh
  <2>3. QED
    BY <1>3, <2>1, <2>2, OwnStep DEF BadArguments
<1>4. CASE StartJob(c)
  <2> DEFINE x == [call[c] EXCEPT !.job = "running"]
  <2>1. x \in CallT /\ call' = [call EXCEPT ![c] = x]
    BY <1>1, <1>4 DEF StartJob, CallT
  <2>2. Job(x) /\ ~At(c, "idle") /\ x.pc = "work" /\ ~Clearing(call[c]) /\ Fresh(x)
    BY <1>1, <1>4 DEF StartJob, Job, At, CallT, Programs, Remote, Natives, Clearing, Fresh
  <2>3. QED
    BY <1>4, <2>1, <2>2, OwnStep DEF StartJob
<1>5. CASE JobActs(c)
  <2> DEFINE x == IF At(c, "work") THEN [call[c] EXCEPT !.acted = TRUE] ELSE Settled(call[c])
  <2>1. x \in CallT /\ call' = [call EXCEPT ![c] = x]
    <3>1. [call[c] EXCEPT !.acted = TRUE] \in CallT
      BY <1>1 DEF CallT
    <3>2. QED
      BY <1>1, <1>5, <3>1, SettledType DEF JobActs
  <2>2. x.pc = call[c].pc /\ kind \notin Natives
    BY <1>1, <1>5, SettledType DEF CallT, JobActs, Job
  <2>3. Job(x)
    <3>1. CASE At(c, "work")
      BY <1>1, <3>1, <2>2 DEF Job, CallT, At
    <3>2. CASE ~At(c, "work")
      BY <1>1, <3>2, <2>2 DEF Job, CallT, At, Settled, NoCall
    <3>3. QED
      BY <3>1, <3>2
  <2>4. (Clearing(call[c]) => Clearing(x)) /\ (kind = "macos" => Fresh(x))
    BY <2>2 DEF Clearing, Natives
  <2>5. QED
    BY <1>5, <2>1, <2>2, <2>3, <2>4, OwnStep DEF JobActs, At
<1>6. QED
  BY <1>2, <1>3, <1>4, <1>5

LEMMA JobStep ==
  ASSUME IInv, NEW c \in Callers, JobExits(c) \/ OutputCloses(c) \/ TimesOut(c) \/ JobReturns(c)
  PROVE  IInv'
<1>1. call[c] \in CallT /\ Job(call[c])
  BY DEF IInv, TypeOK
<1>2. call[c].job # "none" /\ kind \notin Natives /\ kind # "macos" /\ kind # "windows"
  BY <1>1 DEF JobExits, OutputCloses, TimesOut, JobReturns, Waited, Job, Natives, Programs
<1>3. CASE JobExits(c)
  <2>1. PICK code \in {"ok", "fail"}, held \in {"exited", "ended"} :
          /\ code = "ok" => call[c].acted
          /\ call' = [call EXCEPT ![c] =
               IF ~At(c, "work") THEN Settled(@)
               ELSE [@ EXCEPT !.job = held,
                              !.code = IF kind = "local" \/ link = "up" THEN code ELSE "none"]]
    BY <1>3 DEF JobExits
  <2> DEFINE told == IF kind = "local" \/ link = "up" THEN code ELSE "none"
             y == [call[c] EXCEPT !.job = held, !.code = told]
             x == IF ~At(c, "work") THEN Settled(call[c]) ELSE y
  <2>2. y \in CallT
    BY <1>1 DEF CallT
  <2>3. x \in CallT /\ call' = [call EXCEPT ![c] = x] /\ x.pc = call[c].pc
    BY <1>1, <2>1, <2>2, SettledType DEF CallT
  <2>4. Job(x)
    <3>1. CASE ~At(c, "work")
      BY <1>1, <1>2, <3>1 DEF Job, Settled, NoCall, CallT, At
    <3>2. CASE At(c, "work")
      <4>1. y.pc = "work" /\ y.job = held /\ y.code = told /\ y.acted = call[c].acted
        BY <1>1, <3>2 DEF CallT, At
      <4>2. y.code = "ok" => y.acted
        BY <2>1, <4>1
      <4>3. Job(y)
        BY <1>2, <4>1, <4>2 DEF Job
      <4>4. QED
        BY <3>2, <4>3
    <3>3. QED
      BY <3>1, <3>2
  <2>5. Clearing(call[c]) => Clearing(x)
    BY <1>2, <2>3 DEF Clearing
  <2>6. QED
    BY <1>2, <1>3, <2>3, <2>4, <2>5, OwnStep DEF JobExits, At
<1>4. CASE OutputCloses(c)
  <2> DEFINE told == IF kind = "ssh" /\ link # "up" THEN "none" ELSE call[c].code
             x == [call[c] EXCEPT !.job = "ended", !.code = told]
  <2>1. x \in CallT /\ call' = [call EXCEPT ![c] = x]
    BY <1>1, <1>4 DEF OutputCloses, CallT
  <2>2. call[c].pc = "work" /\ x.pc = "work"
    BY <1>1, <1>4 DEF OutputCloses, CallT, Job
  <2>3. Job(x) /\ ~Clearing(call[c])
    BY <1>1, <1>2, <2>2 DEF Job, CallT, Clearing
  <2>4. QED
    BY <1>2, <1>4, <2>1, <2>2, <2>3, OwnStep DEF OutputCloses, At
<1>5. CASE TimesOut(c)
  <2>1. PICK held \in {"exited", "ended"} :
          call' = [call EXCEPT ![c] = IF kind = "ssh" THEN [@ EXCEPT !.timeout = TRUE]
                                      ELSE [@ EXCEPT !.job = held, !.code = "fail"]]
    BY <1>5 DEF TimesOut
  <2> DEFINE x == IF kind = "ssh" THEN [call[c] EXCEPT !.timeout = TRUE]
                  ELSE [call[c] EXCEPT !.job = held, !.code = "fail"]
  <2>2. x \in CallT /\ call' = [call EXCEPT ![c] = x]
    BY <1>1, <2>1 DEF CallT
  <2>3. call[c].pc = "work" /\ x.pc = "work"
    BY <1>1, <1>5 DEF CallT, At, TimesOut
  <2>4. Job(x) /\ ~Clearing(call[c])
    BY <1>1, <1>2, <2>3 DEF Job, CallT, Clearing
  <2>5. QED
    BY <1>2, <1>5, <2>2, <2>3, <2>4, OwnStep DEF TimesOut, At
<1>6. CASE JobReturns(c)
  <2> DEFINE res == IF call[c].code = "ok" /\ ~call[c].timeout THEN "ok" ELSE "fail"
             left == Leftover(call[c])
             x == [call[c] EXCEPT !.pc = "report", !.code = "none", !.timeout = FALSE,
                                  !.job = left, !.res = res]
  <2>1. left \in {"none", "running"} /\ (left = "running" => call[c].job # "ended" /\ ~call[c].acted)
    BY DEF Leftover
  <2> HIDE DEF left
  <2>2. /\ x \in CallT /\ x.pc = "report" /\ x.job = left /\ x.code = "none" /\ x.res = res
        /\ x.acted = call[c].acted
    BY <1>1, <2>1 DEF CallT
  <2>3. call' = [call EXCEPT ![c] = x] /\ call[c].pc = "work" /\ Over(c)
    BY <1>6 DEF JobReturns, Waited, At, left
  <2>4. Job(x) /\ ~Clearing(call[c])
    <3>1. left = "running" => kind = "ssh" /\ res = "fail"
      BY <1>1, <2>1, <2>3 DEF Over, Job
    <3>2. res = "ok" => call[c].acted
      BY <1>1 DEF Job
    <3>3. QED
      BY <1>2, <2>1, <2>2, <2>3, <3>1, <3>2 DEF Job, Clearing
  <2>5. QED
    BY <1>2, <1>6, <2>2, <2>3, <2>4, OwnStep DEF JobReturns, Waited, At
<1>7. QED
  BY <1>3, <1>4, <1>5, <1>6

-----------------------------------------------------------------------------
(* A call comes back, with what it writes into the status. *)
LEMMA ReturnStep ==
  ASSUME IInv, NEW c \in Callers, NEW res \in {"ok", "fail"}, Return(c, res), ~At(c, "idle"),
         call[c].pc # "work", call[c].res = res \/ call[c].job = "none",
         UNCHANGED <<kind, closing, world>>,
         connected' \in BOOLEAN, ready' \in SUBSET Sides, err' \in SUBSET Sides,
         connected' => connected \/ kind = "macos",
         kind # "macos" => err' \in {{}, Sides},
         res = "fail" => err' = Sides,
         steady /\ res = "ok" /\ "input" \in err' =>
           \/ outcomes # {} /\ "input" \in err
           \/ kind = "macos" /\ ~({"display", "input"} \subseteq granted),
         kind = "macos" /\ steady => MacosTells(ready', err')
  PROVE  IInv'
<1> DEFINE left == [NoCall EXCEPT !.job = "running", !.res = res]
           x == IF Leftover(call[c]) = "none" THEN NoCall ELSE left
<1>1. call[c] \in CallT /\ Job(call[c])
  BY DEF IInv, TypeOK
<1>2. left \in CallT
  BY DEF CallT, NoCall, Ops
<1>3. /\ call' \in [Callers -> CallT] /\ call'[c] = x
      /\ \A d \in Callers \ {c} : call'[d] = call[d]
  BY <1>2, NoCallType, Replaced DEF IInv, Return
<1>4. /\ UNCHANGED <<kind, closing, link, granted, steady, outlived>>
      /\ outcomes' = IF steady THEN outcomes \union {res} ELSE {}
  BY DEF Return, world
<1>5. TypeOK'
  <2>1. outcomes' \in SUBSET {"ok", "fail"}
    BY <1>4 DEF IInv, TypeOK
  <2>2. QED
    BY <1>3, <1>4, <2>1 DEF IInv, TypeOK
<1>6. x.pc = "idle"
  BY DEF NoCall
<1>7. \A d \in Callers : Job(call[d])'
  <2>1. Leftover(call[c]) # "none" => Job(left)
    BY <1>1 DEF Leftover, Job, NoCall
  <2>2. Job(NoCall)
    BY DEF Job, NoCall
  <2>3. \A d \in Callers : Job(call'[d])
    BY <1>3, <2>1, <2>2 DEF IInv
  <2>4. QED
    BY <1>4, <2>3 DEF Job
<1>8. Told'
  <2>1. outcomes' # {} => steady /\ res \in outcomes' /\ outcomes \subseteq outcomes'
    BY <1>4
  <2>2. Succeeded'
    BY <2>1 DEF Succeeded
  <2>3. Failed'
    BY <1>4, <2>1 DEF IInv, Told, Failed
  <2>4. Cleared'
    BY <1>4 DEF Cleared
  <2>5. Looked'
    <3>1. Look' = Look
      BY <1>4 DEF Look
    <3>2. QED
      BY <1>3, <1>4, <1>6, <3>1 DEF IInv, Told, Looked, Fresh
  <2>6. kind = "macos" /\ steady => MacosTells(ready, err)'
    BY <1>4 DEF MacosTells
  <2>7. QED
    BY <1>4, <2>1, <2>2, <2>3, <2>4, <2>5, <2>6 DEF Told
<1>9. Outliving' /\ ClosedIsDown'
  <2>1. kind \in Natives /\ closing # "no" => outlived
    BY DEF IInv, Outliving
  <2>2. QED
    BY <1>4, <2>1 DEF IInv, Outliving, ClosedIsDown, Natives
<1>10. QED
  BY <1>5, <1>7, <1>8, <1>9 DEF IInv

LEMMA CommandStep ==
  ASSUME IInv, NEW c \in Callers, ReportCommand(c)
  PROVE  IInv'
<1>1. /\ call[c] \in CallT /\ Job(call[c]) /\ ~At(c, "idle") /\ call[c].pc = "report"
      /\ kind \in Programs
  BY DEF IInv, TypeOK, At, ReportCommand
<1>2. connected \in BOOLEAN /\ ready \in SUBSET Sides /\ kind # "macos" /\ kind # "windows"
  BY <1>1 DEF IInv, TypeOK, Programs
<1>3. CASE call[c].res = "fail"
  <2>1. Return(c, "fail") /\ err' = Sides /\ UNCHANGED <<connected, ready, kind, closing, world>>
    BY <1>3 DEF ReportCommand, SetErr
  <2>2. QED
    BY <1>1, <1>2, <1>3, <2>1, ReturnStep
<1>4. CASE call[c].res # "fail" /\ call[c].op = "key"
  <2>1. call[c].res = "ok"
    BY <1>1, <1>4 DEF CallT
  <2>2. Return(c, "ok") /\ err' = {} /\ UNCHANGED <<connected, ready, kind, closing, world>>
    BY <1>4 DEF ReportCommand, ClearErr
  <2>3. QED
    BY <1>1, <1>2, <2>1, <2>2, ReturnStep
<1>5. CASE call[c].res # "fail" /\ call[c].op # "key"
  <2> DEFINE x == [call[c] EXCEPT !.pc = "decode"]
  <2>1. x \in CallT /\ call' = [call EXCEPT ![c] = x]
    BY <1>1, <1>5 DEF ReportCommand, CallT
  <2>2. /\ call' \in [Callers -> CallT] /\ call'[c] = x
        /\ \A d \in Callers \ {c} : call'[d] = call[d]
    BY <2>1, Replaced DEF IInv
  <2>3. /\ UNCHANGED <<kind, connected, ready, closing, link, granted, outcomes, steady, outlived>>
        /\ err' = {}
    BY <1>5 DEF ReportCommand, ClearErr, world, seen
  <2>4. TypeOK'
    BY <2>2, <2>3 DEF IInv, TypeOK
  <2>5. Job(x) /\ x.pc = "decode"
    BY <1>1, <1>5 DEF Job, CallT
  <2>6. \A d \in Callers : Job(call[d])'
    <3>1. \A d \in Callers : Job(call'[d])
      BY <2>2, <2>5 DEF IInv
    <3>2. QED
      BY <2>3, <3>1 DEF Job
  <2>7. Told'
    <3>1. Clearing(call[c])'
      BY <2>2, <2>5 DEF Clearing
    <3>2. Succeeded' /\ Failed' /\ Cleared'
      BY <2>3, <3>1 DEF Succeeded, Failed, Cleared
    <3>3. QED
      BY <1>2, <2>3, <3>2 DEF IInv, Told, Looked
  <2>8. Outliving' /\ ClosedIsDown'
    BY <1>2, <2>3 DEF IInv, Outliving, ClosedIsDown, Natives
  <2>9. QED
    BY <2>4, <2>6, <2>7, <2>8 DEF IInv
<1>6. QED
  BY <1>3, <1>4, <1>5

LEMMA CaptureStep ==
  ASSUME IInv, NEW c \in Callers, ReportCapture(c) \/ ReportWindows(c)
  PROVE  IInv'
<1>1. /\ call[c] \in CallT /\ Job(call[c]) /\ ~At(c, "idle") /\ call[c].pc = "report"
      /\ kind \in {"kwin", "windows"}
  BY DEF IInv, TypeOK, At, ReportCapture, ReportWindows
<1>2. connected \in BOOLEAN /\ ready \in SUBSET Sides
  BY DEF IInv, TypeOK
<1>3. call[c].res \in {"ok", "fail"}
  BY <1>1 DEF CallT
<1>4. /\ Return(c, call[c].res) /\ UNCHANGED <<kind, closing, world, connected>>
      /\ err' = (IF call[c].res = "fail" THEN Sides ELSE {}) /\ ready' \in {ready, Sides}
  BY <1>3 DEF ReportCapture, ReportWindows, SetErr, SetReady, ClearErr
<1>5. /\ err' \in {{}, Sides} /\ err' \in SUBSET Sides /\ ready' \in SUBSET Sides
      /\ call[c].res = "fail" => err' = Sides
      /\ call[c].res = "ok" => err' = {}
  BY <1>2, <1>4
<1>6. QED
  BY <1>1, <1>2, <1>3, <1>4, <1>5, ReturnStep

LEMMA DecodeStep ==
  ASSUME IInv, NEW c \in Callers, Decode(c)
  PROVE  IInv'
<1>1. /\ call[c] \in CallT /\ Job(call[c]) /\ ~At(c, "idle") /\ call[c].pc = "decode"
      /\ outcomes = {} /\ steady => err = {}
  BY DEF IInv, TypeOK, Told, Cleared, At, Decode
<1>2. /\ connected \in BOOLEAN /\ ready \in SUBSET Sides /\ kind \in Programs /\ kind # "macos"
      /\ err \in {{}, Sides}
  BY <1>1 DEF IInv, TypeOK, Told, Job, Programs
<1>3. UNCHANGED <<kind, closing, world>> /\ call[c].job = "none"
  BY <1>1 DEF Decode, Job
<1>4. CASE Return(c, "fail") /\ SetErr
  <2>1. err' = Sides /\ UNCHANGED <<connected, ready>>
    BY <1>4 DEF SetErr
  <2>2. QED
    BY <1>1, <1>2, <1>3, <1>4, <2>1, ReturnStep
<1>5. CASE Return(c, "ok") /\ (SetReady \/ UNCHANGED status)
  <2>1. /\ UNCHANGED connected /\ ready' \in SUBSET Sides /\ err' \in {{}, err}
    BY <1>2, <1>5 DEF SetReady, status
  <2>2. steady /\ "input" \in err' => outcomes # {} /\ "input" \in err
    BY <1>1, <2>1
  <2>3. err' \in {{}, Sides} /\ err' \in SUBSET Sides
    BY <1>2, <2>1
  <2>4. QED
    BY <1>1, <1>2, <1>3, <1>5, <2>1, <2>2, <2>3, ReturnStep
<1>6. QED
  BY <1>4, <1>5 DEF Decode

-----------------------------------------------------------------------------
(* Windows and macOS. *)
LEMMA LocalCallStep ==
  ASSUME IInv, NEW c \in Callers, CallWindows(c) \/ CallMacos(c) \/ RefreshLooks(c)
  PROVE  IInv'
<1>1. call[c] \in CallT /\ Job(call[c]) /\ ~At(c, "idle") /\ kind \in Natives
  BY DEF IInv, TypeOK, At, CallWindows, CallMacos, RefreshLooks, Natives
<1>2. UNCHANGED <<kind, status, closing, world, seen>>
  BY DEF CallWindows, CallMacos, RefreshLooks
<1>3. CASE CallWindows(c) \/ CallMacos(c)
  <2>1. PICK res \in {"ok", "fail"} :
          /\ call' = [call EXCEPT ![c].pc = "report", ![c].res = res]
          /\ kind = "macos" /\ res = "ok" =>
               (IF call[c].op = "key" THEN "input" ELSE "display") \in granted
    BY <1>3 DEF CallWindows, CallMacos
  <2> DEFINE x == [call[c] EXCEPT !.pc = "report", !.res = res]
  <2>2. x \in CallT /\ call' = [call EXCEPT ![c] = x] /\ x.op = call[c].op /\ x.res = res
    BY <1>1, <2>1 DEF CallT
  <2>3. Job(x) /\ x.pc = "report"
    BY <1>1 DEF Job, CallT
  <2>4. Clearing(call[c]) => Clearing(x)
    BY <1>1, <2>2, <2>3 DEF Clearing, Job, Natives, Programs
  <2>5. kind = "macos" => Fresh(x)
    BY <2>1, <2>2, <2>3 DEF Fresh
  <2>6. QED
    BY <1>1, <1>2, <2>2, <2>3, <2>4, <2>5, OwnStep
<1>4. CASE RefreshLooks(c)
  <2>1. PICK sees \in Look : call' = [call EXCEPT ![c] =
                                        [NoCall EXCEPT !.pc = "write", !.res = call[c].res, !.sees = sees]]
    BY <1>4 DEF RefreshLooks
  <2> DEFINE x == [NoCall EXCEPT !.pc = "write", !.res = call[c].res, !.sees = sees]
  <2>2. sees \in SUBSET (Grants \union {"probe"})
    BY DEF Look
  <2>3. x \in CallT /\ x.pc = "write" /\ x.sees = sees
    BY <1>1, <2>2 DEF NoCall, CallT, Ops
  <2>4. Job(x) /\ Fresh(x)
    BY <1>4, <2>3 DEF Job, NoCall, Fresh, RefreshLooks, Natives
  <2>5. ~Clearing(call[c])
    BY <1>4 DEF Clearing, RefreshLooks, At
  <2>6. QED
    BY <1>1, <1>2, <2>1, <2>3, <2>4, <2>5, OwnStep
<1>5. QED
  BY <1>3, <1>4

(* What a look at what is granted makes of the status. *)
LEMMA Shown ==
  ASSUME NEW sees, NEW res \in {"ok", "fail"}
  PROVE  /\ ReadyBy(sees) \in SUBSET Sides /\ ErrBy(sees, res) \in SUBSET Sides
         /\ res = "fail" => ErrBy(sees, res) = Sides
         /\ res = "ok" /\ sees \intersect Grants = granted /\ "input" \in ErrBy(sees, res) =>
              ~({"display", "input"} \subseteq granted)
         /\ sees \intersect Grants = granted => MacosTells(ReadyBy(sees), ErrBy(sees, res))
<1>1. ReadyBy(sees) \in SUBSET Sides /\ ErrBy(sees, res) \in SUBSET Sides
  BY DEF ReadyBy, ErrBy
<1>2. res = "fail" => ErrBy(sees, res) = Sides
  BY DEF ErrBy
<1>3. "input" \in ReadyBy(sees) <=> "input" \in sees
  BY DEF ReadyBy, Sides
<1>4. "output" \in ReadyBy(sees) <=> {"display", "probe"} \subseteq sees
  BY DEF ReadyBy, Sides
<1>5. "input" \in ErrBy(sees, res) <=> res = "fail" \/ "display" \notin sees \/ "input" \notin sees
  BY <1>3 DEF ErrBy, Sides
<1>6. "output" \in ErrBy(sees, res) <=>
        res = "fail" \/ "display" \notin sees \/ "probe" \notin sees \/ "screen" \notin sees
  BY <1>4 DEF ErrBy, Sides
<1>7. ASSUME sees \intersect Grants = granted
      PROVE  MacosTells(ReadyBy(sees), ErrBy(sees, res))
  <2>1. \A g \in Grants : g \in sees <=> g \in granted
    BY <1>7
  <2>2. ErrBy(sees, res) = {} => Grants \subseteq sees
    BY <1>5, <1>6 DEF Grants
  <2>3. QED
    BY <1>3, <1>6, <1>7, <2>1, <2>2 DEF MacosTells, Grants
<1>8. QED
  BY <1>1, <1>2, <1>5, <1>7 DEF Grants

LEMMA RefreshStep ==
  ASSUME IInv, NEW c \in Callers, SetReadyMacos(c) \/ RefreshWrites(c)
  PROVE  IInv'
<1>1. /\ call[c] \in CallT /\ Job(call[c]) /\ ~At(c, "idle") /\ call[c].pc # "work"
      /\ kind = "macos" /\ (steady => Fresh(call[c])) /\ granted \in SUBSET Grants
  BY DEF IInv, TypeOK, Told, Looked, At, SetReadyMacos, RefreshWrites
<1>2. \E sees : Refreshed(c, sees) /\ (steady => sees \intersect Grants = granted)
  <2>1. CASE RefreshWrites(c)
    BY <1>1, <2>1 DEF RefreshWrites, Fresh, Look, At
  <2>2. CASE SetReadyMacos(c)
    <3> DEFINE sees == granted \union IF "screen" \in granted THEN {"display", "probe"} ELSE {"display"}
    <3>1. Refreshed(c, sees)
      BY <2>2 DEF SetReadyMacos
    <3>2. steady => "display" \in granted
      BY <1>1, <2>2 DEF SetReadyMacos, Pointed, Fresh, At
    <3>3. steady => sees \intersect Grants = granted
      BY <1>1, <3>2 DEF Grants
    <3>4. QED
      BY <3>1, <3>3
  <2>3. QED
    BY <2>1, <2>2
<1>3. PICK sees : Refreshed(c, sees) /\ (steady => sees \intersect Grants = granted)
  BY <1>2
<1>4. call[c].res \in {"ok", "fail"}
  BY <1>1 DEF CallT
<1>5. /\ connected' = TRUE /\ ready' = ReadyBy(sees) /\ err' = ErrBy(sees, call[c].res)
      /\ Return(c, call[c].res) /\ UNCHANGED <<kind, closing, world>>
  BY <1>3 DEF Refreshed
<1>6. /\ ready' \in SUBSET Sides /\ err' \in SUBSET Sides
      /\ call[c].res = "fail" => err' = Sides
      /\ steady /\ call[c].res = "ok" /\ "input" \in err' => ~({"display", "input"} \subseteq granted)
      /\ steady => MacosTells(ready', err')
  BY <1>3, <1>4, <1>5, Shown
<1>7. QED
  BY <1>1, <1>4, <1>5, <1>6, ReturnStep

LEMMA PointerStep ==
  ASSUME IInv, NEW c \in Callers, MovePointer(c)
  PROVE  IInv'
<1> DEFINE x == [call[c] EXCEPT !.pc = "second"]
<1>1. call[c] \in CallT /\ Job(call[c]) /\ call[c].pc = "work" /\ kind = "windows"
  BY DEF IInv, TypeOK, At, MovePointer
<1>2. x \in CallT /\ call' = [call EXCEPT ![c] = x] /\ x.pc = "second"
  BY <1>1 DEF MovePointer, CallT
<1>3. /\ call' \in [Callers -> CallT] /\ call'[c] = x
      /\ \A d \in Callers \ {c} : call'[d] = call[d]
  BY <1>2, Replaced DEF IInv
<1>4. /\ UNCHANGED <<kind, connected, closing, link, granted, outcomes, steady, outlived>>
      /\ ready' = Sides /\ err' = {}
  BY DEF MovePointer, SetReady, world, seen
<1>5. TypeOK'
  BY <1>3, <1>4 DEF IInv, TypeOK
<1>6. \A d \in Callers : Job(call[d])'
  <2>1. Job(x)
    BY <1>1 DEF Job, CallT, MovePointer, Natives
  <2>2. \A d \in Callers : Job(call'[d])
    BY <1>3, <2>1 DEF IInv
  <2>3. QED
    BY <1>4, <2>2 DEF Job
<1>7. Told'
  <2>1. Clearing(call[c])'
    BY <1>2, <1>3 DEF Clearing
  <2>2. Succeeded' /\ Failed' /\ Cleared'
    BY <1>4, <2>1 DEF Succeeded, Failed, Cleared
  <2>3. QED
    BY <1>1, <1>4, <2>2 DEF IInv, Told, Looked
<1>8. Outliving' /\ ClosedIsDown'
  <2>1. closing # "no" => outlived
    BY <1>1 DEF IInv, Outliving, At, Natives
  <2>2. QED
    BY <1>4, <2>1 DEF IInv, Outliving, ClosedIsDown
<1>9. QED
  BY <1>5, <1>6, <1>7, <1>8 DEF IInv

-----------------------------------------------------------------------------
(* Close, and what happens outside. *)
LEMMA CloseStep ==
  ASSUME IInv, CloseBegin \/ CloseEnd \/ LinkLost
  PROVE  IInv'
<1>1. CASE CloseBegin
  <2>1. TypeOK'
    BY <1>1 DEF IInv, TypeOK, CloseBegin, world
  <2>2. \A c \in Callers : Job(call[c])'
    BY <1>1 DEF IInv, Job, CloseBegin
  <2>3. Told'
    BY <1>1 DEF IInv, Told, Succeeded, Failed, Cleared, Looked, CloseBegin
  <2>4. Outliving' /\ ClosedIsDown'
    BY <1>1 DEF CloseBegin, Outliving, ClosedIsDown, At
  <2>5. QED
    BY <2>1, <2>2, <2>3, <2>4 DEF IInv
<1>2. CASE CloseEnd \/ LinkLost
  <2>1. /\ UNCHANGED <<kind, connected, ready, err, granted, call, outcomes, steady, outlived>>
        /\ closing' # "no" <=> closing # "no"
    BY <1>2 DEF CloseEnd, LinkLost, status, seen
  <2>2. TypeOK'
    BY <1>2, <2>1 DEF IInv, TypeOK, CloseEnd, LinkLost
  <2>3. \A c \in Callers : Job(call[c])'
    BY <2>1 DEF IInv, Job
  <2>4. Told'
    BY <2>1 DEF IInv, Told, Succeeded, Failed, Cleared, Looked, Fresh, Look, MacosTells, Clearing, At
  <2>5. Outliving' /\ ClosedIsDown'
    BY <2>1 DEF IInv, Outliving, ClosedIsDown, At
  <2>6. QED
    BY <2>2, <2>3, <2>4, <2>5 DEF IInv
<1>3. QED
  BY <1>1, <1>2

LEMMA GrantsStep ==
  ASSUME IInv, GrantsChange
  PROVE  IInv'
<1>1. /\ UNCHANGED <<kind, connected, ready, err, closing, link, call, outlived>>
      /\ granted' \in SUBSET Grants /\ steady' = FALSE /\ outcomes' = {}
  BY DEF GrantsChange, status, IInv, TypeOK
<1>2. TypeOK'
  BY <1>1 DEF IInv, TypeOK
<1>3. \A c \in Callers : Job(call[c])'
  BY <1>1 DEF IInv, Job
<1>4. Told'
  BY <1>1 DEF IInv, Told, Succeeded, Failed, Cleared, Looked
<1>5. Outliving' /\ ClosedIsDown'
  BY <1>1 DEF IInv, Outliving, ClosedIsDown, At
<1>6. QED
  BY <1>2, <1>3, <1>4, <1>5 DEF IInv

-----------------------------------------------------------------------------
(* The initial states satisfy the inductive invariant. *)
THEOREM InitIInv == Init => IInv
<1> SUFFICES ASSUME Init PROVE IInv
  OBVIOUS
<1>1. /\ kind \in Kinds /\ ready \in SUBSET Sides /\ err \in SUBSET Sides
      /\ granted \in SUBSET Grants /\ (kind # "macos" => err = {})
  <2>1. CASE kind = "macos"
    <3>1. PICK sees \in Look : ready = ReadyBy(sees) /\ err = ErrBy(sees, "ok")
      BY <2>1 DEF Init
    <3>2. QED
      BY <2>1, <3>1, Shown DEF Init
  <2>2. CASE kind # "macos"
    BY <2>2 DEF Init
  <2>3. QED
    BY <2>1, <2>2
<1>2. TypeOK
  BY <1>1, NoCallType DEF Init, TypeOK
<1>3. \A c \in Callers : Job(call[c])
  BY DEF Init, Job, NoCall
<1>4. Told /\ Outliving /\ ClosedIsDown
  BY <1>1 DEF Init, Told, Succeeded, Failed, Cleared, Looked, Outliving, ClosedIsDown, At, NoCall
<1>5. QED
  BY <1>2, <1>3, <1>4 DEF IInv

(* Every step keeps the inductive invariant. *)
THEOREM NextIInv == IInv /\ [Next]_vars => IInv'
<1> SUFFICES ASSUME IInv, [Next]_vars PROVE IInv'
  OBVIOUS
<1>1. CASE \E c \in Callers : \E op \in Ops : Begin(c, op)
  BY <1>1, BeginStep
<1>2. CASE \E c \in Callers : Refuse(c) \/ BadArguments(c) \/ StartJob(c) \/ TimesOut(c) \/ Outside(c)
  BY <1>2, WorkStep, JobStep DEF Outside
<1>3. CASE \E c \in Callers : Steps(c)
  BY <1>3, JobStep, CommandStep, CaptureStep, DecodeStep, LocalCallStep, RefreshStep, PointerStep DEF Steps
<1>4. CASE CloseBegin \/ CloseEnd \/ LinkLost \/ GrantsChange
  BY <1>4, CloseStep, GrantsStep
<1>5. CASE UNCHANGED vars
  <2>1. UNCHANGED <<kind, connected, ready, err, closing, link, granted, call, outcomes, steady, outlived>>
    BY <1>5 DEF vars, status, world, seen
  <2>2. TypeOK' /\ \A c \in Callers : Job(call[c])'
    BY <2>1 DEF IInv, TypeOK, Job
  <2>3. Told'
    BY <2>1 DEF IInv, Told, Succeeded, Failed, Cleared, Looked, Fresh, Look, MacosTells, Clearing, At
  <2>4. Outliving' /\ ClosedIsDown'
    BY <2>1 DEF IInv, Outliving, ClosedIsDown, At
  <2>5. QED
    BY <2>2, <2>3, <2>4 DEF IInv
<1>6. QED
  BY <1>1, <1>2, <1>3, <1>4, <1>5 DEF Next

(* The inductive invariant holds. *)
THEOREM Invariance == Spec => []IInv
<1>1. QED
  BY InitIInv, NextIInv, PTL DEF Spec

(* The variables of the backends keep their types. *)
THEOREM TypeCorrect == Spec => []TypeOK
<1>1. IInv => TypeOK
  BY DEF IInv
<1>2. QED
  BY <1>1, Invariance, PTL

(* For any number of callers: what a call started does not act any more    *)
(* when the call has come back, but for SSH after an error; and a call     *)
(* that succeeded has acted.                                               *)
THEOREM LeavesNothing == Spec => []NothingComesLate
<1>1. IInv => NothingComesLate
  <2> SUFFICES ASSUME IInv, NEW c \in Callers
               PROVE  /\ (At(c, "idle") /\ call[c].job # "none") => (kind = "ssh" /\ call[c].res = "fail")
                      /\ (At(c, "report") /\ kind \notin Natives /\ call[c].res = "ok")
                           => call[c].acted
    BY DEF NothingComesLate
  <2>1. Job(call[c])
    BY DEF IInv
  <2>2. QED
    BY <2>1 DEF Job, At
<1>2. QED
  BY <1>1, Invariance, PTL

(* However many callers there are and however their calls overlapped: when *)
(* the last is back, the status tells the outcome of one of them, and on   *)
(* macOS the permissions there are.                                        *)
THEOREM StatusTells == Spec => []StatusTellsOutcome
<1>1. IInv => StatusTellsOutcome
  <2> SUFFICES ASSUME IInv, outcomes # {}, \A c \in Callers : At(c, "idle")
               PROVE  /\ err # Sides => "ok" \in outcomes
                      /\ "input" \in err => \/ "fail" \in outcomes
                                            \/ kind = "macos" /\ ~({"display", "input"} \subseteq granted)
                      /\ kind = "macos" => MacosTells(ready, err)
    BY DEF StatusTellsOutcome, MacosTells
  <2>1. \A c \in Callers : ~Clearing(call[c])
    BY DEF Clearing, At
  <2>2. QED
    BY <2>1 DEF IInv, Told, Succeeded, Failed
<1>2. QED
  BY <1>1, Invariance, PTL

(* However many calls are at work when the backend is closed: only one     *)
(* that outlives Close makes the status look alive again.                  *)
THEOREM StaysDown == Spec => []ClosedIsDown
<1>1. IInv => ClosedIsDown
  BY DEF IInv
<1>2. QED
  BY <1>1, Invariance, PTL
=============================================================================
