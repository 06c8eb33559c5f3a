---------------------------- MODULE FuseWriteFile ----------------------------
(***************************************************************************)
(* The input files of the FUSE filesystem (internal/fusefs/filesystem.go). *)
(* A program opens a file, writes the command's payload in as many chunks  *)
(* as it likes and closes it; the filesystem collects the chunks in a      *)
(* writeHandle and runs the command when the handle is finished.           *)
(*                                                                         *)
(* The kernel's side is external.  One open file may have several          *)
(* descriptors (dup, fork), used by several threads at once: every close   *)
(* of one of them sends a Flush, and when the last is gone and no call is  *)
(* in progress the kernel sends one Release.  Each of these requests is    *)
(* served by a goroutine of its own; they meet at the handle's mutex,      *)
(* which finish keeps while the command runs.                              *)
(***************************************************************************)
EXTENDS Integers, Sequences

CONSTANTS
  Callers,    (* threads of the programs that use the files                *)
  Handles,    (* open files; each is opened again and again                *)
  Bytes,      (* what a payload is made of                                 *)
  Zero,       (* the byte that fills a hole                                *)
  Writes,     (* the chunks that programs write, each with its offset      *)
  MaxRefs,    (* bound: descriptors of one open file                       *)
  MaxWrites,  (* bound: writes to one open file                            *)
  NoOne, NoHandle

(* The kernel sends no write of no bytes and none below offset 0. *)
Write == [off: Nat, data: Seq(Bytes) \ {<<>>}]

(* A Release is served by a goroutine that no caller waits for: it goes by *)
(* the name of its handle.                                                 *)
Agents == Callers \union Handles

ASSUME FuseAssumption ==
  /\ Zero \in Bytes
  /\ Writes # {} /\ Writes \subseteq Write
  /\ MaxRefs \in Nat \ {0} /\ MaxWrites \in Nat
  /\ NoOne \notin Agents /\ NoHandle \notin Handles
  /\ Callers \intersect Handles = {}

VARIABLES
  file,   (* each handle's writeHandle, and the kernel's view of it        *)
  call    (* the request that is served for each agent                     *)

(* Observation only. *)
VARIABLES
  log,    (* the writes this handle answered, in the order it took them    *)
  ran,    (* the payloads it ran its command with                          *)
  failed, (* whether its command has failed                                *)
  reply   (* what each agent's last request answered                       *)

hist == <<log, ran, failed, reply>>
vars == <<file, call, hist>>

Errnos == {"ok", "EINVAL"}

File ==
  [open: BOOLEAN, refs: 0..MaxRefs,          (* the kernel's            *)
   buffer: Seq(Bytes), wrote: BOOLEAN, done: BOOLEAN, errno: Errnos,
   mu: Agents \union {NoOne}]

NewFile(open) ==
  [open |-> open, refs |-> IF open THEN 1 ELSE 0,
   buffer |-> <<>>, wrote |-> FALSE, done |-> FALSE, errno |-> "ok", mu |-> NoOne]

Call ==
  [op: {"idle", "write", "finish", "running"},
   on: Handles \union {NoHandle},
   write: Writes]

AnyWrite == CHOOSE w \in Writes : TRUE
NoCall == [op |-> "idle", on |-> NoHandle, write |-> AnyWrite]

(* Every variable keeps its type, and a mutex that is locked is held by    *)
(* the goroutine that runs the handle's command, and by no other.          *)
TypeOK ==
  /\ file \in [Handles -> File]
  /\ call \in [Agents -> Call]
  /\ log \in [Handles -> Seq(Writes)]
  /\ ran \in [Handles -> Seq(Seq(Bytes))]
  /\ failed \in [Handles -> BOOLEAN]
  /\ reply \in [Agents -> Errnos \union {"none"}]
  /\ \A h \in Handles, a \in Agents :
       file[h].mu = a <=> call[a].op = "running" /\ call[a].on = h

-----------------------------------------------------------------------------
(* Helpers. *)

Busy(h) == \E a \in Agents : call[a].on = h

Running(h) == \E a \in Agents : call[a].op = "running" /\ call[a].on = h

Ask(a, op, h, w) ==
  /\ call' = [call EXCEPT ![a] = [op |-> op, on |-> h, write |-> w]]
  /\ reply' = [reply EXCEPT ![a] = "none"]

Return(a, errno) ==
  /\ call' = [call EXCEPT ![a] = NoCall]
  /\ reply' = [reply EXCEPT ![a] = errno]

End(w) == w.off + Len(w.data)

Covers(w, i) == w.off < i /\ i <= End(w)

OverlayNoGrow(buffer, w) ==
  [i \in 1..Len(buffer) + Len(w.data) |->
     IF Covers(w, i) THEN w.data[i - w.off]
     ELSE IF i <= Len(buffer) THEN buffer[i] ELSE Zero]

(* The buffer after a chunk: it grows to the chunk's end, a hole is zeroed. *)
Overlay(buffer, w) ==
  [i \in 1..(IF End(w) > Len(buffer) THEN End(w) ELSE Len(buffer)) |->
     IF Covers(w, i) THEN w.data[i - w.off]
     ELSE IF i <= Len(buffer) THEN buffer[i] ELSE Zero]

-----------------------------------------------------------------------------
Init ==
  /\ file = [h \in Handles |-> NewFile(FALSE)]
  /\ call = [a \in Agents |-> NoCall]
  /\ log = [h \in Handles |-> <<>>]
  /\ ran = [h \in Handles |-> <<>>]
  /\ failed = [h \in Handles |-> FALSE]
  /\ reply = [a \in Agents |-> "none"]

(* writeFile.Open for writing; to read is refused and changes nothing. *)
Open(h) ==
  /\ ~file[h].open /\ ~Busy(h)
  /\ file' = [file EXCEPT ![h] = NewFile(TRUE)]
  /\ log' = [log EXCEPT ![h] = <<>>]
  /\ ran' = [ran EXCEPT ![h] = <<>>]
  /\ failed' = [failed EXCEPT ![h] = FALSE]
  /\ UNCHANGED <<call, reply>>

(* The kernel: one more descriptor of the open file. *)
Dup(h) ==
  /\ file[h].refs \in 1..MaxRefs - 1
  /\ file' = [file EXCEPT ![h].refs = @ + 1]
  /\ UNCHANGED <<call, hist>>

(* The kernel: write(2), and close(2), which takes the descriptor away at  *)
(* once.                                                                   *)
SendWrite(a, h, w) ==
  /\ call[a].op = "idle" /\ file[h].refs > 0 /\ Len(log[h]) < MaxWrites
  /\ Ask(a, "write", h, w)
  /\ UNCHANGED <<file, log, ran, failed>>

SendFlush(a, h) ==
  /\ call[a].op = "idle" /\ file[h].refs > 0
  /\ file' = [file EXCEPT ![h].refs = @ - 1]
  /\ Ask(a, "finish", h, AnyWrite)
  /\ UNCHANGED <<log, ran, failed>>

(* The kernel: the last reference is gone. *)
SendRelease(h) ==
  /\ file[h].open /\ file[h].refs = 0 /\ ~Busy(h)
  /\ file' = [file EXCEPT ![h].open = FALSE]
  /\ Ask(h, "finish", h, AnyWrite)
  /\ UNCHANGED <<log, ran, failed>>

(* writeHandle.Write, under the mutex. *)
TakeWrite(a) ==
  LET h == call[a].on
      w == call[a].write
  IN  /\ call[a].op = "write" /\ file[h].mu = NoOne
      /\ file' = [file EXCEPT ![h].wrote = TRUE, ![h].buffer = Overlay(@, w)]
      /\ log' = [log EXCEPT ![h] = Append(@, w)]
      /\ Return(a, "ok")
      /\ UNCHANGED <<ran, failed>>

FinishIf(a, skip, answered, holder) ==
  LET h == call[a].on
  IN  /\ call[a].op = "finish" /\ file[h].mu = NoOne
      /\ \/ /\ skip
            /\ Return(a, "ok")
            /\ UNCHANGED <<file, log, ran, failed>>
         \/ /\ ~skip /\ answered
            /\ Return(a, file[h].errno)
            /\ UNCHANGED <<file, log, ran, failed>>
         \/ /\ ~skip /\ ~answered
            /\ file' = [file EXCEPT ![h].done = TRUE, ![h].mu = holder]
            /\ call' = [call EXCEPT ![a].op = "running"]
            /\ ran' = [ran EXCEPT ![h] = Append(@, <<>>)]
            /\ UNCHANGED <<log, failed, reply>>

FinishAgain(a) == FinishIf(a, ~file[call[a].on].wrote, FALSE, a)

FinishUnlocks(a) == FinishIf(a, ~file[call[a].on].wrote, file[call[a].on].done, NoOne)

(* finish, up to the call of the service, which the mutex is kept for. *)
Finish(a) == FinishIf(a, ~file[call[a].on].wrote, file[call[a].on].done, a)

(* The command takes the next byte of its payload.  It is handed the       *)
(* buffer itself, not a copy, and reads it while it is being run.          *)
Read(a) ==
  LET h    == call[a].on
      last == Len(ran[h])
      n    == Len(ran[h][last])
  IN  /\ call[a].op = "running" /\ n < Len(file[h].buffer)
      /\ ran' = [ran EXCEPT ![h][last] = Append(@, file[h].buffer[n + 1])]
      /\ UNCHANGED <<file, call, log, failed, reply>>

RanWith(a, store, unlocked) ==
  LET h == call[a].on
  IN  /\ call[a].op = "running"
      /\ \E errno \in Errnos :
           /\ errno = "ok" => Len(ran[h][Len(ran[h])]) >= Len(file[h].buffer)
           /\ file' = [file EXCEPT ![h].errno = IF store THEN errno ELSE @,
                                   ![h].mu = IF unlocked THEN NoOne ELSE @]
           /\ failed' = [failed EXCEPT ![h] = errno # "ok"]
           /\ Return(a, errno)
      /\ UNCHANGED <<log, ran>>

RanForgets(a) == RanWith(a, FALSE, TRUE)

RanKeepsLock(a) == RanWith(a, TRUE, FALSE)

(* The command was run, or its payload was refused, which may happen       *)
(* before all of it was read: finish keeps the error and returns.          *)
Ran(a) == RanWith(a, TRUE, TRUE)

Serve(a) == TakeWrite(a) \/ Finish(a) \/ Read(a) \/ Ran(a)

Next ==
  \/ \E h \in Handles : Open(h) \/ Dup(h) \/ SendRelease(h)
  \/ \E a \in Callers, h \in Handles :
       SendFlush(a, h) \/ \E w \in Writes : SendWrite(a, h, w)
  \/ \E a \in Agents : Serve(a)

Spec == Init /\ [][Next]_vars

(* A goroutine that can go on does, and the service's commands end.  A     *)
(* handle's command runs once, so that its mutex is not taken away from a  *)
(* waiting goroutine again and again.                                      *)
Fairness == \A a \in Agents : WF_vars(Serve(a))

FairSpec == Spec /\ Fairness

-----------------------------------------------------------------------------
(* Properties. *)

(* What a payload holds after the writes of a log, said without replaying  *)
(* them: each byte is the one of the last write that covers it, a byte no  *)
(* write covers is zero, and it ends where the farthest write ends.        *)
Laid(buffer, writes) ==
  \A i \in 1..Len(buffer) :
    \/ /\ buffer[i] = Zero
       /\ \A k \in 1..Len(writes) : ~Covers(writes[k], i)
    \/ \E k \in 1..Len(writes) :
         /\ Covers(writes[k], i) /\ buffer[i] = writes[k].data[i - writes[k].off]
         /\ \A j \in k + 1..Len(writes) : ~Covers(writes[j], i)

Holds(buffer, writes) ==
  /\ Laid(buffer, writes)
  /\ \A k \in 1..Len(writes) : End(writes[k]) <= Len(buffer)
  /\ buffer # <<>> => \E k \in 1..Len(writes) : End(writes[k]) = Len(buffer)

(* The buffer is the file that the answered writes make, whatever their    *)
(* offsets and however the threads' writes and closes interleave.          *)
BufferIsTheFile == \A h \in Handles : Holds(file[h].buffer, log[h])

(* However many descriptors an open file has, whoever closes them and when *)
(* the Release comes, its command runs at most once, and never before      *)
(* something was written: the shell closes a duplicate before the program  *)
(* it starts has written.                                                  *)
RunsAtMostOnce ==
  \A h \in Handles : Len(ran[h]) <= 1 /\ (log[h] = <<>> => ran[h] = <<>>)

(* What a command reads, byte by byte while it runs and while other        *)
(* threads write, is the file that the first so many writes make, and all  *)
(* of it when the command did not fail: only the mutex, kept for the whole *)
(* run, keeps a write from changing the bytes it has not read yet.         *)
RunsWholeWrites ==
  \A h \in Handles : \A n \in 1..Len(ran[h]) :
    \E k \in 1..Len(log[h]) :
      /\ Laid(ran[h][n], SubSeq(log[h], 1, k))
      /\ ~Running(h) /\ ~failed[h] => Holds(ran[h][n], SubSeq(log[h], 1, k))

(* A close answers "ok" only when nothing was written before it or the     *)
(* command has run and has not failed; the errors of a command reach every *)
(* later close of the file.                                                *)
OkCloseMeansRun ==
  [][\A a \in Callers :
       call[a].op \in {"finish", "running"} /\ reply'[a] = "ok" =>
         LET h == call[a].on
         IN  log[h] = <<>> \/ (ran[h] # <<>> /\ ~failed'[h])]_vars

(* Every write and every close returns. *)
EveryCallReturns == \A a \in Agents : call[a].op # "idle" ~> call[a].op = "idle"

(* "Input files collect write chunks per open file handle and execute the  *)
(* corresponding service command on close" (docs/fuse.md): once a file is  *)
(* closed for good, a command that did not fail ran with everything that   *)
(* was written.  The first close of a duplicate runs it with what is       *)
(* there, and the writes after that are answered and dropped.              *)
EveryWriteRuns ==
  \A h \in Handles :
    ~file[h].open /\ ~Busy(h) /\ log[h] # <<>> /\ ~failed[h] =>
      ran[h] = <<file[h].buffer>>
=============================================================================
