------------------------ MODULE FuseWriteFileProofs ------------------------
(***************************************************************************)
(* Proofs about FuseWriteFile, for any number of threads, open files,      *)
(* descriptors and writes, and chunks of any size at any offset.           *)
(***************************************************************************)
EXTENDS FuseWriteFile, SequenceTheorems, TLAPS

(* A finite function over 1..n is a sequence.                              *)
LEMMA FunctionIsSeq ==
  ASSUME NEW S, NEW n \in Nat, NEW f \in [1..n -> S]
  PROVE  f \in Seq(S) /\ Len(f) = n /\ DOMAIN f = 1..n
OBVIOUS

(* A chunk has the fields that Write reads. *)
LEMMA WriteType ==
  ASSUME NEW w \in Writes
  PROVE  /\ w.off \in Nat
         /\ w.data \in Seq(Bytes)
         /\ Len(w.data) \in Nat \ {0}
         /\ End(w) \in Nat \ {0}
         /\ w.off < End(w)
         /\ \A i \in Nat : Covers(w, i) => w.data[i - w.off] \in Bytes
<1>1. w.off \in Nat /\ w.data \in Seq(Bytes) /\ w.data # <<>>
  BY FuseAssumption DEF Write
<1>2. Len(w.data) \in Nat \ {0}
  BY <1>1, EmptySeq
<1>3. End(w) \in Nat \ {0} /\ w.off < End(w)
  BY <1>1, <1>2 DEF End
<1>4. ASSUME NEW i \in Nat, Covers(w, i)
      PROVE  w.data[i - w.off] \in Bytes
  <2>1. i - w.off \in 1..Len(w.data)
    BY <1>1, <1>2, <1>4 DEF Covers, End
  <2>2. QED
    BY <1>1, <2>1, ElementOfSeq
<1>5. QED
  BY <1>1, <1>2, <1>3, <1>4

(* The buffer after a chunk is a sequence of bytes, as long as the chunk's *)
(* end or the buffer, whichever is longer.                                 *)
LEMMA OverlayType ==
  ASSUME NEW buffer \in Seq(Bytes), NEW w \in Writes
  PROVE  /\ Overlay(buffer, w) \in Seq(Bytes)
         /\ Len(Overlay(buffer, w)) \in Nat
         /\ Len(buffer) \in Nat
         /\ Len(Overlay(buffer, w)) =
              IF End(w) > Len(buffer) THEN End(w) ELSE Len(buffer)
         /\ \A i \in 1..Len(Overlay(buffer, w)) :
              Overlay(buffer, w)[i] =
                IF Covers(w, i) THEN w.data[i - w.off]
                ELSE IF i <= Len(buffer) THEN buffer[i] ELSE Zero
<1> DEFINE n == IF End(w) > Len(buffer) THEN End(w) ELSE Len(buffer)
           byte(i) == IF Covers(w, i) THEN w.data[i - w.off]
                      ELSE IF i <= Len(buffer) THEN buffer[i] ELSE Zero
<1>1. Len(buffer) \in Nat
  BY LenProperties
<1>2. n \in Nat
  BY <1>1, WriteType
<1>3. \A i \in 1..n : byte(i) \in Bytes
  <2>1. SUFFICES ASSUME NEW i \in 1..n PROVE byte(i) \in Bytes
    OBVIOUS
  <2>2. i \in Nat
    BY <1>2
  <2>3. CASE Covers(w, i)
    BY <2>2, <2>3, WriteType
  <2>4. CASE ~Covers(w, i) /\ i <= Len(buffer)
    <3>1. i \in 1..Len(buffer)
      BY <1>1, <1>2, <2>4
    <3>2. QED
      BY <2>4, <3>1, ElementOfSeq
  <2>5. CASE ~Covers(w, i) /\ ~(i <= Len(buffer))
    BY <2>5, FuseAssumption
  <2>6. QED
    BY <2>3, <2>4, <2>5
<1>4. Overlay(buffer, w) = [i \in 1..n |-> byte(i)]
  BY DEF Overlay
<1> HIDE DEF n, byte
<1>5. Overlay(buffer, w) \in [1..n -> Bytes]
  BY <1>3, <1>4
<1>6. Overlay(buffer, w) \in Seq(Bytes) /\ Len(Overlay(buffer, w)) = n
  BY <1>2, <1>5, FunctionIsSeq
<1>7. \A i \in 1..n : Overlay(buffer, w)[i] = byte(i)
  BY <1>4
<1>8. QED
  BY <1>1, <1>2, <1>6, <1>7 DEF n, byte

(* One more chunk, laid over a buffer that holds the chunks before it,     *)
(* makes a buffer that holds them all.                                     *)
LEMMA OverlayHolds ==
  ASSUME NEW buffer \in Seq(Bytes), NEW writes \in Seq(Writes), NEW w \in Writes,
         Holds(buffer, writes)
  PROVE  Holds(Overlay(buffer, w), Append(writes, w))
<1> DEFINE new == Overlay(buffer, w)
           all == Append(writes, w)
           n   == Len(writes)
           len == Len(buffer)
<1>1. /\ n \in Nat /\ Len(all) = n + 1
      /\ \A k \in 1..n : all[k] = writes[k] /\ writes[k] \in Writes
      /\ all[n + 1] = w
  <2>1. n \in Nat
    BY LenProperties
  <2>2. Len(all) = n + 1 /\ \A k \in 1..n : all[k] = writes[k]
    OBVIOUS
  <2>3. \A k \in 1..n : writes[k] \in Writes
    BY ElementOfSeq
  <2>4. all[n + 1] = w
    OBVIOUS
  <2>5. QED
    BY <2>1, <2>2, <2>3, <2>4
<1>2. len \in Nat /\ Len(new) \in Nat
      /\ Len(new) = IF End(w) > len THEN End(w) ELSE len
  BY OverlayType
<1>3. \A i \in 1..Len(new) :
        new[i] = IF Covers(w, i) THEN w.data[i - w.off]
                 ELSE IF i <= len THEN buffer[i] ELSE Zero
  BY OverlayType
<1>4. /\ \A i \in 1..len :
           \/ buffer[i] = Zero /\ \A k \in 1..n : ~Covers(writes[k], i)
           \/ \E k \in 1..n :
                /\ Covers(writes[k], i) /\ buffer[i] = writes[k].data[i - writes[k].off]
                /\ \A j \in k + 1..n : ~Covers(writes[j], i)
      /\ \A k \in 1..n : End(writes[k]) <= len
      /\ buffer # <<>> => \E k \in 1..n : End(writes[k]) = len
  BY DEF Holds, Laid
<1>5. End(w) \in Nat \ {0}
  BY WriteType
<1>6. len > 0 => buffer # <<>>
  BY EmptySeq
<1>7. new # <<>> => Len(new) > 0
  BY OverlayType, EmptySeq, <1>2
<1> HIDE DEF new, all, n, len
<1>8. ASSUME NEW i \in 1..Len(new)
      PROVE  \/ new[i] = Zero /\ \A k \in 1..Len(all) : ~Covers(all[k], i)
             \/ \E k \in 1..Len(all) :
                  /\ Covers(all[k], i) /\ new[i] = all[k].data[i - all[k].off]
                  /\ \A j \in k + 1..Len(all) : ~Covers(all[j], i)
  <2>1. CASE Covers(w, i)
    <3>1. n + 1 \in 1..Len(all) /\ (n + 1) + 1..Len(all) = {}
      BY <1>1
    <3>2. Covers(all[n + 1], i) /\ new[i] = all[n + 1].data[i - all[n + 1].off]
      BY <1>1, <1>3, <2>1
    <3>3. QED
      BY <3>1, <3>2
  <2>2. CASE ~Covers(w, i) /\ ~(i <= len)
    <3>1. new[i] = Zero
      BY <1>3, <2>2
    <3>2. ASSUME NEW k \in 1..Len(all) PROVE ~Covers(all[k], i)
      <4>1. CASE k = n + 1
        BY <1>1, <2>2, <4>1
      <4>2. CASE k \in 1..n
        <5>1. End(writes[k]) <= len /\ End(writes[k]) \in Nat /\ all[k] = writes[k]
          BY <1>1, <1>4, <4>2, WriteType
        <5>2. i \in Nat /\ i > len
          BY <1>2, <2>2
        <5>3. QED
          BY <1>2, <5>1, <5>2 DEF Covers
      <4>3. QED
        BY <1>1, <4>1, <4>2
    <3>3. QED
      BY <3>1, <3>2
  <2>3. CASE ~Covers(w, i) /\ i <= len
    <3>1. new[i] = buffer[i] /\ i \in 1..len
      BY <1>2, <1>3, <2>3
    <3>2. CASE buffer[i] = Zero /\ \A k \in 1..n : ~Covers(writes[k], i)
      <4>1. \A k \in 1..Len(all) : ~Covers(all[k], i)
        <5>1. \A k \in 1..Len(all) : k = n + 1 \/ k \in 1..n
          BY <1>1
        <5>2. QED
          BY <1>1, <2>3, <3>2, <5>1
      <4>2. QED
        BY <3>1, <3>2, <4>1
    <3>3. CASE \E k \in 1..n :
                 /\ Covers(writes[k], i) /\ buffer[i] = writes[k].data[i - writes[k].off]
                 /\ \A j \in k + 1..n : ~Covers(writes[j], i)
      <4>1. PICK k \in 1..n :
              /\ Covers(writes[k], i) /\ buffer[i] = writes[k].data[i - writes[k].off]
              /\ \A j \in k + 1..n : ~Covers(writes[j], i)
        BY <3>3
      <4>2. k \in 1..Len(all) /\ all[k] = writes[k]
        BY <1>1
      <4>3. ASSUME NEW j \in k + 1..Len(all) PROVE ~Covers(all[j], i)
        <5>1. j = n + 1 \/ (j \in k + 1..n /\ j \in 1..n)
          BY <1>1
        <5>2. QED
          BY <1>1, <2>3, <4>1, <5>1
      <4>4. QED
        BY <3>1, <4>1, <4>2, <4>3
    <3>4. QED
      BY <1>4, <3>1, <3>2, <3>3
  <2>4. QED
    BY <2>1, <2>2, <2>3
<1>9. ASSUME NEW k \in 1..Len(all)
      PROVE  End(all[k]) <= Len(new)
  <2>1. CASE k = n + 1
    BY <1>1, <1>2, <1>5, <2>1
  <2>2. CASE k \in 1..n
    <3>1. End(writes[k]) \in Nat /\ End(writes[k]) <= len /\ all[k] = writes[k]
      BY <1>1, <1>4, <2>2, WriteType
    <3>2. QED
      BY <1>2, <1>5, <3>1
  <2>3. QED
    BY <1>1, <2>1, <2>2
<1>10. ASSUME new # <<>>
       PROVE  \E k \in 1..Len(all) : End(all[k]) = Len(new)
  <2>1. CASE End(w) > len
    <3>1. n + 1 \in 1..Len(all) /\ End(all[n + 1]) = Len(new)
      BY <1>1, <1>2, <2>1
    <3>2. QED
      BY <3>1
  <2>2. CASE ~(End(w) > len)
    <3>1. Len(new) = len /\ len > 0
      BY <1>2, <1>5, <2>2
    <3>2. PICK k \in 1..n : End(writes[k]) = len
      BY <1>4, <1>6, <3>1
    <3>3. k \in 1..Len(all) /\ all[k] = writes[k]
      BY <1>1
    <3>4. QED
      BY <3>1, <3>2, <3>3
  <2>3. QED
    BY <2>1, <2>2
<1>11. Holds(new, all)
  BY <1>8, <1>9, <1>10 DEF Holds, Laid
<1>12. QED
  BY <1>11 DEF new, all

-----------------------------------------------------------------------------
(* Who is served for which handle: an agent that is served is served for a *)
(* handle, and a Release for its own.                                      *)
ServedFor ==
  /\ \A a \in Agents : call[a].op = "idle" <=> call[a].on = NoHandle
  /\ \A h \in Handles : call[h].on \in {h, NoHandle}

(* What a command that runs has read so far is how the buffer begins.      *)
Reads(r, buffer) ==
  /\ Len(r) = 1 /\ Len(r[1]) <= Len(buffer)
  /\ \A i \in 1..Len(r[1]) : r[1][i] = buffer[i]

(* Why a command runs once: before it runs "done" is FALSE, and it only    *)
(* runs once "wrote" is TRUE.  While it runs the mutex is held, so that    *)
(* the buffer it reads stays as it is.                                     *)
RunState(h) ==
  /\ file[h].wrote <=> log[h] # <<>>
  /\ ~file[h].done => ran[h] = <<>>
  /\ Len(ran[h]) <= 1
  /\ ran[h] # <<>> => log[h] # <<>>
  /\ file[h].mu # NoOne => Reads(ran[h], file[h].buffer)

(* The inductive invariant. *)
IInv == TypeOK /\ ServedFor /\ (\A h \in Handles : RunState(h)) /\ BufferIsTheFile

(* NoCall is a call of nobody. *)
LEMMA NoCallType == /\ NoCall \in Call /\ NoCall.op = "idle" /\ NoCall.on = NoHandle
                    /\ AnyWrite \in Writes
<1>1. AnyWrite \in Writes
  BY FuseAssumption DEF AnyWrite
<1>2. QED
  BY <1>1 DEF NoCall, Call

LEMMA NewFileType ==
  ASSUME NEW open \in BOOLEAN
  PROVE  /\ NewFile(open) \in File
         /\ NewFile(open).mu = NoOne
         /\ NewFile(open).wrote = FALSE /\ NewFile(open).done = FALSE
         /\ NewFile(open).buffer = <<>>
<1>1. <<>> \in Seq(Bytes) /\ "ok" \in Errnos
  BY DEF Errnos
<1>2. (IF open THEN 1 ELSE 0) \in 0..MaxRefs
  BY FuseAssumption
<1>3. QED
  BY <1>1, <1>2 DEF NewFile, File

(* An empty buffer holds no writes at all. *)
LEMMA EmptyHolds == Holds(<<>>, <<>>)
BY DEF Holds, Laid

(* The initial states satisfy the inductive invariant. *)
THEOREM InitIInv == Init => IInv
<1> SUFFICES ASSUME Init PROVE IInv
  OBVIOUS
<1>1. file \in [Handles -> File] /\ call \in [Agents -> Call]
  BY NewFileType, NoCallType DEF Init
<1>2. /\ log \in [Handles -> Seq(Writes)] /\ ran \in [Handles -> Seq(Seq(Bytes))]
      /\ failed \in [Handles -> BOOLEAN] /\ reply \in [Agents -> Errnos \union {"none"}]
  BY DEF Init
<1>3. \A h \in Handles : file[h].mu = NoOne
  BY NewFileType DEF Init
<1>4. \A a \in Agents : call[a].op = "idle" /\ call[a].on = NoHandle
  BY NoCallType DEF Init
<1>5. TypeOK
  BY <1>1, <1>2, <1>3, <1>4, FuseAssumption DEF TypeOK
<1>6. ServedFor
  BY <1>4 DEF ServedFor, Agents
<1>7. \A h \in Handles : RunState(h)
  <2>1. ASSUME NEW h \in Handles PROVE RunState(h)
    <3>1. /\ file[h].wrote = FALSE /\ file[h].done = FALSE /\ file[h].mu = NoOne
          /\ log[h] = <<>> /\ ran[h] = <<>> /\ Len(ran[h]) = 0
      BY NewFileType DEF Init
    <3>2. QED
      BY <3>1 DEF RunState
  <2>2. QED
    BY <2>1
<1>8. BufferIsTheFile
  BY NewFileType, EmptyHolds DEF Init, BufferIsTheFile
<1>9. QED
  BY <1>5, <1>6, <1>7, <1>8 DEF IInv

-----------------------------------------------------------------------------
(* What the calls of the agents say after one of them asked, or returned.  *)
CallsOK ==
  /\ call \in [Agents -> Call]
  /\ reply \in [Agents -> Errnos \union {"none"}]
  /\ \A h \in Handles, a \in Agents :
       file[h].mu = a <=> call[a].op = "running" /\ call[a].on = h
  /\ ServedFor

LEMMA AskKeepsCalls ==
  ASSUME CallsOK, NEW a \in Agents, NEW op \in {"write", "finish"},
         NEW h \in Handles, NEW w \in Writes,
         call[a].op = "idle", a \in Handles => h = a,
         Ask(a, op, h, w),
         \A g \in Handles : file'[g].mu = file[g].mu
  PROVE  CallsOK'
<1> DEFINE new == [op |-> op, on |-> h, write |-> w]
<1>1. new \in Call /\ new.op = op /\ new.on = h
  BY DEF Call
<1>2. call' = [call EXCEPT ![a] = new] /\ reply' = [reply EXCEPT ![a] = "none"]
  BY DEF Ask
<1> HIDE DEF new
<1>3. /\ call' \in [Agents -> Call]
      /\ reply' \in [Agents -> Errnos \union {"none"}]
      /\ \A b \in Agents : call'[b] = IF b = a THEN new ELSE call[b]
  BY <1>1, <1>2 DEF CallsOK
<1>4. ASSUME NEW g \in Handles, NEW b \in Agents
      PROVE  file'[g].mu = b <=> call'[b].op = "running" /\ call'[b].on = g
  <2>1. file[g].mu = b <=> call[b].op = "running" /\ call[b].on = g
    BY DEF CallsOK
  <2>2. CASE b = a
    BY <1>1, <1>3, <2>1, <2>2
  <2>3. CASE b # a
    BY <1>3, <2>1, <2>3
  <2>4. QED
    BY <2>2, <2>3
<1>5. ServedFor'
  <2>1. \A b \in Agents : call'[b].op = "idle" <=> call'[b].on = NoHandle
    BY <1>1, <1>3, FuseAssumption DEF CallsOK, ServedFor
  <2>2. \A g \in Handles : call'[g].on \in {g, NoHandle}
    BY <1>1, <1>3 DEF CallsOK, ServedFor, Agents
  <2>3. QED
    BY <2>1, <2>2 DEF ServedFor
<1>6. QED
  BY <1>3, <1>4, <1>5 DEF CallsOK

LEMMA ReturnKeepsCalls ==
  ASSUME CallsOK, NEW a \in Agents, NEW errno \in Errnos, Return(a, errno),
         \A g \in Handles :
           file'[g].mu = IF file[g].mu = a THEN NoOne ELSE file[g].mu
  PROVE  CallsOK'
<1>1. call' = [call EXCEPT ![a] = NoCall] /\ reply' = [reply EXCEPT ![a] = errno]
  BY DEF Return
<1>2. /\ call' \in [Agents -> Call]
      /\ reply' \in [Agents -> Errnos \union {"none"}]
      /\ \A b \in Agents : call'[b] = IF b = a THEN NoCall ELSE call[b]
  BY <1>1, NoCallType DEF CallsOK
<1>3. ASSUME NEW g \in Handles, NEW b \in Agents
      PROVE  file'[g].mu = b <=> call'[b].op = "running" /\ call'[b].on = g
  <2>1. file[g].mu = b <=> call[b].op = "running" /\ call[b].on = g
    BY DEF CallsOK
  <2>2. b # NoOne
    BY FuseAssumption
  <2>3. CASE b = a
    BY <1>2, <2>2, <2>3, NoCallType
  <2>4. CASE b # a
    BY <1>2, <2>1, <2>2, <2>4
  <2>5. QED
    BY <2>3, <2>4
<1>4. ServedFor'
  <2>1. \A b \in Agents : call'[b].op = "idle" <=> call'[b].on = NoHandle
    BY <1>2, NoCallType DEF CallsOK, ServedFor
  <2>2. \A g \in Handles : call'[g].on \in {g, NoHandle}
    BY <1>2, NoCallType DEF CallsOK, ServedFor, Agents
  <2>3. QED
    BY <2>1, <2>2 DEF ServedFor
<1>5. QED
  BY <1>2, <1>3, <1>4 DEF CallsOK

(* What is said of the files. *)
FilesOK ==
  /\ file \in [Handles -> File]
  /\ log \in [Handles -> Seq(Writes)]
  /\ ran \in [Handles -> Seq(Seq(Bytes))]
  /\ failed \in [Handles -> BOOLEAN]
  /\ \A h \in Handles : RunState(h) /\ Holds(file[h].buffer, log[h])

LEMMA TwoHalves == IInv <=> CallsOK /\ FilesOK
BY DEF IInv, CallsOK, FilesOK, TypeOK, BufferIsTheFile

LEMMA TwoHalvesNext == IInv' <=> CallsOK' /\ FilesOK'
BY DEF IInv, CallsOK, FilesOK, TypeOK, BufferIsTheFile

(* A step of one handle leaves the others as they are. *)
LEMMA OneFile ==
  ASSUME FilesOK, NEW h \in Handles,
         NEW f \in File, NEW l \in Seq(Writes), NEW r \in Seq(Seq(Bytes)), NEW x \in BOOLEAN,
         file' = [file EXCEPT ![h] = f],
         log' = [log EXCEPT ![h] = l],
         ran' = [ran EXCEPT ![h] = r],
         failed' = [failed EXCEPT ![h] = x],
         f.wrote <=> l # <<>>,
         ~f.done => r = <<>>,
         Len(r) <= 1,
         r # <<>> => l # <<>>,
         f.mu # NoOne => Reads(r, f.buffer),
         Holds(f.buffer, l)
  PROVE  FilesOK'
<1>1. /\ file' \in [Handles -> File] /\ log' \in [Handles -> Seq(Writes)]
      /\ ran' \in [Handles -> Seq(Seq(Bytes))] /\ failed' \in [Handles -> BOOLEAN]
  BY DEF FilesOK
<1>2. ASSUME NEW g \in Handles
      PROVE  RunState(g)' /\ Holds(file'[g].buffer, log'[g])
  <2>1. CASE g = h
    <3>1. file'[g] = f /\ log'[g] = l /\ ran'[g] = r
      BY <2>1 DEF FilesOK
    <3>2. QED
      BY <3>1 DEF RunState
  <2>2. CASE g # h
    <3>1. file'[g] = file[g] /\ log'[g] = log[g] /\ ran'[g] = ran[g]
      BY <2>2 DEF FilesOK
    <3>2. RunState(g) /\ Holds(file[g].buffer, log[g])
      BY DEF FilesOK
    <3>3. QED
      BY <3>1, <3>2 DEF RunState
  <2>3. QED
    BY <2>1, <2>2
<1>3. QED
  BY <1>1, <1>2 DEF FilesOK

(* A step that leaves what a handle has collected and run alone.           *)
LEMMA SameFiles ==
  ASSUME FilesOK, NEW h \in Handles, NEW f \in File,
         file' = [file EXCEPT ![h] = f],
         f.wrote = file[h].wrote, f.done = file[h].done, f.buffer = file[h].buffer,
         f.mu \in {file[h].mu, NoOne},
         UNCHANGED <<log, ran>>,
         NEW x \in BOOLEAN, failed' = [failed EXCEPT ![h] = x]
  PROVE  FilesOK'
<1>1. log' = [log EXCEPT ![h] = log[h]] /\ ran' = [ran EXCEPT ![h] = ran[h]]
  BY DEF FilesOK
<1>2. log[h] \in Seq(Writes) /\ ran[h] \in Seq(Seq(Bytes))
  BY DEF FilesOK
<1>3. RunState(h) /\ Holds(file[h].buffer, log[h])
  BY DEF FilesOK
<1>4. f.wrote <=> log[h] # <<>>
  BY <1>3 DEF RunState
<1>5. /\ ~f.done => ran[h] = <<>>
      /\ Len(ran[h]) <= 1
      /\ ran[h] # <<>> => log[h] # <<>>
      /\ f.mu # NoOne => Reads(ran[h], f.buffer)
      /\ Holds(f.buffer, log[h])
  BY <1>3 DEF RunState
<1>6. QED
  BY <1>1, <1>2, <1>4, <1>5, OneFile

LEMMA SameFailed ==
  ASSUME FilesOK, NEW h \in Handles, UNCHANGED failed
  PROVE  failed[h] \in BOOLEAN /\ failed' = [failed EXCEPT ![h] = failed[h]]
BY DEF FilesOK

LEMMA OpenStep ==
  ASSUME IInv, NEW h \in Handles, Open(h)
  PROVE  IInv'
<1>1. CallsOK /\ FilesOK
  BY TwoHalves
<1>2. /\ file' = [file EXCEPT ![h] = NewFile(TRUE)]
      /\ log' = [log EXCEPT ![h] = <<>>] /\ ran' = [ran EXCEPT ![h] = <<>>]
      /\ failed' = [failed EXCEPT ![h] = FALSE] /\ UNCHANGED <<call, reply>>
      /\ \A a \in Agents : call[a].on # h
  BY DEF Open, Busy
<1>3. FilesOK'
  <2>1. NewFile(TRUE) \in File /\ NewFile(TRUE).wrote = FALSE /\ NewFile(TRUE).buffer = <<>>
    BY NewFileType
  <2>2. Holds(NewFile(TRUE).buffer, <<>>)
    BY <2>1, EmptyHolds
  <2>3. /\ <<>> \in Seq(Writes) /\ <<>> \in Seq(Seq(Bytes)) /\ Len(<<>>) <= 1
        /\ FALSE \in BOOLEAN
    OBVIOUS
  <2>4. NewFile(TRUE).wrote <=> <<>> # <<>>
    BY <2>1
  <2>5. QED
    BY <1>1, <1>2, <2>1, <2>2, <2>3, <2>4, NewFileType, OneFile
<1>4. CallsOK'
  <2>1. ASSUME NEW g \in Handles, NEW a \in Agents
        PROVE  file'[g].mu = a <=> call[a].op = "running" /\ call[a].on = g
    <3>1. CASE g = h
      <4>1. file'[g].mu = NoOne
        BY <1>1, <1>2, <3>1, NewFileType DEF FilesOK
      <4>2. QED
        BY <1>2, <3>1, <4>1, FuseAssumption
    <3>2. CASE g # h
      BY <1>1, <1>2, <3>2 DEF CallsOK, FilesOK
    <3>3. QED
      BY <3>1, <3>2
  <2>2. call' = call /\ reply' = reply
    BY <1>2
  <2>3. ServedFor'
    BY <1>1, <2>2 DEF CallsOK, ServedFor
  <2>4. QED
    BY <1>1, <2>1, <2>2, <2>3 DEF CallsOK
<1>5. QED
  BY <1>3, <1>4, TwoHalvesNext

LEMMA DupStep ==
  ASSUME IInv, NEW h \in Handles, Dup(h)
  PROVE  IInv'
<1>1. CallsOK /\ FilesOK
  BY TwoHalves
<1> DEFINE f == [file[h] EXCEPT !.refs = @ + 1]
<1>2. /\ f \in File /\ f.wrote = file[h].wrote /\ f.done = file[h].done
      /\ f.buffer = file[h].buffer /\ f.mu = file[h].mu
  <2>1. file[h] \in File /\ file[h].refs + 1 \in 0..MaxRefs
    BY <1>1, FuseAssumption DEF FilesOK, Dup
  <2>2. QED
    BY <2>1 DEF File
<1>3. file' = [file EXCEPT ![h] = f] /\ UNCHANGED <<call, log, ran, failed, reply>>
  BY DEF Dup, hist
<1> HIDE DEF f
<1>4. FilesOK'
  BY <1>1, <1>2, <1>3, SameFiles, SameFailed
<1>5. \A g \in Handles : file'[g].mu = file[g].mu
  BY <1>1, <1>2, <1>3 DEF FilesOK
<1>6. CallsOK'
  BY <1>1, <1>3, <1>5 DEF CallsOK, ServedFor
<1>7. QED
  BY <1>4, <1>6, TwoHalvesNext

LEMMA SendWriteStep ==
  ASSUME IInv, NEW a \in Callers, NEW h \in Handles, NEW w \in Writes, SendWrite(a, h, w)
  PROVE  IInv'
<1>1. CallsOK /\ FilesOK
  BY TwoHalves
<1>2. a \in Agents /\ a \notin Handles
  BY FuseAssumption DEF Agents
<1>3. /\ call[a].op = "idle" /\ Ask(a, "write", h, w)
      /\ UNCHANGED <<file, log, ran, failed>>
  BY DEF SendWrite
<1>4. CallsOK'
  BY <1>1, <1>2, <1>3, AskKeepsCalls
<1>5. FilesOK'
  BY <1>1, <1>3 DEF FilesOK, RunState
<1>6. QED
  BY <1>4, <1>5, TwoHalvesNext

LEMMA SendFlushStep ==
  ASSUME IInv, NEW a \in Callers, NEW h \in Handles, SendFlush(a, h)
  PROVE  IInv'
<1>1. CallsOK /\ FilesOK
  BY TwoHalves
<1>2. a \in Agents /\ a \notin Handles /\ AnyWrite \in Writes
  BY FuseAssumption, NoCallType DEF Agents
<1> DEFINE f == [file[h] EXCEPT !.refs = @ - 1]
<1>3. /\ f \in File /\ f.wrote = file[h].wrote /\ f.done = file[h].done
      /\ f.buffer = file[h].buffer /\ f.mu = file[h].mu
  <2>1. file[h] \in File /\ file[h].refs > 0
    BY <1>1 DEF FilesOK, SendFlush
  <2>2. file[h].refs - 1 \in 0..MaxRefs
    BY <2>1, FuseAssumption DEF File
  <2>3. QED
    BY <2>1, <2>2 DEF File
<1>4. /\ file' = [file EXCEPT ![h] = f] /\ UNCHANGED <<log, ran, failed>>
      /\ call[a].op = "idle" /\ Ask(a, "finish", h, AnyWrite)
  BY DEF SendFlush
<1> HIDE DEF f
<1>5. FilesOK'
  BY <1>1, <1>3, <1>4, SameFiles, SameFailed
<1>6. \A g \in Handles : file'[g].mu = file[g].mu
  BY <1>1, <1>3, <1>4 DEF FilesOK
<1>7. CallsOK'
  BY <1>1, <1>2, <1>4, <1>6, AskKeepsCalls
<1>8. QED
  BY <1>5, <1>7, TwoHalvesNext

LEMMA SendReleaseStep ==
  ASSUME IInv, NEW h \in Handles, SendRelease(h)
  PROVE  IInv'
<1>1. CallsOK /\ FilesOK
  BY TwoHalves
<1>2. h \in Agents /\ AnyWrite \in Writes
  BY NoCallType DEF Agents
<1> DEFINE f == [file[h] EXCEPT !.open = FALSE]
<1>3. /\ f \in File /\ f.wrote = file[h].wrote /\ f.done = file[h].done
      /\ f.buffer = file[h].buffer /\ f.mu = file[h].mu
  <2>1. file[h] \in File
    BY <1>1 DEF FilesOK
  <2>2. QED
    BY <2>1 DEF File
<1>4. /\ file' = [file EXCEPT ![h] = f] /\ UNCHANGED <<log, ran, failed>>
      /\ Ask(h, "finish", h, AnyWrite) /\ call[h].on # h
  BY <1>2 DEF SendRelease, Busy
<1> HIDE DEF f
<1>5. FilesOK'
  BY <1>1, <1>3, <1>4, SameFiles, SameFailed
<1>6. \A g \in Handles : file'[g].mu = file[g].mu
  BY <1>1, <1>3, <1>4 DEF FilesOK
<1>7. call[h].op = "idle"
  BY <1>1, <1>2, <1>4 DEF CallsOK, ServedFor
<1>8. CallsOK'
  BY <1>1, <1>2, <1>4, <1>6, <1>7, AskKeepsCalls
<1>9. QED
  BY <1>5, <1>8, TwoHalvesNext

(* An agent that is served is served for a handle. *)
LEMMA ServedHandle ==
  ASSUME CallsOK, NEW a \in Agents, call[a].op # "idle"
  PROVE  call[a].on \in Handles
BY DEF CallsOK, ServedFor, Call

LEMMA TakeWriteStep ==
  ASSUME IInv, NEW a \in Agents, TakeWrite(a)
  PROVE  IInv'
<1> DEFINE h == call[a].on
           w == call[a].write
           f == [file[h] EXCEPT !.wrote = TRUE, !.buffer = Overlay(file[h].buffer, w)]
<1>1. CallsOK /\ FilesOK
  BY TwoHalves
<1>2. /\ call[a].op = "write" /\ file[h].mu = NoOne
      /\ file' = [file EXCEPT ![h].wrote = TRUE, ![h].buffer = Overlay(@, w)]
      /\ log' = [log EXCEPT ![h] = Append(@, w)]
      /\ Return(a, "ok") /\ UNCHANGED <<ran, failed>>
  BY DEF TakeWrite
<1>3. h \in Handles
  BY <1>1, <1>2, ServedHandle
<1>4. w \in Writes
  BY <1>1 DEF CallsOK, Call
<1>5. /\ file[h] \in File /\ file[h].buffer \in Seq(Bytes)
      /\ log[h] \in Seq(Writes) /\ ran[h] \in Seq(Seq(Bytes))
  BY <1>1, <1>3 DEF FilesOK, File
<1>6. Overlay(file[h].buffer, w) \in Seq(Bytes)
  BY <1>4, <1>5, OverlayType
<1>7. /\ f \in File /\ f.wrote = TRUE /\ f.done = file[h].done
      /\ f.buffer = Overlay(file[h].buffer, w) /\ f.mu = file[h].mu
  BY <1>5, <1>6 DEF File
<1>8. file' = [file EXCEPT ![h] = f]
  BY <1>2, <1>3, <1>5 DEF File
<1>9. /\ log' = [log EXCEPT ![h] = Append(log[h], w)]
      /\ ran' = [ran EXCEPT ![h] = ran[h]]
  BY <1>1, <1>2, <1>3 DEF FilesOK
<1>10. Append(log[h], w) \in Seq(Writes) /\ Append(log[h], w) # <<>>
  <2>1. ASSUME NEW l \in Seq(Writes), NEW v \in Writes
        PROVE  Append(l, v) \in Seq(Writes) /\ Append(l, v) # <<>>
    <3>1. Append(l, v) \in Seq(Writes) /\ Len(Append(l, v)) = Len(l) + 1 /\ Len(l) \in Nat
      OBVIOUS
    <3>2. QED
      BY <3>1, EmptySeq
  <2>2. QED
    BY <1>4, <1>5, <2>1
<1>11. RunState(h) /\ Holds(file[h].buffer, log[h])
  BY <1>1, <1>3 DEF FilesOK
<1>12. Holds(f.buffer, Append(log[h], w))
  BY <1>4, <1>5, <1>7, <1>11, OverlayHolds
<1> HIDE DEF f
<1>13. FilesOK'
  <2>1. f.wrote <=> Append(log[h], w) # <<>>
    BY <1>7, <1>10
  <2>2. (~f.done => ran[h] = <<>>) /\ Len(ran[h]) <= 1
    BY <1>7, <1>11 DEF RunState
  <2>3. failed[h] \in BOOLEAN /\ failed' = [failed EXCEPT ![h] = failed[h]]
    BY <1>1, <1>2, <1>3, SameFailed
  <2>4. QED
    BY <1>1, <1>2, <1>3, <1>5, <1>7, <1>8, <1>9, <1>10, <1>12, <2>1, <2>2, <2>3, OneFile
<1>14. CallsOK'
  <2>1. ASSUME NEW g \in Handles
        PROVE  file'[g].mu = IF file[g].mu = a THEN NoOne ELSE file[g].mu
    <3>1. file'[g].mu = file[g].mu
      BY <1>1, <1>3, <1>7, <1>8 DEF FilesOK
    <3>2. file[g].mu # a
      BY <1>1, <1>2 DEF CallsOK
    <3>3. QED
      BY <3>1, <3>2
  <2>2. "ok" \in Errnos
    BY DEF Errnos
  <2>3. QED
    BY <1>1, <1>2, <2>1, <2>2, ReturnKeepsCalls
<1>15. QED
  BY <1>13, <1>14, TwoHalvesNext

LEMMA FinishStep ==
  ASSUME IInv, NEW a \in Agents, Finish(a)
  PROVE  IInv'
<1> DEFINE h == call[a].on
<1>1. CallsOK /\ FilesOK
  BY TwoHalves
<1>2. call[a].op = "finish" /\ file[h].mu = NoOne
  BY DEF Finish, FinishIf
<1>3. h \in Handles
  BY <1>1, <1>2, ServedHandle
<1>4. \A g \in Handles : file[g].mu # a
  BY <1>1, <1>2 DEF CallsOK
<1>5. file[h] \in File /\ ran[h] \in Seq(Seq(Bytes))
  BY <1>1, <1>3 DEF FilesOK
<1>6. ASSUME NEW errno \in Errnos, Return(a, errno), UNCHANGED <<file, log, ran, failed>>
      PROVE  IInv'
  <2>1. CallsOK'
    BY <1>1, <1>4, <1>6, ReturnKeepsCalls
  <2>2. FilesOK'
    BY <1>1, <1>6 DEF FilesOK, RunState
  <2>3. QED
    BY <2>1, <2>2, TwoHalvesNext
<1>7. CASE ~file[h].wrote /\ Return(a, "ok") /\ UNCHANGED <<file, log, ran, failed>>
  BY <1>6, <1>7 DEF Errnos
<1>8. CASE Return(a, file[h].errno) /\ UNCHANGED <<file, log, ran, failed>>
  BY <1>5, <1>6, <1>8 DEF File
<1>9. CASE /\ file[h].wrote /\ ~file[h].done
           /\ file' = [file EXCEPT ![h].done = TRUE, ![h].mu = a]
           /\ call' = [call EXCEPT ![a].op = "running"]
           /\ ran' = [ran EXCEPT ![h] = Append(@, <<>>)]
           /\ UNCHANGED <<log, failed, reply>>
  <2> DEFINE f == [file[h] EXCEPT !.done = TRUE, !.mu = a]
  <2>1. /\ f \in File /\ f.wrote = file[h].wrote /\ f.done = TRUE
        /\ f.buffer = file[h].buffer /\ f.mu = a
    BY <1>5 DEF File
  <2>2. file' = [file EXCEPT ![h] = f]
    BY <1>3, <1>5, <1>9 DEF File
  <2>3. RunState(h) /\ Holds(file[h].buffer, log[h])
    BY <1>1, <1>3 DEF FilesOK
  <2>4. ran[h] = <<>> /\ log[h] # <<>>
    BY <1>9, <2>3 DEF RunState
  <2> DEFINE r == << <<>> >>
  <2>5. r \in Seq(Seq(Bytes)) /\ Len(r) <= 1 /\ r = Append(ran[h], <<>>)
    BY <1>5, <2>4 DEF File
  <2>10. Reads(r, f.buffer)
    <3>1. Len(r) = 1 /\ Len(r[1]) = 0 /\ Len(f.buffer) \in Nat
      BY <1>5, <2>1 DEF File
    <3>2. QED
      BY <3>1 DEF Reads
  <2>6. /\ ran' = [ran EXCEPT ![h] = r]
        /\ log' = [log EXCEPT ![h] = log[h]] /\ log[h] \in Seq(Writes)
    BY <1>1, <1>3, <1>9, <2>5 DEF FilesOK
  <2> HIDE DEF f, r
  <2>7. FilesOK'
    <3>1. f.wrote <=> log[h] # <<>>
      BY <1>9, <2>1, <2>4
    <3>2. failed[h] \in BOOLEAN /\ failed' = [failed EXCEPT ![h] = failed[h]]
      BY <1>1, <1>3, <1>9, SameFailed
    <3>3. (~f.done => r = <<>>) /\ (r # <<>> => log[h] # <<>>) /\ Holds(f.buffer, log[h])
      BY <2>1, <2>3, <2>4
    <3>4. QED
      BY <1>1, <1>3, <2>1, <2>2, <2>5, <2>6, <2>10, <3>1, <3>2, <3>3, OneFile
  <2>8. CallsOK'
    <3> DEFINE c == [call[a] EXCEPT !.op = "running"]
    <3>1. c \in Call /\ c.op = "running" /\ c.on = h
      BY <1>1 DEF CallsOK, Call
    <3>2. call' = [call EXCEPT ![a] = c]
      BY <1>9
    <3> HIDE DEF c
    <3>3. /\ call' \in [Agents -> Call] /\ reply' \in [Agents -> Errnos \union {"none"}]
          /\ \A b \in Agents : call'[b] = IF b = a THEN c ELSE call[b]
      BY <1>1, <1>9, <3>1, <3>2 DEF CallsOK
    <3>4. \A g \in Handles : file'[g].mu = IF g = h THEN a ELSE file[g].mu
      BY <1>1, <2>1, <2>2 DEF FilesOK
    <3>5. ASSUME NEW g \in Handles, NEW b \in Agents
          PROVE  file'[g].mu = b <=> call'[b].op = "running" /\ call'[b].on = g
      <4>1. file[g].mu = b <=> call[b].op = "running" /\ call[b].on = g
        BY <1>1 DEF CallsOK
      <4>2. CASE b = a
        BY <1>4, <3>1, <3>3, <3>4, <4>2
      <4>3. CASE b # a /\ g = h
        BY <1>2, <3>3, <3>4, <4>1, <4>3, FuseAssumption
      <4>4. CASE b # a /\ g # h
        BY <3>3, <3>4, <4>1, <4>4
      <4>5. QED
        BY <4>2, <4>3, <4>4
    <3>6. ServedFor'
      <4>1. \A b \in Agents : call'[b].on = call[b].on
        BY <3>1, <3>3
      <4>2. \A b \in Agents : call'[b].op = "idle" <=> call[b].op = "idle"
        BY <1>2, <3>1, <3>3
      <4>3. QED
        BY <1>1, <4>1, <4>2 DEF CallsOK, ServedFor, Agents
    <3>7. QED
      BY <3>3, <3>5, <3>6 DEF CallsOK
  <2>9. QED
    BY <2>7, <2>8, TwoHalvesNext
<1>10. QED
  BY <1>7, <1>8, <1>9 DEF Finish, FinishIf

(* One more byte of what a command reads. *)
LEMMA ReadOn ==
  ASSUME NEW buffer \in Seq(Bytes), NEW r \in Seq(Seq(Bytes)), Reads(r, buffer),
         Len(r[1]) < Len(buffer),
         NEW new, new = [r EXCEPT ![1] = Append(@, buffer[Len(r[1]) + 1])]
  PROVE  new \in Seq(Seq(Bytes)) /\ Reads(new, buffer)
<1> DEFINE n == Len(r[1])
           p == Append(r[1], buffer[n + 1])
<1>1. Len(r) = 1 /\ r[1] \in Seq(Bytes)
  <2>1. Len(r) = 1 /\ 1 \in 1..Len(r)
    BY DEF Reads
  <2>2. QED
    BY <2>1, ElementOfSeq
<1>2. n \in Nat /\ Len(buffer) \in Nat
  BY <1>1
<1>3. n + 1 \in 1..Len(buffer)
  BY <1>2
<1>4. buffer[n + 1] \in Bytes
  BY <1>3, ElementOfSeq
<1>5. /\ p \in Seq(Bytes) /\ Len(p) = n + 1 /\ p[n + 1] = buffer[n + 1]
      /\ \A i \in 1..n : p[i] = r[1][i]
  BY <1>1, <1>4
<1>6. \A i \in 1..n : r[1][i] = buffer[i]
  BY DEF Reads
<1> HIDE DEF p
<1>7. new = <<p>>
  BY <1>1 DEF p
<1> HIDE DEF n
<1>8. new \in Seq(Seq(Bytes)) /\ Len(new) = 1 /\ new[1] = p
  BY <1>5, <1>7
<1>9. \A i \in 1..Len(p) : p[i] = buffer[i]
  BY <1>2, <1>5, <1>6
<1>10. QED
  BY <1>2, <1>3, <1>5, <1>8, <1>9 DEF Reads

(* A command that runs is a handle's, and reads what Reads says. *)
LEMMA RunningReads ==
  ASSUME CallsOK, FilesOK, NEW a \in Agents, call[a].op = "running",
         NEW h, h = call[a].on
  PROVE  /\ h \in Handles /\ file[h].mu = a /\ a # NoOne
         /\ Reads(ran[h], file[h].buffer) /\ ran[h] # <<>> /\ log[h] # <<>>
         /\ Len(ran[h]) = 1
<1>1. h \in Handles
  BY ServedHandle
<1>2. file[h].mu = a /\ a # NoOne
  BY <1>1, FuseAssumption DEF CallsOK
<1>3. RunState(h)
  BY <1>1 DEF FilesOK
<1>4. Reads(ran[h], file[h].buffer)
  BY <1>2, <1>3 DEF RunState
<1>5. Len(ran[h]) = 1 /\ ran[h] # <<>>
  BY <1>4 DEF Reads
<1>6. QED
  BY <1>1, <1>2, <1>3, <1>4, <1>5 DEF RunState

LEMMA ReadStep ==
  ASSUME IInv, NEW a \in Agents, Read(a)
  PROVE  /\ IInv'
         /\ \E h \in Handles, r \in Seq(Seq(Bytes)) :
              /\ h = call[a].on /\ file[h].mu = a /\ a # NoOne
              /\ ran' = [ran EXCEPT ![h] = r] /\ Reads(r, file[h].buffer)
              /\ log[h] # <<>>
<1> DEFINE h == call[a].on
<1>1. CallsOK /\ FilesOK
  BY TwoHalves
<1>2. /\ call[a].op = "running" /\ UNCHANGED <<file, call, log, failed, reply>>
      /\ Len(ran[h][Len(ran[h])]) < Len(file[h].buffer)
      /\ ran' = [ran EXCEPT ![h][Len(ran[h])] =
                               Append(@, file[h].buffer[Len(ran[h][Len(ran[h])]) + 1])]
  BY DEF Read
<1>3. /\ h \in Handles /\ file[h].mu = a /\ a # NoOne
      /\ Reads(ran[h], file[h].buffer) /\ ran[h] # <<>> /\ log[h] # <<>>
      /\ Len(ran[h]) = 1
  BY <1>1, <1>2, RunningReads
<1>4. /\ file[h] \in File /\ file[h].buffer \in Seq(Bytes)
      /\ ran[h] \in Seq(Seq(Bytes)) /\ log[h] \in Seq(Writes) /\ failed[h] \in BOOLEAN
  BY <1>1, <1>3 DEF FilesOK, File
<1> DEFINE r == [ran[h] EXCEPT ![1] = Append(@, file[h].buffer[Len(ran[h][1]) + 1])]
<1>5. r \in Seq(Seq(Bytes)) /\ Reads(r, file[h].buffer)
  BY <1>2, <1>3, <1>4, ReadOn
<1>6. ran' = [ran EXCEPT ![h] = r]
  BY <1>1, <1>2, <1>3 DEF FilesOK
<1> HIDE DEF r
<1>7. FilesOK'
  <2>1. /\ file' = [file EXCEPT ![h] = file[h]] /\ log' = [log EXCEPT ![h] = log[h]]
        /\ failed' = [failed EXCEPT ![h] = failed[h]]
    BY <1>1, <1>2 DEF FilesOK
  <2>2. RunState(h) /\ Holds(file[h].buffer, log[h])
    BY <1>1, <1>3 DEF FilesOK
  <2>3. /\ file[h].wrote <=> log[h] # <<>>
        /\ ~file[h].done => r = <<>>
    BY <1>3, <2>2 DEF RunState
  <2>4. Len(r) <= 1
    BY <1>5 DEF Reads
  <2>5. QED
    BY <1>1, <1>3, <1>4, <1>5, <1>6, <2>1, <2>2, <2>3, <2>4, OneFile
<1>8. CallsOK'
  BY <1>1, <1>2 DEF CallsOK, ServedFor
<1>9. QED
  BY <1>3, <1>5, <1>6, <1>7, <1>8, TwoHalvesNext

LEMMA RanStep ==
  ASSUME IInv, NEW a \in Agents, Ran(a)
  PROVE  IInv'
<1> DEFINE h == call[a].on
<1>1. CallsOK /\ FilesOK
  BY TwoHalves
<1>2. PICK errno \in Errnos :
        /\ call[a].op = "running"
        /\ file' = [file EXCEPT ![h].errno = errno, ![h].mu = NoOne]
        /\ failed' = [failed EXCEPT ![h] = errno # "ok"]
        /\ Return(a, errno)
        /\ UNCHANGED <<log, ran>>
  BY DEF Ran, RanWith
<1>3. h \in Handles
  BY <1>1, <1>2, ServedHandle
<1> DEFINE f == [file[h] EXCEPT !.errno = errno, !.mu = NoOne]
<1>4. file[h] \in File
  BY <1>1, <1>3 DEF FilesOK
<1>5. /\ f \in File /\ f.wrote = file[h].wrote /\ f.done = file[h].done
      /\ f.buffer = file[h].buffer /\ f.mu = NoOne
  BY <1>4 DEF File
<1>6. file' = [file EXCEPT ![h] = f]
  BY <1>2, <1>3, <1>4 DEF File
<1> HIDE DEF f
<1>7. FilesOK'
  BY <1>1, <1>2, <1>3, <1>5, <1>6, SameFiles
<1>8. CallsOK'
  <2>1. ASSUME NEW g \in Handles
        PROVE  file'[g].mu = IF file[g].mu = a THEN NoOne ELSE file[g].mu
    <3>1. file[g].mu = a <=> g = h
      BY <1>1, <1>2 DEF CallsOK
    <3>2. file'[g].mu = IF g = h THEN NoOne ELSE file[g].mu
      BY <1>1, <1>5, <1>6 DEF FilesOK
    <3>3. QED
      BY <3>1, <3>2
  <2>2. QED
    BY <1>1, <1>2, <2>1, ReturnKeepsCalls
<1>9. QED
  BY <1>7, <1>8, TwoHalvesNext

-----------------------------------------------------------------------------
(* Every step keeps the inductive invariant. *)
THEOREM NextIInv == IInv /\ [Next]_vars => IInv'
<1> SUFFICES ASSUME IInv, [Next]_vars PROVE IInv'
  OBVIOUS
<1>1. ASSUME NEW h \in Handles, Open(h) PROVE IInv'
  BY <1>1, OpenStep
<1>2. ASSUME NEW h \in Handles, Dup(h) PROVE IInv'
  BY <1>2, DupStep
<1>3. ASSUME NEW h \in Handles, SendRelease(h) PROVE IInv'
  BY <1>3, SendReleaseStep
<1>4. ASSUME NEW a \in Callers, NEW h \in Handles, SendFlush(a, h) PROVE IInv'
  BY <1>4, SendFlushStep
<1>5. ASSUME NEW a \in Callers, NEW h \in Handles, NEW w \in Writes, SendWrite(a, h, w)
      PROVE  IInv'
  BY <1>5, SendWriteStep
<1>6. ASSUME NEW a \in Agents, TakeWrite(a) PROVE IInv'
  BY <1>6, TakeWriteStep
<1>7. ASSUME NEW a \in Agents, Finish(a) PROVE IInv'
  BY <1>7, FinishStep
<1>8. ASSUME NEW a \in Agents, Ran(a) PROVE IInv'
  BY <1>8, RanStep
<1>11. ASSUME NEW a \in Agents, Read(a) PROVE IInv'
  BY <1>11, ReadStep
<1>9. CASE UNCHANGED vars
  <2>1. UNCHANGED <<file, call, log, ran, failed, reply>>
    BY <1>9 DEF vars, hist
  <2>2. CallsOK' /\ FilesOK'
    BY <2>1, TwoHalves DEF CallsOK, FilesOK, ServedFor, RunState
  <2>3. QED
    BY <2>2, TwoHalvesNext
<1>10. QED
  BY <1>1, <1>2, <1>3, <1>4, <1>5, <1>6, <1>7, <1>8, <1>9, <1>11 DEF Next, Serve

(* The inductive invariant holds of every behaviour. *)
THEOREM Invariance == Spec => []IInv
BY InitIInv, NextIInv, PTL DEF Spec

(* Every variable keeps its type, and a handle's mutex is held by the      *)
(* goroutine that runs its command and by no other.                        *)
THEOREM TypeCorrect == Spec => []TypeOK
<1>1. IInv => TypeOK
  BY DEF IInv
<1>2. QED
  BY <1>1, Invariance, PTL

(* The command of an open file runs at most once, and not before something *)
(* was written, however many descriptors are closed and in whatever order  *)
(* the Flushes and the Release are served.                                 *)
THEOREM RunsOnce == Spec => []RunsAtMostOnce
<1>1. IInv => RunsAtMostOnce
  BY DEF IInv, RunState, RunsAtMostOnce
<1>2. QED
  BY <1>1, Invariance, PTL

(* The buffer is always the file that the answered writes make: each byte  *)
(* is the last write's, holes are zero, and nothing is missing at its end. *)
THEOREM BufferCorrect == Spec => []BufferIsTheFile
<1>1. IInv => BufferIsTheFile
  BY DEF IInv
<1>2. QED
  BY <1>1, Invariance, PTL
-----------------------------------------------------------------------------
(* What a step does to a handle's writes and runs: nothing, nothing but a  *)
(* write, a read of the command that runs, or that command's end.          *)
SameRun(h) ==
  /\ ran'[h] = ran[h] /\ failed'[h] = failed[h] /\ file'[h].mu = file[h].mu

HandleStep(h) ==
  \/ log'[h] = log[h] /\ SameRun(h)
  \/ ran'[h] = <<>>
  \/ SameRun(h) /\ \E w \in Writes : log'[h] = Append(log[h], w)
  \/ /\ log'[h] = log[h] /\ log[h] # <<>> /\ file'[h].mu # NoOne
     /\ Reads(ran'[h], file[h].buffer)
  \/ /\ log'[h] = log[h] /\ log[h] # <<>> /\ ran'[h] = ran[h]
     /\ Reads(ran[h], file[h].buffer)
     /\ failed'[h] \/ Len(ran[h][1]) >= Len(file[h].buffer)

(* A step that leaves a handle's run alone, whatever it does to the rest.  *)
LEMMA OtherHandle ==
  ASSUME FilesOK, NEW h \in Handles, NEW g \in Handles,
         \/ UNCHANGED <<file, ran, failed>>
         \/ \E f : /\ f.mu = file[g].mu /\ file' = [file EXCEPT ![g] = f]
                   /\ UNCHANGED <<ran, failed>>
         \/ g # h /\ \E f, r, x : /\ file' = [file EXCEPT ![g] = f]
                                  /\ ran' = [ran EXCEPT ![g] = r]
                                  /\ failed' = [failed EXCEPT ![g] = x]
  PROVE  SameRun(h)
BY DEF FilesOK, SameRun

LEMMA KernelOfHandles ==
  ASSUME IInv, NEW h \in Handles, NEW g \in Handles,
         \/ Open(g) \/ Dup(g) \/ SendRelease(g)
         \/ \E a \in Callers : SendFlush(a, g) \/ \E w \in Writes : SendWrite(a, g, w)
  PROVE  HandleStep(h)
<1>1. CallsOK /\ FilesOK
  BY TwoHalves
<1>2. file[g] \in File
  BY <1>1 DEF FilesOK
<1>3. CASE Open(g)
  <2>1. /\ log' = [log EXCEPT ![g] = <<>>] /\ ran' = [ran EXCEPT ![g] = <<>>]
        /\ file' = [file EXCEPT ![g] = NewFile(TRUE)]
        /\ failed' = [failed EXCEPT ![g] = FALSE]
    BY <1>3 DEF Open
  <2>2. CASE g = h
    BY <1>1, <2>1, <2>2 DEF FilesOK, HandleStep
  <2>3. CASE g # h
    <3>1. SameRun(h)
      BY <1>1, <2>1, <2>3, OtherHandle
    <3>2. log'[h] = log[h]
      BY <1>1, <2>1, <2>3 DEF FilesOK
    <3>3. QED
      BY <3>1, <3>2 DEF HandleStep
  <2>4. QED
    BY <2>2, <2>3
<1>4. ASSUME UNCHANGED <<log, ran, failed>>,
             \/ file' = file
             \/ file' = [file EXCEPT ![g].refs = @ + 1]
             \/ file' = [file EXCEPT ![g].refs = @ - 1]
             \/ file' = [file EXCEPT ![g].open = FALSE]
      PROVE  HandleStep(h)
  <2>1. file'[h].mu = file[h].mu
    <3>1. file \in [Handles -> File]
      BY <1>1 DEF FilesOK
    <3>2. CASE g = h
      BY <1>4, <3>1, <3>2 DEF File
    <3>3. CASE g # h
      BY <1>4, <3>1, <3>3
    <3>4. QED
      BY <3>2, <3>3
  <2>2. QED
    BY <1>4, <2>1 DEF HandleStep, SameRun
<1>5. QED
  BY <1>3, <1>4 DEF Dup, SendRelease, SendFlush, SendWrite, hist

LEMMA ServeOfHandles ==
  ASSUME IInv, NEW h \in Handles, NEW a \in Agents, Serve(a)
  PROVE  HandleStep(h)
<1>1. CallsOK /\ FilesOK
  BY TwoHalves
<1>2. /\ log[h] \in Seq(Writes) /\ ran[h] \in Seq(Seq(Bytes)) /\ RunState(h)
      /\ file[h] \in File /\ file[h].buffer \in Seq(Bytes)
  BY <1>1 DEF FilesOK, File
<1>3. PICK g \in Handles : g = call[a].on
  BY <1>1, ServedHandle DEF Serve, TakeWrite, Finish, FinishIf, Read, Ran, RanWith
<1>4. CASE TakeWrite(a)
  <2> DEFINE w == call[a].write
  <2>1. /\ log' = [log EXCEPT ![g] = Append(@, w)] /\ UNCHANGED <<ran, failed>>
        /\ file' = [file EXCEPT ![g].wrote = TRUE, ![g].buffer = Overlay(@, w)]
    BY <1>3, <1>4 DEF TakeWrite
  <2>2. w \in Writes
    BY <1>1 DEF CallsOK, Call
  <2>3. SameRun(h)
    BY <1>1, <2>1 DEF FilesOK, File, SameRun
  <2>4. CASE g = h
    BY <1>1, <2>1, <2>2, <2>3, <2>4 DEF FilesOK, HandleStep
  <2>5. CASE g # h
    BY <1>1, <2>1, <2>3, <2>5 DEF FilesOK, HandleStep
  <2>6. QED
    BY <2>4, <2>5
<1>5. CASE Finish(a)
  <2>1. CASE UNCHANGED <<file, log, ran, failed>>
    BY <2>1 DEF HandleStep, SameRun
  <2>2. CASE /\ file[g].wrote /\ ~file[g].done
             /\ file' = [file EXCEPT ![g].done = TRUE, ![g].mu = a]
             /\ ran' = [ran EXCEPT ![g] = Append(@, <<>>)]
             /\ UNCHANGED <<log, failed>>
    <3>1. CASE g = h
      <4>1. ran[h] = <<>> /\ log[h] # <<>>
        BY <1>2, <2>2, <3>1 DEF RunState
      <4>2. ran'[h] = Append(ran[h], <<>>) /\ file'[h].mu = a /\ a # NoOne
        BY <1>1, <1>2, <2>2, <3>1, FuseAssumption DEF FilesOK, File
      <4>3. ran'[h] = << <<>> >>
        BY <4>1, <4>2
      <4>4. Reads(ran'[h], file[h].buffer)
        <5>1. Len(ran'[h]) = 1 /\ Len(ran'[h][1]) = 0 /\ Len(file[h].buffer) \in Nat
          BY <1>2, <4>3
        <5>2. QED
          BY <5>1 DEF Reads
      <4>5. QED
        BY <2>2, <4>1, <4>2, <4>4 DEF HandleStep
    <3>2. CASE g # h
      BY <1>1, <2>2, <3>2 DEF FilesOK, HandleStep, SameRun
    <3>3. QED
      BY <3>1, <3>2
  <2>3. QED
    BY <1>3, <1>5, <2>1, <2>2 DEF Finish, FinishIf
<1>6. CASE Read(a)
  <2>1. PICK r \in Seq(Seq(Bytes)) :
          /\ file[g].mu = a /\ a # NoOne
          /\ ran' = [ran EXCEPT ![g] = r] /\ Reads(r, file[g].buffer)
          /\ log[g] # <<>>
    BY <1>3, <1>6, ReadStep
  <2>2. UNCHANGED <<file, log, failed>>
    BY <1>6 DEF Read
  <2>3. CASE g = h
    BY <1>1, <2>1, <2>2, <2>3 DEF FilesOK, HandleStep
  <2>4. CASE g # h
    BY <1>1, <2>1, <2>2, <2>4 DEF FilesOK, HandleStep, SameRun
  <2>5. QED
    BY <2>3, <2>4
<1>7. CASE Ran(a)
  <2>1. PICK errno \in Errnos :
          /\ errno = "ok" => Len(ran[g][Len(ran[g])]) >= Len(file[g].buffer)
          /\ file' = [file EXCEPT ![g].errno = errno, ![g].mu = NoOne]
          /\ failed' = [failed EXCEPT ![g] = errno # "ok"]
          /\ UNCHANGED <<log, ran>>
    BY <1>3, <1>7 DEF Ran, RanWith
  <2>2. Reads(ran[g], file[g].buffer) /\ log[g] # <<>> /\ Len(ran[g]) = 1
    BY <1>1, <1>3, <1>7, RunningReads DEF Ran, RanWith
  <2>3. CASE g = h
    BY <1>1, <2>1, <2>2, <2>3 DEF FilesOK, HandleStep
  <2>4. CASE g # h
    BY <1>1, <2>1, <2>4 DEF FilesOK, HandleStep, SameRun
  <2>5. QED
    BY <2>3, <2>4
<1>8. QED
  BY <1>4, <1>5, <1>6, <1>7 DEF Serve

LEMMA StepOfHandles ==
  ASSUME IInv, [Next]_vars, NEW h \in Handles
  PROVE  HandleStep(h)
<1>1. CASE UNCHANGED vars
  BY <1>1 DEF vars, hist, HandleStep, SameRun
<1>2. QED
  BY <1>1, KernelOfHandles, ServeOfHandles DEF Next

(* A log's beginning stays when it grows, and its beginning of full length *)
(* is the log.                                                             *)
LEMMA Beginnings ==
  ASSUME NEW l \in Seq(Writes), NEW w \in Writes
  PROVE  /\ Len(l) \in Nat /\ Len(Append(l, w)) = Len(l) + 1
         /\ \A k \in 1..Len(l) : SubSeq(Append(l, w), 1, k) = SubSeq(l, 1, k)
         /\ SubSeq(l, 1, Len(l)) = l
         /\ l # <<>> => Len(l) \in 1..Len(l)
<1>1. Len(l) \in Nat /\ Len(Append(l, w)) = Len(l) + 1
  OBVIOUS
<1>2. \A k \in 1..Len(l) : SubSeq(Append(l, w), 1, k) = SubSeq(l, 1, k)
  OBVIOUS
<1>3. SubSeq(l, 1, Len(l)) = l
  OBVIOUS
<1>4. l # <<>> => Len(l) \in 1..Len(l)
  BY <1>1, EmptySeq
<1>5. QED
  BY <1>1, <1>2, <1>3, <1>4

(* A payload that a command has read is laid from the first so many writes *)
(* and, when "whole", is all of what they make.                            *)
ReadOf(p, l, whole) ==
  \E k \in 1..Len(l) :
    Laid(p, SubSeq(l, 1, k)) /\ (whole => Holds(p, SubSeq(l, 1, k)))

Whole(h) ==
  \A n \in 1..Len(ran[h]) : ReadOf(ran[h][n], log[h], file[h].mu = NoOne /\ ~failed[h])

(* The handle's mutex is held while and only while its command runs. *)
LEMMA MutexRunning ==
  ASSUME NEW h \in Handles
  PROVE  /\ IInv => (Running(h) <=> file[h].mu # NoOne)
         /\ IInv' => (Running(h)' <=> file'[h].mu # NoOne)
<1>1. IInv => (Running(h) <=> file[h].mu # NoOne)
  BY FuseAssumption DEF IInv, TypeOK, File, Running
<1>2. IInv' => (Running(h)' <=> file'[h].mu # NoOne)
  BY FuseAssumption DEF IInv, TypeOK, File, Running
<1>3. QED
  BY <1>1, <1>2

LEMMA AllWhole ==
  /\ IInv => (RunsWholeWrites <=> \A h \in Handles : Whole(h))
  /\ IInv' => (RunsWholeWrites' <=> \A h \in Handles : Whole(h)')
<1>1. IInv => (RunsWholeWrites <=> \A h \in Handles : Whole(h))
  BY MutexRunning DEF RunsWholeWrites, Whole, ReadOf
<1>2. IInv' => (RunsWholeWrites' <=> \A h \in Handles : Whole(h)')
  BY MutexRunning DEF RunsWholeWrites, Whole, ReadOf
<1>3. QED
  BY <1>1, <1>2

(* What a command has read of a buffer is laid from the writes the buffer  *)
(* holds, and is the buffer when none of its bytes is left.                *)
LEMMA ReadIsLaid ==
  ASSUME NEW buffer \in Seq(Bytes), NEW l \in Seq(Writes), Holds(buffer, l), l # <<>>,
         NEW r \in Seq(Seq(Bytes)), Reads(r, buffer),
         NEW n \in 1..Len(r), NEW whole \in BOOLEAN,
         whole => Len(r[1]) >= Len(buffer)
  PROVE  ReadOf(r[n], l, whole)
<1> DEFINE p == r[1]
<1>1. n = 1 /\ p \in Seq(Bytes) /\ Len(p) \in Nat /\ Len(buffer) \in Nat
  <2>1. Len(r) = 1 /\ 1 \in 1..Len(r)
    BY DEF Reads
  <2>2. p \in Seq(Bytes)
    BY <2>1, ElementOfSeq
  <2>3. QED
    BY <2>1, <2>2
<1>2. Len(p) <= Len(buffer) /\ \A i \in 1..Len(p) : p[i] = buffer[i]
  BY DEF Reads
<1> HIDE DEF p
<1>3. SubSeq(l, 1, Len(l)) = l /\ Len(l) \in 1..Len(l)
  BY Beginnings, NoCallType
<1>4. Laid(p, l)
  <2>1. Laid(buffer, l)
    BY DEF Holds
  <2>2. \A i \in 1..Len(p) : i \in 1..Len(buffer)
    BY <1>1, <1>2
  <2>3. QED
    BY <1>2, <2>1, <2>2 DEF Laid
<1>5. ASSUME whole PROVE Holds(p, l)
  <2>1. Len(p) = Len(buffer)
    BY <1>1, <1>2, <1>5 DEF p
  <2>2. p = buffer
    BY <1>1, <1>2, <2>1
  <2>3. QED
    BY <2>2
<1>6. QED
  BY <1>1, <1>3, <1>4, <1>5 DEF ReadOf, p

LEMMA WholeStep == IInv /\ RunsWholeWrites /\ [Next]_vars => RunsWholeWrites'
<1> SUFFICES ASSUME IInv, RunsWholeWrites, [Next]_vars, NEW h \in Handles,
                    NEW n \in 1..Len(ran'[h])
             PROVE  ReadOf(ran'[h][n], log'[h], file'[h].mu = NoOne /\ ~failed'[h])
  BY NextIInv, AllWhole DEF Whole
<1> DEFINE whole == file'[h].mu = NoOne /\ ~failed'[h]
<1>1. /\ log[h] \in Seq(Writes) /\ Holds(file[h].buffer, log[h])
      /\ file[h].buffer \in Seq(Bytes) /\ ran[h] \in Seq(Seq(Bytes))
  BY TwoHalves DEF FilesOK, File
<1>2. ran'[h] \in Seq(Seq(Bytes)) /\ whole \in BOOLEAN
  BY NextIInv DEF IInv, TypeOK
<1>3. \A i \in 1..Len(ran[h]) :
        ReadOf(ran[h][i], log[h], file[h].mu = NoOne /\ ~failed[h])
  BY AllWhole DEF Whole
<1>4. CASE log'[h] = log[h] /\ SameRun(h)
  BY <1>3, <1>4 DEF SameRun
<1>5. CASE ran'[h] = <<>>
  BY <1>5
<1>6. CASE SameRun(h) /\ \E w \in Writes : log'[h] = Append(log[h], w)
  <2>1. PICK w \in Writes : log'[h] = Append(log[h], w)
    BY <1>6
  <2>2. ReadOf(ran'[h][n], log[h], whole)
    BY <1>3, <1>6 DEF SameRun
  <2>3. PICK k \in 1..Len(log[h]) :
          /\ Laid(ran'[h][n], SubSeq(log[h], 1, k))
          /\ whole => Holds(ran'[h][n], SubSeq(log[h], 1, k))
    BY <2>2 DEF ReadOf
  <2>4. k \in 1..Len(log'[h]) /\ SubSeq(log'[h], 1, k) = SubSeq(log[h], 1, k)
    BY <1>1, <2>1, Beginnings
  <2>5. QED
    BY <2>3, <2>4 DEF ReadOf
<1>7. CASE /\ log'[h] = log[h] /\ log[h] # <<>> /\ file'[h].mu # NoOne
           /\ Reads(ran'[h], file[h].buffer)
  BY <1>1, <1>2, <1>7, ReadIsLaid
<1>8. CASE /\ log'[h] = log[h] /\ log[h] # <<>> /\ ran'[h] = ran[h]
           /\ Reads(ran[h], file[h].buffer)
           /\ failed'[h] \/ Len(ran[h][1]) >= Len(file[h].buffer)
  BY <1>1, <1>2, <1>8, ReadIsLaid
<1>9. QED
  BY <1>4, <1>5, <1>6, <1>7, <1>8, StepOfHandles DEF HandleStep

(* What a handle's command has read at any moment of its run is laid from  *)
(* whole writes, the first of those that were answered, and is all of them *)
(* when it did not fail: no write of another thread tears it.              *)
THEOREM WholeWrites == Spec => []RunsWholeWrites
<1>1. Init => RunsWholeWrites
  <2>1. Init => \A h \in Handles : Len(ran[h]) = 0
    BY DEF Init
  <2>2. QED
    BY <2>1 DEF RunsWholeWrites
<1>2. QED
  BY <1>1, WholeStep, Invariance, PTL DEF Spec

-----------------------------------------------------------------------------
(* The error a handle keeps is its command's, "done" says that it ran, and *)
(* the mutex is kept only after that; a request in progress has no reply.  *)
KeptError(h) ==
  /\ failed[h] <=> file[h].errno # "ok"
  /\ file[h].done => ran[h] # <<>>
  /\ file[h].mu # NoOne => file[h].done

NoReplyYet(a) == call[a].op # "idle" => reply[a] = "none"

Answers == (\A h \in Handles : KeptError(h)) /\ (\A a \in Agents : NoReplyYet(a))

(* What the steps do to the replies. *)
LEMMA RepliesStep ==
  ASSUME IInv, NEW a \in Agents, \A b \in Agents : NoReplyYet(b),
         \/ \E op, h, w : Ask(a, op, h, w)
         \/ \E errno : Return(a, errno)
         \/ UNCHANGED reply /\ \E c : call[a].op # "idle" /\ call' = [call EXCEPT ![a] = c]
         \/ UNCHANGED <<call, reply>>
  PROVE  \A b \in Agents : NoReplyYet(b)'
<1> SUFFICES ASSUME NEW b \in Agents PROVE NoReplyYet(b)'
  OBVIOUS
<1>1. call \in [Agents -> Call] /\ reply \in [Agents -> Errnos \union {"none"}]
  BY DEF IInv, TypeOK
<1>2. NoReplyYet(b) /\ NoReplyYet(a)
  OBVIOUS
<1>3. CASE \E op, h, w : Ask(a, op, h, w)
  BY <1>1, <1>2, <1>3 DEF Ask, NoReplyYet
<1>4. CASE \E errno : Return(a, errno)
  BY <1>1, <1>2, <1>4, NoCallType DEF Return, NoReplyYet
<1>5. CASE UNCHANGED reply /\ \E c : call[a].op # "idle" /\ call' = [call EXCEPT ![a] = c]
  BY <1>1, <1>2, <1>5 DEF NoReplyYet
<1>6. CASE UNCHANGED <<call, reply>>
  BY <1>2, <1>6 DEF NoReplyYet
<1>7. QED
  BY <1>3, <1>4, <1>5, <1>6

(* A step that leaves the errors alone. *)
SameAnswer(h) ==
  /\ file'[h].errno = file[h].errno /\ file'[h].done = file[h].done
  /\ file'[h].mu = file[h].mu

LEMMA ErrorsKept ==
  ASSUME \A h \in Handles : KeptError(h), UNCHANGED <<ran, failed>>,
         \A h \in Handles : SameAnswer(h)
  PROVE  \A h \in Handles : KeptError(h)'
BY DEF KeptError, SameAnswer

LEMMA KernelAnswers ==
  ASSUME IInv, Answers, NEW h \in Handles,
         \/ Open(h) \/ Dup(h) \/ SendRelease(h)
         \/ \E a \in Callers : SendFlush(a, h) \/ \E w \in Writes : SendWrite(a, h, w)
  PROVE  Answers'
<1>1. file \in [Handles -> File]
  BY DEF IInv, TypeOK
<1>2. CASE Open(h)
  <2>1. /\ \A g \in Handles \ {h} : file'[g] = file[g] /\ ran'[g] = ran[g] /\ failed'[g] = failed[g]
        /\ file'[h] = NewFile(TRUE) /\ failed'[h] = FALSE
        /\ UNCHANGED <<call, reply>>
    BY <1>2 DEF Open, IInv, TypeOK
  <2>2. NewFile(TRUE).errno = "ok" /\ ~NewFile(TRUE).done /\ NewFile(TRUE).mu = NoOne
    BY DEF NewFile
  <2>3. \A g \in Handles : KeptError(g)'
    BY <2>1, <2>2 DEF Answers, KeptError
  <2>4. QED
    BY <2>1, <2>3 DEF Answers, NoReplyYet
<1>3. CASE Dup(h)
  <2>1. /\ UNCHANGED <<call, log, ran, failed, reply>>
        /\ \A g \in Handles : SameAnswer(g)
    BY <1>1, <1>3 DEF Dup, hist, File, SameAnswer
  <2>2. \A g \in Handles : KeptError(g)'
    BY <2>1, ErrorsKept DEF Answers
  <2>3. QED
    BY <2>1, <2>2 DEF Answers, NoReplyYet
<1>4. CASE SendRelease(h)
  <2>1. /\ UNCHANGED <<ran, failed>>
        /\ \A g \in Handles : SameAnswer(g)
    BY <1>1, <1>4 DEF SendRelease, File, SameAnswer
  <2>2. h \in Agents /\ Ask(h, "finish", h, AnyWrite)
    BY <1>4 DEF SendRelease, Agents
  <2>3. QED
    BY <2>1, <2>2, ErrorsKept, RepliesStep DEF Answers
<1>5. ASSUME NEW a \in Callers, SendFlush(a, h) \/ \E w \in Writes : SendWrite(a, h, w)
      PROVE  Answers'
  <2>1. /\ UNCHANGED <<ran, failed>>
        /\ file' = file \/ file' = [file EXCEPT ![h].refs = @ - 1]
    BY <1>5 DEF SendFlush, SendWrite
  <2>3. \A g \in Handles : SameAnswer(g)
    <3>1. CASE file' = file
      BY <3>1 DEF SameAnswer
    <3>2. CASE file' = [file EXCEPT ![h].refs = @ - 1]
      BY <1>1, <3>2 DEF File, SameAnswer
    <3>3. QED
      BY <2>1, <3>1, <3>2
  <2>2. a \in Agents /\ \E op, g, w : Ask(a, op, g, w)
    BY <1>5 DEF SendFlush, SendWrite, Agents
  <2>4. QED
    BY <2>1, <2>2, <2>3, ErrorsKept, RepliesStep DEF Answers
<1>6. QED
  BY <1>2, <1>3, <1>4, <1>5

LEMMA ServeAnswers ==
  ASSUME IInv, Answers, NEW a \in Agents, Serve(a)
  PROVE  Answers'
<1>1. /\ file \in [Handles -> File] /\ ran \in [Handles -> Seq(Seq(Bytes))]
      /\ failed \in [Handles -> BOOLEAN]
  BY DEF IInv, TypeOK
<1>2. call[a].op # "idle" /\ CallsOK
  BY TwoHalves DEF Serve, TakeWrite, Finish, FinishIf, Read, Ran, RanWith
<1>3. PICK h \in Handles : h = call[a].on
  BY <1>2, ServedHandle
<1>4. CASE TakeWrite(a)
  <2>1. /\ UNCHANGED <<ran, failed>> /\ Return(a, "ok")
        /\ file' = [file EXCEPT ![h].wrote = TRUE, ![h].buffer = Overlay(@, call[a].write)]
    BY <1>3, <1>4 DEF TakeWrite
  <2>2. \A g \in Handles : SameAnswer(g)
    BY <1>1, <2>1 DEF File, SameAnswer
  <2>3. QED
    BY <2>1, <2>2, ErrorsKept, RepliesStep DEF Answers
<1>5. CASE Finish(a)
  <2>1. CASE \E errno : Return(a, errno) /\ UNCHANGED <<file, log, ran, failed>>
    <3>1. \A g \in Handles : SameAnswer(g)
      BY <2>1 DEF SameAnswer
    <3>2. QED
      BY <2>1, <3>1, ErrorsKept, RepliesStep DEF Answers
  <2>2. CASE /\ file' = [file EXCEPT ![h].done = TRUE, ![h].mu = a]
             /\ call' = [call EXCEPT ![a].op = "running"]
             /\ ran' = [ran EXCEPT ![h] = Append(@, <<>>)]
             /\ UNCHANGED <<log, failed, reply>>
    <3>1. \E c : call' = [call EXCEPT ![a] = c]
      BY <2>2
    <3>2. \A b \in Agents : NoReplyYet(b)'
      BY <1>2, <2>2, <3>1, RepliesStep DEF Answers
    <3>3. \A g \in Handles \ {h} : KeptError(g)'
      BY <1>1, <2>2 DEF Answers, KeptError
    <3>4. ran'[h] # <<>>
      <4>1. ran[h] \in Seq(Seq(Bytes)) /\ ran'[h] = Append(ran[h], <<>>)
        BY <1>1, <1>3, <2>2
      <4>2. Len(ran'[h]) = Len(ran[h]) + 1 /\ Len(ran[h]) \in Nat
        BY <4>1
      <4>3. QED
        BY <4>2
    <3>5. /\ file'[h].errno = file[h].errno /\ failed'[h] = failed[h]
          /\ file'[h].done
      BY <1>1, <1>3, <2>2 DEF File
    <3>6. KeptError(h)'
      BY <1>3, <3>4, <3>5 DEF Answers, KeptError
    <3>7. QED
      BY <3>2, <3>3, <3>6 DEF Answers
  <2>3. QED
    BY <1>3, <1>5, <2>1, <2>2 DEF Finish, FinishIf
<1>6. CASE Ran(a)
  <2>1. PICK errno \in Errnos :
          /\ file' = [file EXCEPT ![h].errno = errno, ![h].mu = NoOne]
          /\ failed' = [failed EXCEPT ![h] = errno # "ok"]
          /\ Return(a, errno)
          /\ UNCHANGED <<log, ran>>
    BY <1>3, <1>6 DEF Ran, RanWith
  <2>2. \A g \in Handles \ {h} : KeptError(g)'
    BY <1>1, <2>1 DEF Answers, KeptError
  <2>3. /\ file'[h].errno = errno /\ file'[h].done = file[h].done
        /\ file'[h].mu = NoOne /\ failed'[h] = (errno # "ok")
    BY <1>1, <1>3, <2>1 DEF File
  <2>4. KeptError(h)'
    BY <1>3, <2>1, <2>3 DEF Answers, KeptError
  <2>5. QED
    BY <2>1, <2>2, <2>4, RepliesStep DEF Answers
<1>8. CASE Read(a)
  <2>1. /\ UNCHANGED <<file, call, failed, reply>>
        /\ \E g \in Handles, r \in Seq(Seq(Bytes)) :
             ran' = [ran EXCEPT ![g] = r] /\ Reads(r, file[g].buffer)
    BY <1>8, ReadStep DEF Read
  <2>2. \A g \in Handles : ran[g] # <<>> => ran'[g] # <<>>
    <3>1. PICK g \in Handles, r \in Seq(Seq(Bytes)) :
            ran' = [ran EXCEPT ![g] = r] /\ Reads(r, file[g].buffer)
      BY <2>1
    <3>2. Len(r) = 1
      BY <3>1 DEF Reads
    <3>3. r # <<>>
      <4>1. ASSUME r = <<>> PROVE Len(r) = 0
        BY <4>1
      <4>2. QED
        BY <3>2, <4>1
    <3>4. QED
      BY <1>1, <3>1, <3>3
  <2>3. QED
    BY <2>1, <2>2 DEF Answers, KeptError, NoReplyYet
<1>7. QED
  BY <1>4, <1>5, <1>6, <1>8 DEF Serve

LEMMA AnswersStep == IInv /\ Answers /\ [Next]_vars => Answers'
<1> SUFFICES ASSUME IInv, Answers, [Next]_vars PROVE Answers'
  OBVIOUS
<1>1. CASE UNCHANGED vars
  BY <1>1 DEF vars, hist, Answers, KeptError, NoReplyYet
<1>2. QED
  BY <1>1, KernelAnswers, ServeAnswers DEF Next
(* A close that answers "ok" came before any write, or after the command   *)
(* ran and did not fail: an error of the command reaches the close that    *)
(* runs it and every later one.                                            *)
THEOREM OkClose == Spec => OkCloseMeansRun
<1> DEFINE Tells ==
      \A a \in Callers :
        call[a].op \in {"finish", "running"} /\ reply'[a] = "ok" =>
          LET h == call[a].on
          IN  log[h] = <<>> \/ (ran[h] # <<>> /\ ~failed'[h])
<1>1. Init => Answers
  <2>1. Init => \A h \in Handles : KeptError(h)
    <3>1. NewFile(FALSE).errno = "ok" /\ ~NewFile(FALSE).done /\ NewFile(FALSE).mu = NoOne
      BY DEF NewFile
    <3>2. QED
      BY <3>1 DEF Init, KeptError
  <2>2. Init => \A a \in Agents : NoReplyYet(a)
    BY NoCallType DEF Init, NoReplyYet
  <2>3. QED
    BY <2>1, <2>2 DEF Answers
<1>2. IInv /\ Answers /\ [Next]_vars => Tells
  <2> SUFFICES ASSUME IInv, Answers, [Next]_vars, NEW a \in Callers,
                      call[a].op \in {"finish", "running"}, reply'[a] = "ok"
               PROVE  log[call[a].on] = <<>>
                        \/ (ran[call[a].on] # <<>> /\ ~failed'[call[a].on])
    OBVIOUS
  <2>1. a \in Agents /\ reply[a] = "none"
    BY DEF Agents, Answers, NoReplyYet
  <2>2. CallsOK /\ FilesOK
    BY TwoHalves
  <2>3. PICK h \in Handles : h = call[a].on
    BY <2>1, <2>2, ServedHandle
  <2>4. RunState(h) /\ KeptError(h)
    BY <2>2, <2>3 DEF FilesOK, Answers
  <2>5. Finish(a) \/ Ran(a)
    <3>1. reply \in [Agents -> Errnos \union {"none"}]
      BY <2>2 DEF CallsOK
    <3>2. reply'[a] # reply[a]
      BY <2>1
    <3>3. ASSUME NEW b \in Agents, Serve(b) PROVE b = a
      <4>1. \A errno : Return(b, errno) /\ b # a => reply'[a] = reply[a]
        BY <2>1, <3>1 DEF Return
      <4>2. QED
        BY <3>2, <3>3, <4>1 DEF Serve, TakeWrite, Finish, FinishIf, Read, Ran, RanWith
    <3>4. ~TakeWrite(a) /\ ~Read(a)
      BY <3>2 DEF TakeWrite, Read
    <3>5. ASSUME NEW b \in Agents PROVE \A op, g, w : ~Ask(b, op, g, w)
      BY <2>1, <3>1 DEF Ask
    <3>6. \A g \in Handles : ~(Open(g) \/ Dup(g) \/ SendRelease(g))
      BY <3>2, <3>5 DEF Open, Dup, SendRelease, hist, Agents
    <3>7. \A b \in Callers, g \in Handles :
            ~(SendFlush(b, g) \/ \E w \in Writes : SendWrite(b, g, w))
      BY <3>5 DEF SendFlush, SendWrite, Agents
    <3>8. ~UNCHANGED vars
      BY <3>2 DEF vars, hist
    <3>9. QED
      BY <3>3, <3>4, <3>6, <3>7, <3>8 DEF Next, Serve
  <2>6. CASE Finish(a)
    <3>1. CASE ~file[h].wrote
      BY <2>3, <2>4, <3>1 DEF RunState
    <3>2. CASE file[h].wrote /\ file[h].done
      <4>1. Return(a, file[h].errno) /\ UNCHANGED failed
        BY <2>3, <2>6, <3>2 DEF Finish, FinishIf
      <4>2. file[h].errno = "ok"
        BY <2>1, <2>2, <4>1 DEF Return, CallsOK
      <4>3. QED
        BY <2>3, <2>4, <3>2, <4>1, <4>2 DEF KeptError
    <3>3. CASE file[h].wrote /\ ~file[h].done
      BY <2>1, <2>3, <2>6, <3>3 DEF Finish, FinishIf
    <3>4. QED
      BY <3>1, <3>2, <3>3
  <2>7. CASE Ran(a)
    <3>1. PICK errno \in Errnos :
            /\ failed' = [failed EXCEPT ![h] = errno # "ok"]
            /\ Return(a, errno)
      BY <2>3, <2>7 DEF Ran, RanWith
    <3>2. errno = "ok"
      BY <2>1, <2>2, <3>1 DEF Return, CallsOK
    <3>3. ~failed'[h]
      BY <2>2, <2>3, <3>1, <3>2 DEF FilesOK
    <3>4. ran[h] # <<>>
      <4>1. file[h].mu = a /\ a # NoOne
        BY <2>1, <2>2, <2>3, <2>7, FuseAssumption DEF CallsOK, Ran, RanWith
      <4>2. QED
        BY <2>4, <4>1 DEF KeptError
    <3>5. QED
      BY <2>3, <3>3, <3>4
  <2>9. QED
    BY <2>5, <2>6, <2>7
<1>3. QED
  BY <1>1, <1>2, AnswersStep, Invariance, PTL DEF Spec, OkCloseMeansRun
=============================================================================
