------------------------ MODULE ServerLifecycleProofs ------------------------
(***************************************************************************)
(* Proofs about ServerLifecycle, for any configurations, platforms and     *)
(* requests: what was started is closed, a clean exit cuts nobody off, and *)
(* the error of a backend is returned.                                     *)
(***************************************************************************)
EXTENDS ServerLifecycle, TLAPS

Starting == {"load", "validate", "startOutput", "startInput", "abandon", "compose"}
Closing  == {"closeOutput", "closeInput", "closeDone"}

(* Which backends there are, by where the main goroutine is. *)
Started ==
  /\ main \in {"load", "validate", "startOutput"} => \A r \in Resources : res[r].life = "none"
  /\ main = "startInput" => res["output"].life # "none"
  /\ main \in {"startInput", "abandon"} => ~shared /\ res["input"].life = "none"
  /\ main \in Starting => \A r \in Resources : watch[r] = "none"
  /\ main \in {"load", "validate"} => ~shared
  /\ main = "compose" => \A r \in Members : res[r].life # "none"
  /\ shared => res["input"].life = "none"
  /\ main = "closeInput" => ~shared
  /\ main \in {"closeInput", "closeDone"} => res["output"].life = "closed"
  /\ main = "closeDone" /\ ~shared => res["input"].life = "closed"
  /\ main = "exited" => \A r \in Resources : res[r].life \in {"none", "closed"}

(* The result is decided on the way out; it is "ok" only when no request   *)
(* is left, and none can arrive any more.                                  *)
Decided ==
  /\ result = "ok" => main \in Closing \union {"exited", "killed"}
  /\ result = "ok" /\ mode # "stdio" => serving = {} /\ server = "down"
  /\ main = "drain" => server = "down"
  /\ mode = "mount" /\ server = "down" => serving = {}

IInv == TypeOK /\ Started /\ Decided

LEMMA Both == Resources = {"output", "input"} /\ Members \subseteq Resources /\ "output" \in Members
BY DEF Resources, Members

Life == {"none", "up", "ended", "closed"}

(* Setting a field of one backend, or both fields. *)
LEMMA ResourceTypes ==
  ASSUME TypeOK, NEW r \in Resources, NEW life \in Life, NEW err \in BOOLEAN
  PROVE  /\ [res EXCEPT ![r].life = life] \in [Resources -> [life : Life, err : BOOLEAN]]
         /\ [res EXCEPT ![r].life = life, ![r].err = err] \in [Resources -> [life : Life, err : BOOLEAN]]
         /\ [res EXCEPT ![r] = [life |-> life, err |-> err]] \in [Resources -> [life : Life, err : BOOLEAN]]
BY DEF TypeOK, Life

(* The initial states satisfy the inductive invariant. *)
THEOREM InitIInv == Init => IInv
<1> SUFFICES ASSUME Init PROVE IInv
  OBVIOUS
<1>1. TypeOK
  <2>1. res \in [Resources -> [life : Life, err : BOOLEAN]] /\ \A r \in Resources : watch[r] = "none"
    BY DEF Init, Life
  <2>2. /\ mode \in Modes /\ shared = FALSE /\ main = "load" /\ result = "none"
        /\ watch = [r \in Resources |-> "none"] /\ comp = [done |-> FALSE, err |-> FALSE]
        /\ server = "off" /\ asked = FALSE /\ serving = {} /\ tookDone = FALSE /\ refused = FALSE
    BY DEF Init
  <2>3. QED
    BY <2>1, <2>2 DEF TypeOK, Mains, Life
<1>2. Started /\ Decided
  BY DEF Init, Started, Decided, Starting, Closing
<1>3. QED
  BY <1>1, <1>2 DEF IInv

(***************************************************************************)
(* Start.                                                                  *)
(***************************************************************************)
LEMMA LoadStep ==
  ASSUME IInv, LoadConfig \/ ValidateConfig
  PROVE  IInv'
<1> USE DEF IInv
<1>1. TypeOK'
  BY Both DEF TypeOK, Started, Starting, LoadConfig, ValidateConfig, Leave, Mains, Members, Config, Backend, Outside
<1>2. Started'
  BY Both DEF TypeOK, Started, Starting, Members, LoadConfig, ValidateConfig, Leave, Backend
<1>3. Decided'
  BY DEF TypeOK, Decided, Closing, LoadConfig, ValidateConfig, Leave, Outside
<1>4. QED
  BY <1>1, <1>2, <1>3

LEMMA StartOutputStep ==
  ASSUME IInv, StartOutput
  PROVE  IInv'
<1> USE DEF IInv
<1>1. PICK next \in {"compose", "startInput"} :
        /\ next = (IF shared THEN "compose" ELSE "startInput")
        /\ \/ res' = [res EXCEPT !["output"].life = "up"] /\ main' = next /\ UNCHANGED result
           \/ Leave("exited", "error") /\ UNCHANGED res
        /\ UNCHANGED <<mode, shared, watch, comp, Outside, tookDone>> /\ refused' \in BOOLEAN
  BY DEF StartOutput, Build
<1>2. res' \in [Resources -> [life : Life, err : BOOLEAN]]
  <2>1. "up" \in Life /\ res \in [Resources -> [life : Life, err : BOOLEAN]]
    BY DEF TypeOK, Life
  <2>2. [res EXCEPT !["output"].life = "up"] \in [Resources -> [life : Life, err : BOOLEAN]]
    BY <2>1, ResourceTypes, Both
  <2>3. QED
    BY <1>1, <2>1, <2>2
<1>3. TypeOK'
  BY <1>1, <1>2, Both DEF TypeOK, Started, Starting, StartOutput, Leave, Mains, Members, Outside, Life
<1>4. Started'
  BY <1>1, Both DEF TypeOK, Started, Starting, StartOutput, Members, Leave
<1>5. Decided'
  BY <1>1 DEF TypeOK, Decided, Closing, StartOutput, Leave, Outside
<1>6. QED
  BY <1>3, <1>4, <1>5

LEMMA StartInputStep ==
  ASSUME IInv, StartInput
  PROVE  IInv'
<1> USE DEF IInv
<1>1. /\ \/ res' = [res EXCEPT !["input"].life = "up"] /\ main' = "compose" /\ UNCHANGED result
         \/ Leave("abandon", "error") /\ UNCHANGED res
      /\ UNCHANGED <<mode, shared, watch, comp, Outside, tookDone>> /\ refused' \in BOOLEAN
      /\ main = "startInput"
  BY DEF StartInput, StartInputOr, Build
<1>2. res' \in [Resources -> [life : Life, err : BOOLEAN]]
  <2>1. "up" \in Life /\ res \in [Resources -> [life : Life, err : BOOLEAN]]
    BY DEF TypeOK, Life
  <2>2. [res EXCEPT !["input"].life = "up"] \in [Resources -> [life : Life, err : BOOLEAN]]
    BY <2>1, ResourceTypes, Both
  <2>3. QED
    BY <1>1, <2>1, <2>2
<1>3. TypeOK'
  BY <1>1, <1>2, Both DEF TypeOK, Started, Starting, Leave, Mains, Members, Outside, Life
<1>4. Started'
  BY <1>1, Both DEF TypeOK, Started, Starting, Members, Leave
<1>5. Decided'
  BY <1>1 DEF TypeOK, Decided, Closing, Leave, Outside
<1>6. QED
  BY <1>3, <1>4, <1>5

LEMMA AbandonStep ==
  ASSUME IInv, Abandon
  PROVE  IInv'
<1> USE DEF IInv
<1>1. res' \in [Resources -> [life : Life, err : BOOLEAN]]
  BY ResourceTypes, Both DEF Abandon, Life, TypeOK
<1>2. TypeOK'
  BY <1>1, Both DEF TypeOK, Started, Starting, Abandon, Mains, Members, Config, Outside, Life
<1>3. Started' /\ Decided'
  BY Both DEF TypeOK, Started, Starting, Decided, Closing, Members, Abandon, Config, Outside
<1>4. QED
  BY <1>2, <1>3

LEMMA ComposeStep ==
  ASSUME IInv, Compose \/ Prepare
  PROVE  IInv'
<1> USE DEF IInv
<1>1. CASE Compose
  BY <1>1, Both DEF TypeOK, Started, Starting, Decided, Closing, Members, Compose, Mains, Config, Outside
<1>2. CASE Prepare
  BY <1>2 DEF TypeOK, Started, Starting, Decided, Closing, Members, Prepare, Leave, Mains,
              Config, Backend, Outside
<1>3. QED
  BY <1>1, <1>2

(***************************************************************************)
(* Serving, and the ways out of it.  None of them touches a backend.       *)
(***************************************************************************)
LEMMA ServeStep ==
  ASSUME IInv,
         \/ Signal \/ ServerFailed \/ TakeServerError \/ TakeSignal \/ TakeDone \/ Drain
         \/ TakeUnmountSignal \/ UnmountedByOthers \/ TakeUnmounted \/ Unmount \/ StdioReturns
  PROVE  IInv'
<1> USE DEF IInv
<1> USE DEF Config, Backend, Outside, Members, Starting, Closing
<1>1. CASE Signal
  <2>1. TypeOK'
    <3>1. main' \in Mains /\ asked' \in BOOLEAN
      BY <1>1 DEF TypeOK, Mains, Signal
    <3>2. UNCHANGED <<mode, shared, refused, result, res, watch, comp, server, serving, tookDone>>
      BY <1>1 DEF Signal
    <3>3. QED
      BY <3>1, <3>2 DEF TypeOK
  <2>2. Started'
    BY <1>1 DEF Started, Signal
  <2>3. Decided'
    BY <1>1 DEF Decided, Signal
  <2>4. QED
    BY <2>1, <2>2, <2>3
<1>2. CASE ServerFailed \/ TakeServerError
  BY <1>2 DEF TypeOK, Started, Decided, Mains, Leave, ServerFailed, TakeServerError
<1>3. CASE TakeSignal \/ TakeUnmountSignal
  BY <1>3 DEF TypeOK, Started, Decided, Mains, TakeSignal, TakeUnmountSignal
<1>4. CASE TakeDone
  BY <1>4 DEF TypeOK, Started, Decided, Mains, TakeDone, TakeDoneWith
<1>5. CASE Drain
  BY <1>5 DEF TypeOK, Started, Decided, Mains, Leave, Drain, DrainUnless
<1>6. CASE UnmountedByOthers \/ TakeUnmounted
  BY <1>6 DEF TypeOK, Started, Decided, Mains, Leave, UnmountedByOthers, TakeUnmounted
<1>7. CASE Unmount
  BY <1>7 DEF TypeOK, Started, Decided, Mains, Leave, Unmount
<1>8. CASE StdioReturns
  BY <1>8 DEF TypeOK, Started, Decided, Mains, Leave, StdioReturns
<1>9. QED
  BY <1>1, <1>2, <1>3, <1>4, <1>5, <1>6, <1>7, <1>8

LEMMA RequestStep ==
  ASSUME IInv, NEW q \in Requests, Arrive(q) \/ Answered(q)
  PROVE  IInv'
BY DEF IInv, TypeOK, Started, Decided, Starting, Members, Arrive, Answered, Config, Backend

(***************************************************************************)
(* Closing, the watchers and the backends.                                 *)
(***************************************************************************)
LEMMA CloseStep ==
  ASSUME IInv, CloseOutput \/ CloseInput \/ CloseComposite
  PROVE  IInv'
<1> USE DEF IInv
<1>1. ASSUME NEW r \in Resources, NEW next \in {"closeInput", "closeDone"}, CloseResource(r, next),
             \/ main = "closeOutput" /\ r = "output" /\ next = (IF shared THEN "closeDone" ELSE "closeInput")
             \/ main = "closeInput" /\ r = "input" /\ next = "closeDone"
      PROVE  IInv'
  <2>1. PICK e \in BOOLEAN :
          /\ res' = [res EXCEPT ![r].life = "closed", ![r].err = e]
          /\ comp' = [comp EXCEPT !.err = @ \/ e]
    BY <1>1 DEF CloseResource
  <2>2. res' \in [Resources -> [life : Life, err : BOOLEAN]]
    BY <2>1, ResourceTypes DEF TypeOK, Life
  <2>3. (comp.err \/ e) \in BOOLEAN
    BY DEF TypeOK
  <2>4. comp' \in [done : BOOLEAN, err : BOOLEAN]
    BY <2>1, <2>3 DEF TypeOK
  <2>5. /\ main' = next /\ UNCHANGED <<mode, shared, refused, result, watch, server, asked, serving, tookDone>>
        /\ res'[r].life = "closed" /\ \A o \in Resources : o # r => res'[o] = res[o]
    BY <1>1, <2>1 DEF CloseResource, Config, Outside, TypeOK
  <2>6. TypeOK'
    BY <1>1, <2>2, <2>4, <2>5 DEF TypeOK, Mains, Members, Life
  <2>7. Started'
    BY <1>1, <2>5, Both DEF TypeOK, Started, Starting, Members
  <2>8. Decided'
    BY <1>1, <2>5 DEF Decided, Closing
  <2>9. QED
    BY <2>6, <2>7, <2>8
<1>2. CASE CloseOutput \/ CloseInput
  BY <1>1, <1>2 DEF CloseOutput, CloseInput, Resources
<1>3. CASE CloseComposite
  <2>1. TypeOK'
    BY <1>3 DEF TypeOK, CloseComposite, CloseDone, Mains, Members, Config, Outside
  <2>2. Started' /\ Decided'
    BY <1>3, Both DEF TypeOK, Started, Starting, Decided, Closing, CloseComposite, CloseDone, Members,
                Config, Outside
  <2>3. QED
    BY <2>1, <2>2
<1>4. QED
  BY <1>2, <1>3

LEMMA WatchStep ==
  ASSUME IInv, NEW r \in Resources, Watch(r)
  PROVE  IInv'
<1> USE DEF IInv
<1>1. (comp.err \/ res[r].err) \in BOOLEAN
  BY DEF TypeOK
<1>2. comp' \in [done : BOOLEAN, err : BOOLEAN]
  BY <1>1 DEF TypeOK, Watch, WatchIf, CloseDone
<1>3. watch[r] # "none" /\ \A o \in Resources : watch'[o] # "none" => watch[o] # "none"
  BY DEF TypeOK, Watch, WatchIf
<1>4. TypeOK'
  BY <1>2, <1>3 DEF TypeOK, Watch, WatchIf, Members, Config, Outside
<1>5. Started' /\ Decided'
  BY <1>3 DEF Started, Decided, Starting, Watch, WatchIf, Members, Config, Outside
<1>6. QED
  BY <1>4, <1>5

LEMMA BackendStepStep ==
  ASSUME IInv, NEW r \in Resources, BackendStep(r)
  PROVE  IInv'
<1> USE DEF IInv
<1>1. PICK life \in {"up", "ended"}, e \in BOOLEAN : res' = [res EXCEPT ![r] = [life |-> life, err |-> e]]
  BY DEF BackendStep
<1>2. res' \in [Resources -> [life : Life, err : BOOLEAN]]
  BY <1>1, ResourceTypes DEF TypeOK, Life
<1>3. /\ res[r].life = "up" /\ res'[r].life \in {"up", "ended"}
      /\ \A o \in Resources : o # r => res'[o] = res[o]
  BY <1>1 DEF TypeOK, BackendStep
<1>4. TypeOK'
  BY <1>2, <1>3 DEF TypeOK, BackendStep, Members, Life, Config, Outside
<1>5. Started' /\ Decided'
  BY <1>3, Both DEF Started, Decided, Starting, BackendStep, Members, Config, Outside
<1>6. QED
  BY <1>4, <1>5

(* Every step keeps the inductive invariant. *)
THEOREM NextIInv == IInv /\ [Next]_vars => IInv'
<1> SUFFICES ASSUME IInv, [Next]_vars PROVE IInv'
  OBVIOUS
<1>1. CASE MainStep
  BY <1>1, LoadStep, StartOutputStep, StartInputStep, AbandonStep, ComposeStep, ServeStep, CloseStep
     DEF MainStep
<1>2. CASE StdioReturns \/ Signal \/ ServerFailed \/ UnmountedByOthers
  BY <1>2, ServeStep
<1>3. CASE \E r \in Resources : Watch(r) \/ BackendStep(r)
  BY <1>3, WatchStep, BackendStepStep
<1>4. CASE \E q \in Requests : Arrive(q) \/ Answered(q)
  BY <1>4, RequestStep
<1>5. CASE UNCHANGED vars
  BY <1>5 DEF IInv, TypeOK, Started, Decided, Starting, Members, vars
<1>6. QED
  BY <1>1, <1>2, <1>3, <1>4, <1>5 DEF Next

(* The inductive invariant holds. *)
THEOREM Invariance == Spec => []IInv
<1>1. QED
  BY InitIInv, NextIInv, PTL DEF Spec

(* The variables keep their types, and every watcher waits for a backend   *)
(* that was started.                                                       *)
THEOREM TypeCorrect == Spec => []TypeOK
<1>1. IInv => TypeOK
  BY DEF IInv
<1>2. QED
  BY <1>1, Invariance, PTL

(* Whatever fails and whenever: when the command returns, no backend that  *)
(* was started is left open.                                               *)
THEOREM NothingLeftOpen == Spec => []ReturnClosesBackends
<1>1. IInv => ReturnClosesBackends
  BY DEF IInv, Started, ReturnClosesBackends
<1>2. QED
  BY <1>1, Invariance, PTL

(* For any number of requests: a return without an error has waited for    *)
(* all of them.                                                            *)
THEOREM CleanExitWaits == Spec => []CleanExitCutsNobodyOff
<1>1. IInv => CleanExitCutsNobodyOff
  BY DEF IInv, Decided, CleanExitCutsNobodyOff
<1>2. QED
  BY <1>1, Invariance, PTL

(***************************************************************************)
(* Accepted configurations.                                                *)
(***************************************************************************)

(* What ValidBackend lets through is not refused by the builder of the     *)
(* backend, for the part or the parts it was validated for.                *)
LEMMA ValidBuilds ==
  ASSUME NEW platform, NEW b, NEW role, ValidBackend(platform, b, role)
  PROVE  Builds(platform, b, role.input, role.output)
<1>1. b.type \in Types /\ OnPlatform(platform, b.type)
  BY DEF ValidBackend
<1>2. CASE b.type = "command"
  BY <1>2 DEF ValidBackend, ValidCommand, Builds
<1>3. CASE b.type \in {"rdp", "vnc"}
  BY <1>3 DEF ValidBackend, Builds
<1>4. CASE b.type \in {"kwin", "eis"}
  BY <1>1, <1>4 DEF ValidBackend, Builds, OnPlatform
<1>5. CASE b.type \in {"windows", "macos"}
  BY <1>1, <1>5 DEF Builds
<1>6. QED
  BY <1>1, <1>2, <1>3, <1>4, <1>5 DEF Types

(* And what was built can play that part. *)
LEMMA ValidPlays ==
  ASSUME NEW platform, NEW b, NEW role, ValidBackend(platform, b, role)
  PROVE  (role.output => Shows(b)) /\ (role.input => Acts(b))
<1>1. CASE b.type = "command"
  <2>1. ValidCommand(b, role)
    BY <1>1 DEF ValidBackend
  <2>2. \A c \in Commands : Configured(b, c) => Runs(b, c)
    BY <2>1 DEF ValidCommand, Configured, Runs
  <2>3. InputCommands \subseteq Commands /\ "screenshot" \in Commands
    BY DEF Commands
  <2>4. QED
    BY <1>1, <2>1, <2>2, <2>3 DEF ValidCommand, Shows, Acts
<1>2. CASE b.type = "vnc"
  BY <1>2 DEF ValidBackend, Shows, Acts
<1>3. QED
  BY <1>1, <1>2 DEF Shows, Acts

(* The backend that plays a part was validated for it; a shared one for    *)
(* both parts.                                                             *)
Accepted ==
  /\ ~refused
  /\ main \in {"startOutput", "startInput", "compose"} =>
       /\ Valid(config.platform, config)
       /\ shared = (config.input = config.output)

LEMMA PartsBuild ==
  ASSUME Valid(config.platform, config), shared = (config.input = config.output),
         NEW r \in Resources
  PROVE  Builds(config.platform, config.backends[config[r]], shared \/ r = "input", shared \/ r = "output")
<1> DEFINE n == config[r]
           role == Roles(config, n)
<1>1. (r = "input" /\ n = config.input) \/ (r = "output" /\ n = config.output)
  BY DEF Resources
<1>2. ValidBackend(config.platform, config.backends[n], role)
  BY <1>1 DEF Valid
<1>3. role.input = (n = config.input) /\ role.output = (n = config.output)
  BY DEF Roles
<1>4. role.input = (shared \/ r = "input") /\ role.output = (shared \/ r = "output")
  BY <1>1, <1>3
<1>5. Builds(config.platform, config.backends[n], role.input, role.output)
  BY <1>2, ValidBuilds
<1>6. QED
  BY <1>4, <1>5

LEMMA AcceptedStep ==
  ASSUME Accepted, IInv, [Next]_vars
  PROVE  Accepted'
<1> USE DEF Accepted
<1>1. CASE LoadConfig
  BY <1>1 DEF LoadConfig, Leave
<1>2. CASE ValidateConfig
  BY <1>2 DEF ValidateConfig, Leave, Valid
<1>3. CASE StartOutput
  <2>1. Builds(config.platform, config.backends[config["output"]], shared \/ "output" = "input",
               shared \/ "output" = "output")
    BY <1>3, PartsBuild, Both DEF StartOutput
  <2>2. QED
    BY <1>3, <2>1 DEF StartOutput, Build, Leave, Valid
<1>4. CASE StartInput
  <2>1. Builds(config.platform, config.backends[config["input"]], shared \/ "input" = "input",
               shared \/ "input" = "output")
    BY <1>4, PartsBuild, Both DEF StartInput, StartInputOr
  <2>2. QED
    BY <1>4, <2>1 DEF StartInput, StartInputOr, Build, Leave, Valid
<1>5. CASE Abandon \/ Compose \/ Prepare \/ CloseOutput \/ CloseInput \/ CloseComposite
  BY <1>5 DEF Abandon, Compose, Prepare, Leave, CloseOutput, CloseInput, CloseResource, CloseComposite,
              Config
<1>6. CASE \/ TakeServerError \/ TakeSignal \/ TakeDone \/ Drain \/ TakeUnmountSignal \/ TakeUnmounted
           \/ Unmount \/ StdioReturns
  BY <1>6 DEF TakeServerError, TakeSignal, TakeDone, TakeDoneWith, Drain, DrainUnless, TakeUnmountSignal,
              TakeUnmounted, Unmount, StdioReturns, Leave, Config
<1>7. CASE Signal \/ ServerFailed \/ UnmountedByOthers
  BY <1>7 DEF Signal, ServerFailed, UnmountedByOthers, Config
<1>8. CASE \E r \in Resources : Watch(r) \/ BackendStep(r)
  BY <1>8 DEF Watch, WatchIf, BackendStep, Config
<1>9. CASE \E q \in Requests : Arrive(q) \/ Answered(q)
  BY <1>9 DEF Arrive, Answered, Config
<1>10. CASE UNCHANGED vars
  BY <1>10 DEF vars
<1>11. QED
  BY <1>1, <1>2, <1>3, <1>4, <1>5, <1>6, <1>7, <1>8, <1>9, <1>10 DEF Next, MainStep

(* For any configurations, presets, flags and platforms: one that is       *)
(* accepted is refused by no builder, its output shows and its input acts. *)
THEOREM AcceptedWork == Spec => []AcceptedConfigsWork
<1>1. Init => Accepted
  BY DEF Init, Accepted
<1>2. Accepted => AcceptedConfigsWork
  <2> SUFFICES ASSUME Accepted, main = "compose"
               PROVE  Shows(config.backends[config.output]) /\ Acts(config.backends[config.input])
    BY DEF Accepted, AcceptedConfigsWork
  <2>1. \A n \in {config.input, config.output} :
          ValidBackend(config.platform, config.backends[n], Roles(config, n))
    BY DEF Accepted, Valid
  <2>2. Roles(config, config.output).output /\ Roles(config, config.input).input
    BY DEF Roles
  <2>3. QED
    BY <2>1, <2>2, ValidPlays
<1>3. QED
  BY <1>1, <1>2, AcceptedStep, Invariance, PTL DEF Spec

(* The error that a backend had when the Composite was done is returned.   *)
THEOREM ErrorReturned == Spec => BackendErrorReturned
<1> DEFINE Step == ~tookDone /\ tookDone' /\ (\E r \in Members : res[r].life = "ended" /\ res[r].err)
                     => result' = "error"
<1>1. ASSUME [Next]_vars PROVE Step
  <2>1. CASE TakeDone
    BY <2>1 DEF TakeDone, TakeDoneWith, CompErr
  <2>2. CASE tookDone' = tookDone
    BY <2>2
  <2>3. tookDone' = tookDone \/ TakeDone
    <3>1. CASE MainStep
      BY <3>1 DEF MainStep, LoadConfig, ValidateConfig, StartOutput, StartInput, StartInputOr, Build,
                  Abandon, Compose, Prepare, TakeServerError, TakeSignal, Drain, DrainUnless,
                  TakeUnmountSignal, TakeUnmounted, Unmount, StdioReturns,
                  CloseOutput, CloseInput, CloseResource, CloseComposite
    <3>2. CASE StdioReturns \/ Signal \/ ServerFailed \/ UnmountedByOthers
      BY <3>2 DEF StdioReturns, Signal, ServerFailed, UnmountedByOthers
    <3>3. CASE \E r \in Resources : Watch(r) \/ BackendStep(r)
      BY <3>3 DEF Watch, WatchIf, BackendStep
    <3>4. CASE \E q \in Requests : Arrive(q) \/ Answered(q)
      BY <3>4 DEF Arrive, Answered
    <3>5. CASE UNCHANGED vars
      BY <3>5 DEF vars
    <3>6. QED
      BY <1>1, <3>1, <3>2, <3>3, <3>4, <3>5 DEF Next
  <2>4. QED
    BY <2>1, <2>2, <2>3
<1>2. QED
  BY <1>1, PTL DEF Spec, BackendErrorReturned
=============================================================================
