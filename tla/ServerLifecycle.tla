-------------------------- MODULE ServerLifecycle --------------------------
(***************************************************************************)
(* The life of the process: the configuration is loaded and validated      *)
(* (module Configuration), the backends are started, tied together by a    *)
(* Composite, served over HTTP (runServe), stdio (runStdioMCP) or a FUSE   *)
(* mount (runFuseMount), and closed on the way out                         *)
(* (internal/servercmd/command.go, mount_linux.go and the Composite of     *)
(* internal/desktop/session.go).                                           *)
(*                                                                         *)
(* Goroutines: the main one, one watcher per backend, the backends' own    *)
(* (they may end, and set and clear their error, at any moment) and those  *)
(* of the requests.  The steps of the main goroutine are the code between  *)
(* two points at which another goroutine can see what it did.              *)
(***************************************************************************)
EXTENDS Naturals, Configuration

CONSTANTS
  Requests,   (* the goroutines that serve requests                        *)
  Files,      (* the configuration files                                   *)
  FlagSets,   (* the fields of "default" that flags or environment set     *)
  Platforms   (* the platforms that the program is built for               *)

Resources == {"output", "input"}
Modes     == {"serve", "stdio", "mount"}

VARIABLES
  mode,      (* which of the three commands runs                           *)
  config,    (* the configuration and the platform; NoConfig when it is    *)
             (* not looked at any more                                     *)
  shared,    (* one backend is both the output and the input               *)
  main,      (* where the main goroutine is                                *)
  result,    (* what it returns: "none" while it is not decided            *)
  res,       (* each backend: its life and whether its Err() is not nil    *)
  watch,     (* the Composite's watcher of each backend                    *)
  comp,      (* the Composite: whether its done channel is closed, and     *)
             (* whether its own err is set                                 *)
  server,    (* whether requests can still arrive                          *)
  asked,     (* SIGINT or SIGTERM was received by the signal context       *)
  serving    (* the requests in progress                                   *)

(* Observation only. *)
VARIABLES
  tookDone,  (* the main goroutine stopped because the Composite was done  *)
  refused    (* a builder refused an accepted configuration                *)

vars == <<mode, config, shared, main, result, res, watch, comp, server, asked, serving,
          tookDone, refused>>

NoConfig == [platform |-> "none"]

Mains ==
  {"load", "validate", "startOutput", "startInput", "abandon", "compose", "prepare", "select",
   "drain", "unmount", "closeOutput", "closeInput", "closeDone", "exited", "killed"}

(* NewComposite keeps a backend that is both output and input once. *)
Members == IF shared THEN {"output"} ELSE Resources

(* Types; and a watcher waits only for a backend that was started, one for *)
(* each.                                                                   *)
TypeOK ==
  /\ mode \in Modes /\ shared \in BOOLEAN
  /\ main \in Mains /\ refused \in BOOLEAN
  /\ result \in {"none", "ok", "error"}
  /\ res \in [Resources -> [life: {"none", "up", "ended", "closed"}, err: BOOLEAN]]
  /\ watch \in [Resources -> {"none", "waiting", "ended", "joined", "gone"}]
  /\ \A r \in Resources : watch[r] # "none" => r \in Members /\ res[r].life # "none"
  /\ comp \in [done: BOOLEAN, err: BOOLEAN]
  /\ server \in {"off", "up", "failed", "down"}
  /\ asked \in BOOLEAN
  /\ serving \subseteq Requests
  /\ tookDone \in BOOLEAN

-----------------------------------------------------------------------------
(* Helpers. *)

Done(r) == res[r].life \in {"ended", "closed"}

(* Composite.Err: its own error or, without one, those of the backends. *)
CompErr == comp.err \/ \E r \in Members : res[r].err

(* Composite.closeDone: whoever comes first closes the channel. *)
CloseDone == comp' = [comp EXCEPT !.done = TRUE]

Leave(next, outcome) ==
  /\ main' = next
  /\ result' = IF result = "none" THEN outcome ELSE result

Config  == <<mode, config, shared, refused>>
Backend == <<res, watch, comp>>
Outside == <<server, asked, serving>>

-----------------------------------------------------------------------------
Init ==
  /\ mode \in Modes /\ shared = FALSE
  /\ \E platform \in Platforms, file \in Files, flags \in FlagSets :
       config = [Load(file, flags) EXCEPT !.platform = platform]
  /\ mode = "mount" => config.platform = "linux"
  /\ main = "load" /\ result = "none"
  /\ res = [r \in Resources |-> [life |-> "none", err |-> FALSE]]
  /\ watch = [r \in Resources |-> "none"]
  /\ comp = [done |-> FALSE, err |-> FALSE]
  /\ server = "off" /\ asked = FALSE /\ serving = {}
  /\ tookDone = FALSE /\ refused = FALSE

(* The command's RunE: the presets are resolved ... *)
LoadConfig ==
  /\ main = "load"
  /\ IF KnownPresets(config)
     THEN main' = "validate" /\ config' = Resolved(config) /\ UNCHANGED result
     ELSE Leave("exited", "error") /\ UNCHANGED config
  /\ UNCHANGED <<mode, shared, refused, Backend, Outside, tookDone>>

(* ... and the result validated.  What else may fail here, the settings of *)
(* the HTTP server or the mount point, returns an error as well.           *)
ValidateConfig ==
  /\ main = "validate"
  /\ \/ /\ Valid(config.platform, config)
        /\ main' = "startOutput" /\ shared' = (config.input = config.output)
        /\ UNCHANGED result
     \/ Leave("exited", "error") /\ UNCHANGED shared
  /\ UNCHANGED <<mode, config, refused, Backend, Outside, tookDone>>

(* startOutputBackend, startInputBackend or, for both, startSessionBackend: *)
(* a builder may refuse what it is given, or fail for reasons outside.      *)
Build(r, next, failed) ==
  LET builds == Builds(config.platform, config.backends[config[r]],
                       shared \/ r = "input", shared \/ r = "output")
  IN  /\ \/ /\ builds
            /\ res' = [res EXCEPT ![r].life = "up"] /\ main' = next
            /\ UNCHANGED result
         \/ Leave(failed, "error") /\ UNCHANGED res
      /\ refused' = ~builds
      /\ UNCHANGED <<mode, config, shared, watch, comp, Outside, tookDone>>

(* startBackends. *)
StartOutput ==
  /\ main = "startOutput"
  /\ Build("output", IF shared THEN "compose" ELSE "startInput", "exited")

StartInputOr(failed) ==
  main = "startInput" /\ Build("input", "compose", failed)

StartInputLeaks == StartInputOr("exited")

StartInput == StartInputOr("abandon")

(* The input did not start: the output is closed again. *)
Abandon ==
  /\ main = "abandon" /\ main' = "exited"
  /\ res' = [res EXCEPT !["output"].life = "closed"]
  /\ UNCHANGED <<Config, result, watch, comp, Outside, tookDone>>

(* NewComposite. *)
Compose ==
  /\ main = "compose" /\ main' = "prepare"
  /\ watch' = [r \in Resources |-> IF r \in Members THEN "waiting" ELSE "none"]
  /\ config' = NoConfig
  /\ UNCHANGED <<mode, shared, refused, result, res, comp, Outside, tookDone>>

(* The authorizer is made, the routes are registered, the signal context   *)
(* is made and the listener started; or the filesystem is mounted.         *)
Prepare ==
  /\ main = "prepare"
  /\ \/ main' = "select" /\ server' = "up" /\ UNCHANGED result
     \/ mode # "stdio" /\ Leave("closeOutput", "error") /\ UNCHANGED server
  /\ UNCHANGED <<Config, Backend, asked, serving, tookDone>>

(* A signal before there is a signal context kills the process, and so     *)
(* does one while the backends are closed: the context is stopped first.   *)
Signal ==
  \/ /\ main \in {"load", "validate", "startOutput", "startInput", "abandon", "compose", "prepare",
                  "closeOutput", "closeInput", "closeDone"}
     /\ main' = "killed"
     /\ UNCHANGED <<Config, result, Backend, Outside, tookDone>>
  \/ /\ main = "select" /\ ~asked
     /\ asked' = TRUE
     /\ UNCHANGED <<Config, main, result, Backend, server, serving, tookDone>>

-----------------------------------------------------------------------------
(* What runServe's select waits for. *)

ServerFailed ==
  /\ mode = "serve" /\ main = "select" /\ server = "up"
  /\ server' = "failed"
  /\ UNCHANGED <<Config, main, result, Backend, asked, serving, tookDone>>

TakeServerError ==
  /\ mode = "serve" /\ main = "select" /\ server = "failed"
  /\ Leave("closeOutput", "error")
  /\ UNCHANGED <<Config, Backend, Outside, tookDone>>

(* Shutdown refuses new requests from here on. *)
TakeSignal ==
  /\ mode = "serve" /\ main = "select" /\ asked
  /\ main' = "drain" /\ server' = "down"
  /\ UNCHANGED <<Config, result, Backend, asked, serving, tookDone>>

TakeDoneWith(failed) ==
  /\ mode \in {"serve", "mount"} /\ main = "select" /\ comp.done
  /\ tookDone' = TRUE
  /\ IF failed THEN result' = "error" ELSE UNCHANGED result
  /\ IF mode = "serve"
       THEN main' = "drain" /\ server' = "down"
       ELSE main' = "unmount" /\ UNCHANGED server
  /\ UNCHANGED <<Config, Backend, asked, serving>>

TakeDoneOwnError == TakeDoneWith(comp.err)

(* The Composite is done: its error is returned. *)
TakeDone == TakeDoneWith(CompErr)

(* server.Shutdown waits for the requests in progress, for five seconds.   *)
DrainUnless(outcome) ==
  /\ main = "drain"
  /\ \/ serving = {} /\ Leave("closeOutput", "ok")
     \/ serving # {} /\ Leave("closeOutput", outcome)
  /\ UNCHANGED <<Config, Backend, Outside, tookDone>>

DrainIgnoresTimeout == DrainUnless("ok")

Drain == DrainUnless("error")

(* runFuseMount: the signal, or the filesystem was unmounted by others. *)
TakeUnmountSignal ==
  /\ mode = "mount" /\ main = "select" /\ asked
  /\ main' = "unmount"
  /\ UNCHANGED <<Config, result, Backend, Outside, tookDone>>

(* External: an unmount succeeds only when no file is open, and returns    *)
(* when the last request has been served.                                  *)
UnmountedByOthers ==
  /\ mode = "mount" /\ main = "select" /\ server = "up" /\ serving = {}
  /\ server' = "down"
  /\ UNCHANGED <<Config, main, result, Backend, asked, serving, tookDone>>

TakeUnmounted ==
  /\ mode = "mount" /\ main = "select" /\ server = "down"
  /\ Leave("closeOutput", "ok")
  /\ UNCHANGED <<Config, Backend, Outside, tookDone>>

Unmount ==
  /\ main = "unmount"
  /\ \/ serving = {} /\ server' = "down" /\ Leave("closeOutput", "ok")
     \/ main' = "closeOutput" /\ result' = "error" /\ UNCHANGED server
  /\ UNCHANGED <<Config, Backend, asked, serving, tookDone>>

(* runStdioMCP returns on the signal or at the end of its input, whatever  *)
(* became of the Composite, which is only logged.                          *)
StdioReturns ==
  /\ mode = "stdio" /\ main = "select"
  /\ server' = "down"
  /\ \E outcome \in {"ok", "error"} : Leave("closeOutput", outcome)
  /\ UNCHANGED <<Config, Backend, asked, serving, tookDone>>

-----------------------------------------------------------------------------
(* closeComponent and Composite.Close.  A backend's Close returns when its *)
(* done channel is closed; ending it may set the backend's error.          *)
CloseResource(r, next) ==
  /\ main' = next
  /\ \E err \in BOOLEAN :
       /\ Done(r) => err = res[r].err
       /\ res' = [res EXCEPT ![r].life = "closed", ![r].err = err]
       /\ comp' = [comp EXCEPT !.err = @ \/ err]
  /\ UNCHANGED <<Config, result, watch, Outside, tookDone>>

CloseOutput ==
  main = "closeOutput" /\ CloseResource("output", IF shared THEN "closeDone" ELSE "closeInput")

CloseInput == main = "closeInput" /\ CloseResource("input", "closeDone")

CloseComposite ==
  /\ main = "closeDone" /\ main' = "exited"
  /\ CloseDone
  /\ UNCHANGED <<Config, result, res, watch, Outside, tookDone>>

-----------------------------------------------------------------------------
WatchIf(r, told) ==
  /\ \/ /\ watch[r] = "waiting" /\ Done(r)
        /\ watch' = [watch EXCEPT ![r] = "ended"]
        /\ UNCHANGED comp
     \/ /\ watch[r] = "ended"
        /\ watch' = [watch EXCEPT ![r] = "joined"]
        /\ comp' = [comp EXCEPT !.err = @ \/ res[r].err]
     \/ /\ watch[r] = "joined" /\ told
        /\ watch' = [watch EXCEPT ![r] = "gone"]
        /\ CloseDone
  /\ UNCHANGED <<Config, main, result, res, Outside, tookDone>>

WatchOnlyErrors(r) == WatchIf(r, comp.err)

(* Composite.watch: wait, join the error, close the done channel. *)
Watch(r) == WatchIf(r, TRUE)

(* A backend's own goroutine: it sets or clears its error while it is up,  *)
(* and it may end, with an error or without.                               *)
BackendStep(r) ==
  /\ res[r].life = "up"
  /\ \E life \in {"up", "ended"}, err \in BOOLEAN :
       res' = [res EXCEPT ![r] = [life |-> life, err |-> err]]
  /\ UNCHANGED <<Config, main, result, watch, comp, Outside, tookDone>>

Arrive(q) ==
  /\ server = "up" /\ q \notin serving
  /\ serving' = serving \union {q}
  /\ UNCHANGED <<Config, main, result, Backend, server, asked, tookDone>>

Answered(q) ==
  /\ q \in serving /\ serving' = serving \ {q}
  /\ UNCHANGED <<Config, main, result, Backend, server, asked, tookDone>>

(* The process is gone, and all its goroutines with it. *)
Running == main \notin {"exited", "killed"}

MainStep ==
  \/ LoadConfig \/ ValidateConfig \/ StartOutput \/ StartInput \/ Abandon \/ Compose \/ Prepare
  \/ TakeServerError \/ TakeSignal \/ TakeDone \/ Drain
  \/ TakeUnmountSignal \/ TakeUnmounted \/ Unmount
  \/ (asked /\ StdioReturns)
  \/ CloseOutput \/ CloseInput \/ CloseComposite

Next ==
  /\ Running
  /\ \/ MainStep \/ StdioReturns \/ Signal \/ ServerFailed \/ UnmountedByOthers
     \/ \E r \in Resources : Watch(r) \/ BackendStep(r)
     \/ \E q \in Requests : Arrive(q) \/ Answered(q)

Spec == Init /\ [][Next]_vars

(* The main goroutine and the watchers are scheduled, a backend's start    *)
(* and its Close return, and Shutdown's timer runs; nothing makes a        *)
(* request end.                                                            *)
Fairness ==
  /\ WF_vars(Running /\ MainStep)
  /\ \A r \in Resources : WF_vars(Running /\ Watch(r))

FairSpec == Spec /\ Fairness

-----------------------------------------------------------------------------
(* Properties. *)

(* A configuration that was accepted can be used: no builder refuses it for *)
(* what it says, and what was built can do its part, the output show the    *)
(* screen and the input send every kind of input; whichever presets,        *)
(* defaults and flags it was put together from, and also when one backend   *)
(* plays both parts.                                                        *)
AcceptedConfigsWork ==
  /\ ~refused
  /\ main = "compose" => /\ Shows(config.backends[config.output])
                         /\ Acts(config.backends[config.input])

(* When the command returns, every backend that was started is closed,     *)
(* whatever failed on the way: a backend that does not start, the          *)
(* authorizer, the listener, the mount.                                    *)
ReturnClosesBackends ==
  main = "exited" => \A r \in Resources : res[r].life \in {"none", "closed"}

(* A return without an error has cut no request off: the backends are      *)
(* closed after the requests in progress were answered.  Only an error is  *)
(* returned past a request: the drain timed out, the listener failed, the  *)
(* filesystem was busy.  (Over stdio nothing waits for the tools.)         *)
CleanExitCutsNobodyOff ==
  mode # "stdio" /\ result = "ok" /\ main \in {"closeOutput", "closeInput", "closeDone", "exited"}
    => serving = {}

(* A backend that had ended with an error when the Composite was done      *)
(* makes the command return an error, though the Composite may be done     *)
(* because the other backend ended without one.                            *)
BackendErrorReturned ==
  [][~tookDone /\ tookDone' /\ (\E r \in Members : res[r].life = "ended" /\ res[r].err)
       => result' = "error"]_vars

(* A backend that ends stops the server, whatever the requests do; over    *)
(* stdio it does not, but a signal does.                                   *)
EndsWithItsBackends ==
  /\ (main = "select" /\ mode # "stdio" /\ \E r \in Members : Done(r)) ~> ~Running
  /\ (main = "select" /\ asked) ~> ~Running
=============================================================================
