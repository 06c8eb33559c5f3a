--------------------------- MODULE Configuration ---------------------------
(* What internal/servercmd/command.go makes of the configuration before it *)
(* starts a backend, and what the builders of the backends still refuse.   *)
(*                                                                         *)
(* A backend is a record of the fields that either of them looks at.  Of a *)
(* text only whether it is there, of a duration whether it parses ("bad"), *)
(* of a port whether it fits 16 bits.  The zero value means "not given":   *)
(* the code merges presets that way.                                       *)
EXTENDS Integers, Sequences, TLC
LOCAL INSTANCE SequencesExt

Types == {"rdp", "vnc", "command", "kwin", "eis", "windows", "macos"}

InputCommands == {"moveMouse", "mouseButton", "mouseWheel", "key", "typeText"}
Commands == InputCommands \union {"screenshot", "screenshotCrop", "keyScancode"}

NoSpec == [run |-> "none", timeout |-> "none"]   \* run: argv, script, or both

Empty ==
  [type |-> "", host |-> FALSE, port |-> "zero", user |-> FALSE, password |-> FALSE,
   sized |-> FALSE, graphics |-> "none", viewOnly |-> FALSE, timeout |-> "none",
   commands |-> [c \in Commands |-> NoSpec],
   sshHost |-> FALSE, sshPort |-> "zero", sshUser |-> FALSE, sshAuth |-> FALSE,
   sshKnownHosts |-> FALSE, sshInsecure |-> FALSE, sshTimeout |-> "none"]

-----------------------------------------------------------------------------
(* mergeBackendConfig and the merges under it: what is given replaces what  *)
(* was there; argv and script of a command are replaced together.           *)
Over(base, override, zero) ==
  [f \in {g \in DOMAIN zero : override[g] # zero[g]} |-> override[f]] @@ base

Merge(base, override) ==
  [Over(base, override, Empty) EXCEPT !.commands =
     [c \in {d \in Commands : override.commands[d] # NoSpec} |->
        Over(base.commands[c], override.commands[c], NoSpec)] @@ base.commands]

(* internal/backendpreset/presets. *)
RunBy(commands, run) ==
  [c \in Commands |-> IF c \in commands THEN [NoSpec EXCEPT !.run = run] ELSE NoSpec]

Preset == [p \in {"command-base", "screenshot-spectacle", "input-ydotool"} |->
  CASE p = "command-base" -> [Empty EXCEPT !.type = "command", !.timeout = "good"]
    [] p = "screenshot-spectacle" ->
         [Empty EXCEPT !.commands = RunBy({"screenshot"}, "script")]
    [] p = "input-ydotool" -> [Empty EXCEPT !.commands = RunBy(InputCommands, "argv")]]

(* setDefaults, loadConfig and applyChangedFlags.  The defaults make the     *)
(* backend "default" exist in every configuration, so flags and environment  *)
(* always reach it.                                                          *)
Defaults == [Empty EXCEPT !.type = "rdp", !.sized = TRUE, !.graphics = "good"]

Load(file, flags) ==
  [file EXCEPT !.backends =
     [n \in DOMAIN @ \union {"default"} |->
        IF n # "default" THEN @[n]
        ELSE LET own == IF n \in DOMAIN @ THEN @[n] ELSE [extends |-> <<>>, own |-> Empty]
             IN  [own EXCEPT !.own = Merge(Merge(Defaults, @), flags)]]]

(* resolveBackendExtends: every backend's presets, whether it is used or not. *)
KnownPresets(config) ==
  \A n \in DOMAIN config.backends : ToSet(config.backends[n].extends) \subseteq DOMAIN Preset

Resolve(entry) ==
  Merge(FoldLeft(LAMBDA merged, p : Merge(merged, Preset[p]), Empty, entry.extends), entry.own)

Resolved(config) ==
  [config EXCEPT !.backends = [n \in {config.input, config.output} \intersect DOMAIN @ |->
                                 Resolve(@[n])]]

-----------------------------------------------------------------------------
(* validateConfig, which looks at the backends that are used: a map from   *)
(* name to roles, with the same name twice when one backend is both.       *)
RolesOverwritten(config, n) ==
  [output |-> n = config.output, input |-> n = config.input /\ n # config.output]

Roles(config, n) == [output |-> n = config.output, input |-> n = config.input]

OnPlatform(platform, type) ==
  CASE type \in {"kwin", "eis"} -> platform = "linux"
    [] type = "windows" -> platform = "windows"
    [] type = "macos" -> platform = "darwin"
    [] OTHER -> TRUE

Configured(b, c) == b.commands[c].run # "none"

HasSSH(b) ==
  \E f \in {"sshHost", "sshPort", "sshUser", "sshAuth", "sshKnownHosts", "sshInsecure", "sshTimeout"} :
    b[f] # Empty[f]

ValidCommand(b, role) ==
  /\ role.output => Configured(b, "screenshot")
  /\ role.input => \A c \in InputCommands : Configured(b, c)
  /\ "bad" \notin {b.timeout, b.sshTimeout}
  /\ \A c \in Commands : b.commands[c].run # "both" /\ b.commands[c].timeout # "bad"
  /\ HasSSH(b) => /\ b.sshHost /\ b.sshUser /\ b.sshPort # "wide" /\ b.sshAuth
                  /\ b.sshInsecure \/ b.sshKnownHosts

ValidBackend(platform, b, role) ==
  /\ b.type \in Types /\ OnPlatform(platform, b.type) /\ b.port # "wide"
  /\ CASE b.type = "rdp" -> b.host /\ b.user /\ b.password /\ b.sized /\ b.graphics # "bad"
       [] b.type = "vnc" -> b.host /\ b.sized /\ ~(role.input /\ b.viewOnly)
       [] b.type = "command" -> ValidCommand(b, role)
       [] b.type = "kwin" -> ~role.input
       [] b.type = "eis" -> ~role.output
       [] OTHER -> TRUE

Valid(platform, config) ==
  /\ {config.input, config.output} \subseteq DOMAIN config.backends
  /\ \A n \in {config.input, config.output} :
       ValidBackend(platform, config.backends[n], Roles(config, n))

-----------------------------------------------------------------------------
(* startSessionBackend, startOutputBackend, startInputBackend and the New or *)
(* StartSession under them: what they refuse before they look outside.       *)
Builds(platform, b, input, output) ==
  CASE b.type = "rdp" -> b.host /\ b.user /\ b.password
    [] b.type = "vnc" -> b.host /\ b.sized
    [] b.type = "command" ->
         /\ b.timeout # "bad"
         /\ HasSSH(b) => /\ b.sshTimeout # "bad" /\ b.sshHost /\ b.sshUser /\ b.sshAuth
                         /\ b.sshInsecure \/ b.sshKnownHosts
    [] b.type = "kwin" -> ~input /\ platform = "linux"
    [] b.type = "eis" -> ~output /\ platform = "linux"
    [] OTHER -> b.type \in Types /\ OnPlatform(platform, b.type)

(* Whether a backend that was built can do what it is asked for: its command *)
(* can be run (run of internal/commandbackend), its session is not view-only *)
(* (SendKey of internal/vnc).                                                *)
Runs(b, c) == b.commands[c].run \notin {"none", "both"}
Shows(b) == b.type = "command" => Runs(b, "screenshot")
Acts(b) ==
  /\ b.type = "command" => \A c \in InputCommands : Runs(b, c)
  /\ b.type = "vnc" => ~b.viewOnly
=============================================================================
