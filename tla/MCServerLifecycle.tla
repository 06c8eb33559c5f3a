-------------------------- MODULE MCServerLifecycle --------------------------
(* An instance of ServerLifecycle: two requests, and configurations of up to *)
(* three backends put together from samples of each type, right and wrong.   *)
EXTENDS ServerLifecycle

Own(backend) == [extends |-> <<>>, own |-> backend]

Remote(type) ==
  [Empty EXCEPT !.type = type, !.host = TRUE, !.user = TRUE, !.password = TRUE, !.sized = TRUE]

Shell == [Empty EXCEPT !.commands = RunBy({"key"}, "script")]
Local == <<"command-base", "screenshot-spectacle", "input-ydotool">>

Samples ==
  {Own(Remote("rdp")), Own([Remote("rdp") EXCEPT !.password = FALSE]),
   Own(Remote("vnc")), Own([Remote("vnc") EXCEPT !.viewOnly = TRUE]),
   Own([Empty EXCEPT !.type = "kwin"]), Own([Empty EXCEPT !.type = "eis"]),
   Own([Empty EXCEPT !.type = "windows"]),
   [extends |-> Local, own |-> Shell],
   [extends |-> Local, own |-> [Shell EXCEPT !.commands["key"].run = "both"]],
   [extends |-> Local, own |-> [Empty EXCEPT !.timeout = "bad"]],
   [extends |-> Local, own |-> [Empty EXCEPT !.sshHost = TRUE]],
   [extends |-> <<"command-base", "screenshot-spectacle">>, own |-> Empty],
   [extends |-> <<"command-base", "input-ydotool">>, own |-> Empty],
   [extends |-> <<"input-ydotool">>, own |-> Empty],
   [extends |-> <<"wayland">>, own |-> Empty]}

File(input, output, default, a, b) ==
  [platform |-> "none", input |-> input, output |-> output,
   backends |-> [n \in {"default", "a", "b"} |->
                   CASE n = "default" -> default [] n = "a" -> a [] n = "b" -> b]]

SampleFiles ==
  LET defaults == {Own(Empty), [extends |-> Local, own |-> Empty]}
  IN  {File("a", "b", Own(Empty), a, b) : a \in Samples, b \in Samples} \union
      {File(input, output, default, a, Own(Empty)) :
         input \in {"default", "a"}, output \in {"default", "a"}, default \in defaults, a \in Samples}

(* Flags for the backend "default": none, or a VNC server. *)
SampleFlags == {Empty, [Empty EXCEPT !.type = "vnc", !.host = TRUE]}
=============================================================================
