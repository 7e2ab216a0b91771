------------------------------ MODULE MCPipeline ------------------------------
(* Instances of Pipeline for TLC. *)
EXTENDS Pipeline

AllShellRoles == {"produce", "endless", "copy", "head", "drain", "group", "panic"}

\* Three shell stages, every combination of roles.
ThreeShells == [s \in 1..3 |-> AllShellRoles]

\* A shell stage, a real process, a shell stage.
ShellProcShell == <<{"produce", "endless", "group"}, {"copy", "head"}, {"head", "drain", "group"}>>

\* Writers without end, readers that leave, stages that end by themselves, and an
\* endless last stage beside stages with something to do.
Busy == <<{"endless", "produce", "group", "copy"}, {"copy", "group", "endless", "panic"},
              {"head", "panic", "produce", "endless"}>>
\* Two shell stages; the first reads what the terminal has.
TerminalReader == <<{"copy", "head"}, {"copy", "head"}>>
=============================================================================
