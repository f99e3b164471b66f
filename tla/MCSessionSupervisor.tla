------------------------ MODULE MCSessionSupervisor -------------------------
(* Small instances of SessionSupervisor. *)
EXTENDS SessionSupervisor

CommandLine(action, required, requireTerm, signals) ==
    [action |-> action, required |-> required, requireTerm |-> requireTerm, signals |-> signals]

PlainRun == CommandLine("run", "none", FALSE, {"TERM"})
Recover == CommandLine("recover", "none", FALSE, {})

SmallLaunches ==
    << {PlainRun, CommandLine("run", "crash", FALSE, {"USR1"}),
        CommandLine("run", "hang", FALSE, {"USR1"}), CommandLine("preflight", "none", FALSE, {})},
       {PlainRun, Recover} >>

TermRun == << {CommandLine("run", "none", TRUE, {"TERM"})} >>
=============================================================================
