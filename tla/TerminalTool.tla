---------------------------- MODULE TerminalTool ----------------------------
(***************************************************************************)
(* ApprovedTerminalTool.execute with SubprocessCommandExecutor: a command  *)
(* of the allow-list is started, waited for and killed at its time limit.  *)
(***************************************************************************)
CONSTANT Commands   \* calls of the tool

VARIABLES
  wait,      \* what each call awaits
  process,   \* its process
  answer     \* its result

terminalVars == <<wait, process, answer>>

InitTerminal ==
  /\ wait = [c \in Commands |-> "new"]
  /\ process = [c \in Commands |-> "none"]
  /\ answer = [c \in Commands |-> "none"]

Answer(c, a) ==
  /\ wait' = [wait EXCEPT ![c] = "over"]
  /\ answer' = [answer EXCEPT ![c] = a]

\* An unknown command is refused.
Execute(c) ==
  /\ wait[c] = "new"
  /\ \/ Answer(c, "failed")
     \/ wait' = [wait EXCEPT ![c] = "start"] /\ UNCHANGED answer
  /\ UNCHANGED process

\* The process starts; a command that cannot be started is an answer too.
ProcessStarts(c) ==
  /\ wait[c] = "start"
  /\ \/ /\ process' = [process EXCEPT ![c] = "running"]
        /\ wait' = [wait EXCEPT ![c] = "communicate"]
        /\ UNCHANGED answer
     \/ Answer(c, "ok") /\ UNCHANGED process

\* Unless it hangs, the process ends by itself.
ProcessEnds(c) ==
  /\ process[c] \in {"running", "killed"}
  /\ process' = [process EXCEPT ![c] = "ended"]
  /\ UNCHANGED <<wait, answer>>

Communicated(c) ==
  /\ wait[c] = "communicate"
  /\ process[c] = "ended"
  /\ Answer(c, "ok")
  /\ UNCHANGED process

\* Mutant: the process is not killed.
TimesOutWithoutKill(c) ==
  /\ wait[c] = "communicate"
  /\ wait' = [wait EXCEPT ![c] = "drain"]
  /\ UNCHANGED <<process, answer>>

\* The time limit: the process is killed if it still runs.
CommandTimesOut(c) ==
  /\ wait[c] = "communicate"
  /\ wait' = [wait EXCEPT ![c] = "drain"]
  /\ process' = [process EXCEPT ![c] = IF @ = "running" THEN "killed" ELSE @]
  /\ UNCHANGED answer

Drained(c) ==
  /\ wait[c] = "drain"
  /\ process[c] = "ended"
  /\ Answer(c, "failed")
  /\ UNCHANGED process

\* The request is cancelled; the process is left as it is.
CancelCommand(c) ==
  /\ wait[c] \in {"start", "communicate", "drain"}
  /\ Answer(c, "cancelled")
  /\ UNCHANGED process

TerminalNext ==
  \E c \in Commands :
    \/ Execute(c) \/ ProcessStarts(c) \/ ProcessEnds(c) \/ Communicated(c)
    \/ CommandTimesOut(c) \/ Drained(c) \/ CancelCommand(c)

\* A start returns, a time limit expires, a killed process ends, and a call
\* whose process has ended goes on.
TerminalFairness ==
  \A c \in Commands :
    /\ WF_terminalVars(ProcessStarts(c))
    /\ WF_terminalVars(CommandTimesOut(c))
    /\ WF_terminalVars(process[c] = "killed" /\ ProcessEnds(c))
    /\ WF_terminalVars(Drained(c))

\* Also a command that hangs is answered.
CommandEnds == \A c \in Commands : wait[c] = "start" ~> wait[c] = "over"
=============================================================================
