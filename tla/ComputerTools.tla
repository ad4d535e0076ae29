--------------------------- MODULE ComputerTools ---------------------------
(***************************************************************************)
(* The tools a runtime registers, called by several requests at once: the  *)
(* file tools and the browser tools share the files.                       *)
(***************************************************************************)
EXTENDS BrowserTools, TerminalTool

vars == <<files, browserVars, terminalVars>>

Init == InitFiles /\ InitBrowser /\ InitTerminal

Next ==
  \/ FileNext /\ UNCHANGED <<browserVars, terminalVars>>
  \/ BrowserNext /\ UNCHANGED terminalVars
  \/ TerminalNext /\ UNCHANGED <<files, browserVars>>

Spec == Init /\ [][Next]_vars
FairSpec == Spec /\ TerminalFairness
=============================================================================
