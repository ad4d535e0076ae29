-------------------------- MODULE MCComputerTools --------------------------
(***************************************************************************)
(* Two calls of browser tools that share a session, a command, and a file  *)
(* system of two files: /work/note.txt, which the tools may write, and     *)
(* /home/note.txt, which they may not.  The paths reach either directly,   *)
(* through "..", "~", a linked directory, a file that is a link, and as a  *)
(* directory that a download is put in.  Texts of one word and downloads   *)
(* that are too large.                                                     *)
(***************************************************************************)
EXTENDS ComputerTools

MCBases == [absolute |-> <<>>, here |-> <<"work">>, home |-> <<"home">>]
MCDirectories == {<<>>, <<"work">>, <<"work", "drafts">>, <<"home">>}
MCLinks ==
  <<"work", "linked">> :> <<"home">>
    @@ <<"work", "drafts", "note.txt">> :> <<"home", "note.txt">>
MCRoots == {Path("absolute", <<"home", "..", "work">>)}
MCPaths ==
  {Path("here", <<"note.txt">>), Path("here", <<>>), Path("absolute", <<"worker", "note.txt">>),
   Path("home", <<"note.txt">>), Path("here", <<"..", "home", "note.txt">>),
   Path("here", <<"linked", "note.txt">>), Path("here", <<"linked">>),
   Path("here", <<"drafts", "note.txt">>), Path("here", <<"drafts">>),
   Path("here", <<"linked", "..", "work", "note.txt">>)}

Url(denied, loopback) ==
  [scheme |-> "http", credentials |-> FALSE, denied |-> denied,
   listed |-> FALSE, loopback |-> loopback]
MCUrls == {Url(FALSE, TRUE), Url(FALSE, FALSE)}

\* The file outside is there, or not; the one inside is not there yet.
MCInit ==
  /\ Init
  /\ files[<<"work", "note.txt">>] = <<>>
  /\ files[<<"worker", "note.txt">>] = <<>>
  /\ files[<<"home", "note.txt">>] \in {<<>>, <<<<>>>>}
MCSpec == MCInit /\ [][Next]_vars /\ TerminalFairness
=============================================================================
