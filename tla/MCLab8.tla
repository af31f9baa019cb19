------------------------------- MODULE MCLab8 -------------------------------
(***************************************************************************)
(* Instance of Lab8Session for TLC: a tree with one directory and another  *)
(* beside it, lines of the kinds that the server and the client tell       *)
(* apart, and parts of lines of these kinds.                               *)
(***************************************************************************)
EXTENDS Lab8Session

TreeOfOne == {<<>>, <<"d">>}
OneBeside == {<<"b">>}

Long == Command("unknown", "long")
Quit == Command("QUIT", "")
Blank == Command("blank", "")

LinesOfAllKinds ==
  {Long, Quit, Blank, Command("LIST", ""), Command("ECHO", Bye), Command("CD", <<"d">>),
   Command("CD", Up), Command("CD", FromAbove(<<"b">>))}

\* Parts of lines: a few characters that mean nothing to the server, or that do.
One == Command("unknown", "one")
Two == Command("unknown", "two")
Parts == {One, Two, Blank, Quit}

\* " xQUIT", which is cut twice.
CutsOfAllKinds == {Cut(Long, Blank, Two), Cut(Two, One, Quit)}
=============================================================================
