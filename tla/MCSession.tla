------------------------------ MODULE MCSession ------------------------------
(* Session as it is: its constants are numbers. *)
EXTENDS Session

\* The surfaces agree with each other and with the terminal: its modes are those the
\* session reports, two workspaces are never open, an edit is on the board and has the
\* keys, and a closed session has given everything back.
SurfacesAgree == TerminalMatches /\ OneWorkspace /\ EditOnBoard /\ ClosedIsRestored
==============================================================================
