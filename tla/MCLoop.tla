------------------------------- MODULE MCLoop -------------------------------
(* What a host's loop drives, one of the two in each behaviour: a session of *)
(* workspaces, given whole keys, or a line to a terminal, given bytes.       *)
EXTENDS MCSession, TerminalLink

CONSTANT Parts
VARIABLE part

LineEnds == {<<"CR">>, <<"LF">>, <<"CR", "LF">>, <<"CR", "NUL">>}
UnderWay == [serial |-> 2, telnet |-> 1]
SomeToggles == {<<"us", "echo">>, <<"peer", "naws">>, <<"peer", "linemode">>}

loopVars == <<part, s, linkVars>>

\* A line on which nothing happens.
LinkIdle ==
  /\ kind = "idle" /\ eol = <<>> /\ t = <<>> /\ d = <<>> /\ now = 0 /\ gap = 0
  /\ wire = <<>> /\ back = <<>> /\ lag = 0 /\ pause = 0 /\ owed = <<>>
  /\ says = <<>> /\ window = "" /\ resting = FALSE

LoopInit ==
  /\ part \in Parts
  /\ Init /\ (part = "link" => s.framed /\ ~s.table_prompt)
  /\ IF part = "link" THEN LinkInit ELSE LinkIdle
LoopNext ==
  /\ UNCHANGED part
  /\ \/ part = "session" /\ Next /\ UNCHANGED linkVars
     \/ part = "link" /\ LinkNext /\ UNCHANGED s

\* The user of the session goes on pressing keys to leave; the fairness of the line.
LoopSpec == LoopInit /\ [][LoopNext]_loopVars /\ WF_s(Leave) /\ LinkFairness

----------------------------------------------------------------------------
\* The types of the line and of the terminal; of a session they are TypeOK.
LinkTypes == part = "link" => LinkTypeOK

\* Keys arrive in order, and on a quiet line both ends agree on every option.
LinkAgrees == part = "link" => KeysInOrder /\ EndsAgree

\* Escape, and D where a draft is asked about, lead to the plain prompt from wherever
\* the user is.  Negotiation ends: when the terminal asks for nothing any more the line
\* falls silent, a lone Escape was decided, and so it remains.
Decided == IF part = "session" THEN s.leaving ELSE resting
Settled == IF part = "session" THEN AtPrompt ELSE Done
Settles == Decided ~> []Settled
=============================================================================
