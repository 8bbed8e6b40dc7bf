------------------------------ MODULE MCPanels ------------------------------
(* The two panels that edit something another party may change meanwhile: a  *)
(* control panel and its device, the environment manager and its file; one   *)
(* of them in each behaviour.                                                *)
EXTENDS ControlPanel, EnvManager

CONSTANT Parts
VARIABLE part

\* A page with two sections and a page with one.  A full step of the level leads from one
\* end to the other, from between them a step is cut off, and at an end there is none.
Level == [group |-> "pwm", kind |-> "level", minimum |-> 0, maximum |-> 2, step |-> 2]
Relay == [group |-> "relays", kind |-> "toggle", minimum |-> 0, maximum |-> 1, step |-> 1]
Action == [group |-> "", kind |-> "action", minimum |-> 0, maximum |-> 0, step |-> 0]
MCPages == << <<Relay, Level>>, <<Action>> >>

\* A file of two assignments, and one with a value over two lines and a line
\* that is switched off.
A == Line("plain", "A", "v")
B == [Line("plain", "B", "q") EXCEPT !.glued = TRUE]
Off == [Line("plain", "B", "v") EXCEPT !.off = TRUE]
MCFiles == {Text(<<A, B>>, TRUE), Text(<<Line("open", "C", ""), Line("close", "", ""), Off>>, FALSE)}
MCDrafts == {<<Blank>>, <<A, Off>>, <<Line("open", "C", "")>>}

panelsVars == <<part, vars, envVars>>

PanelsInit ==
  /\ part \in Parts
  /\ IF part = "control" THEN Init ELSE s = <<>> /\ device = <<>>
  /\ IF part = "env" THEN EnvInit
     ELSE /\ d = <<>> /\ m = <<>> /\ e = <<>> /\ disk = <<>> /\ staging = <<>>
          /\ job = <<>> /\ raced = <<>> /\ seen = <<>> /\ said = <<>>
PanelsNext ==
  /\ UNCHANGED part
  /\ \/ part = "control" /\ Next /\ UNCHANGED envVars
     \/ part = "env" /\ EnvNext /\ UNCHANGED vars
PanelsSpec == PanelsInit /\ [][PanelsNext]_panelsVars

----------------------------------------------------------------------------
\* The types of the two; the state of the other panel is absent.
PanelsTypeOK == (part = "control" => TypeOK) /\ (part = "env" => EnvTypeOK)

\* Keys and clicks ask for numbers the control can have, and arrows for the next one.
KeysAskForTheNext == [][part = "control" => AsksForTheNext]_panelsVars

\* An edit goes to what it was opened on: the draft to its control, the record
\* and the deletion to the lines the user was shown.
EditsGoHome ==
  [][ /\ part = "control" => DraftGoesHome'
      /\ part = "env" => EditsOneRecord ]_panelsVars

\* Nothing that another party did meanwhile is overwritten: a write and a save
\* replace what their author saw.
NothingOverwritten ==
  [][ /\ part = "control" => NoLostUpdate
      /\ part = "env" => SaveIsOptimistic ]_panelsVars

\* A changed environment is lost by the user's word only, and is Saved only as the
\* file has it, and the user always has a surface to act on.
NothingIsLost ==
  [][ part = "env" => NothingDiscarded /\ AlwaysOnScreen' /\ SavedIsOnDisk' ]_panelsVars
=============================================================================
