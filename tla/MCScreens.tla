------------------------------ MODULE MCScreens ------------------------------
(* What a person sees and acts on: the document and hex editors, the form, the *)
(* file browser, the menus and the device view; one of them in each behaviour, *)
(* the others absent.                                                          *)
EXTENDS DocumentEditor, HexEditor, FormDialog, FileBrowser, MenuTree, DeviceView

CONSTANT Parts
VARIABLE part

ASSUME PartsAssumption == Parts \subseteq {"document", "hex", "form", "files", "menu", "device"}

MCChars == {<<"a">>, <<"L", "T">>}
MCNotes == {<<>>, <<"a", "\n">>}

MCDigitOf == [k \in {"d"} |-> 13]
MCCodeOf == [k \in {"d", "s"} |-> IF k = "d" THEN 100 ELSE 115]
MCImages == {<<221, 100>>}

\* A password, its repetition and a choice.
Word(maximum) ==
  [kind |-> "password", minimum |-> 1, maximum |-> maximum, capacity |-> 3, choices |-> <<>>]
MCFields ==
  <<Word(2), Word(0), [Word(0) EXCEPT !.kind = "choice", !.minimum = 0, !.choices = <<<<"x">>, <<"y">>>>]>>
MCFilled == {<< <<>>, <<>>, <<"y">> >>, << <<"x">>, <<"y">>, <<"q">> >>}
MCRefuses(at, value, stored) == at = 2 /\ value # stored[1]

MCChildren ==
  [n \in {"root", "sub", "inner", "bad"} |->
     CASE n = "root" -> <<"sub", "bad", "link", "note">>
       [] n = "sub" -> <<"inner">>
       [] n = "inner" -> <<"file">>
       [] OTHER -> <<>>]

Leaf == [run |-> TRUE, sub |-> "", off |-> FALSE]
Sub(m) == [run |-> FALSE, sub |-> m, off |-> FALSE]
MCMenus == [m \in {"top", "more"} |->
              IF m = "top" THEN <<[Leaf EXCEPT !.off = TRUE], Sub("more"), Leaf>>
                           ELSE <<Leaf, Sub("top")>>]
MCHits == << [m \in {"top", "more"} |-> IF m = "top" THEN <<{"e"}, {"o"}, {"o", "e"}>> ELSE <<{}, {"o"}>>],
             [m \in {"top", "more"} |-> IF m = "top" THEN <<{"o"}, {"o"}, {}>> ELSE <<{"o"}, {}>>] >>

\* A device whose rows change, one whose grids come and go, one whose screen shrinks.
R(key, cat, kind, value, options) ==
  [key |-> key, cat |-> cat, kind |-> kind, value |-> value, options |-> options,
   labels |-> [i \in DOMAIN options |-> <<"One", "Two">>[i]],
   edit |-> TRUE, secret |-> FALSE, pending |-> FALSE, low |-> 1, high |-> 2]
Pin == R("pin", "", "level", "2", <<>>)
Net == R("net", "A", "toggle", "on", <<>>)
Key2 == [R("pass", "A", "text", "x", <<>>) EXCEPT !.secret = TRUE]
Mode == R("mode", "B", "choice", "a", <<"a", "b">>)
Base == [title |-> "rows", small |-> FALSE, unicode |-> TRUE, leds |-> FALSE, groups |-> <<>>,
         game |-> FALSE, ready |-> FALSE, enabled |-> {},
         rows |-> [p \in PageSet |-> IF p = "led" THEN <<Pin>> ELSE <<>>]]
WithRows(s, rows) == [s EXCEPT !.rows["device"] = rows]
Grids == [Base EXCEPT !.title = "grids"]
AllGrids == [Grids EXCEPT !.leds = TRUE, !.groups = <<1, 2>>, !.game = TRUE, !.ready = TRUE,
                         !.enabled = {1}]
Sizes == WithRows([Base EXCEPT !.title = "size"], <<Pin, Key2>>)
MCSnapshots == {
  WithRows(Base, <<Net, Mode>>),
  WithRows([Base EXCEPT !.unicode = FALSE],
           <<[Net EXCEPT !.value = "off"], [Mode EXCEPT !.options = <<"b", "a">>]>>),
  WithRows(Base, <<[Mode EXCEPT !.pending = TRUE]>>),
  AllGrids, [Grids EXCEPT !.groups = <<2>>], Grids,
  Sizes, [Sizes EXCEPT !.small = TRUE]}
\* The page of cells, alone.
MCCells == {AllGrids}
MCLevels == <<"1", "2", "3">>

screensVars == <<part, docVars, hexVars, formVars, filesVars, menuVars, viewVars>>

ScreensInit ==
  /\ part \in Parts
  /\ IF part = "document" THEN DocInit ELSE doc = <<>> /\ kept = <<>> /\ pasting = <<>> /\ past = <<>>
  /\ IF part = "hex" THEN HexInit ELSE hex = <<>> /\ flash = <<>>
  /\ IF part = "form" THEN FormInit ELSE form = <<>> /\ values = <<>> /\ outcome = <<>>
  /\ IF part = "files" THEN FilesInit ELSE files = <<>> /\ picked = <<>>
  /\ IF part = "menu" THEN MenuInit ELSE menu = <<>> /\ ran = <<>>
  /\ IF part = "device" THEN DeviceInit
     ELSE v = <<>> /\ snap = <<>> /\ screen = <<>> /\ seen = <<>> /\ waiting = <<>>
ScreensNext ==
  /\ UNCHANGED part
  /\ \/ part = "document" /\ DocNext /\ UNCHANGED <<hexVars, formVars, filesVars, menuVars, viewVars>>
     \/ part = "hex" /\ HexNext /\ UNCHANGED <<docVars, formVars, filesVars, menuVars, viewVars>>
     \/ part = "form" /\ FormNext /\ UNCHANGED <<docVars, hexVars, filesVars, menuVars, viewVars>>
     \/ part = "files" /\ FilesNext /\ UNCHANGED <<docVars, hexVars, formVars, menuVars, viewVars>>
     \/ part = "menu" /\ MenuNext /\ UNCHANGED <<docVars, hexVars, formVars, filesVars, viewVars>>
     \/ part = "device" /\ DeviceNext /\ UNCHANGED <<docVars, hexVars, formVars, filesVars, menuVars>>
ScreensSpec == ScreensInit /\ [][ScreensNext]_screensVars

----------------------------------------------------------------------------
\* The types of the six.
ScreensTypeOK ==
  CASE part = "document" -> DocTypeOK
    [] part = "hex" -> HexTypeOK
    [] part = "form" -> FormTypeOK
    [] part = "files" -> FilesTypeOK
    [] part = "menu" -> MenuTypeOK
    [] part = "device" -> DeviceTypeOK

\* Neither editor calls a draft unmodified that differs from what its caller has
\* stored, whatever was undone, redone, overwritten or refused by the caller's save,
\* and nothing stays behind of a draft of the view.
DraftsAreHonest ==
  CASE part = "document" -> DocIsHonest
    [] part = "hex" -> HexIsHonest
    [] part = "device" -> DraftIsScrubbed
    [] OTHER -> TRUE

\* What leaves a form or the device view is valid where it goes.
OnlyValidLeaves ==
  /\ part = "form" => AcceptedIsConsistent
  /\ part = "device" => RequestIsAllowed

\* What is shown is current: retained painting shows what painting everything would,
\* and no folder is loaded twice into the tree.
ShowsWhatIs ==
  /\ part = "device" => ScreenIsCurrent
  /\ part = "files" => LoadedOnce

\* What a key picks, runs or changes is what the user was shown, and a step back, of
\* the document or out of a submenu, returns to what was there.
ActsOnWhatIsShown ==
  [][ CASE part = "document" -> UndoIsOneStep
        [] part = "files" -> PicksWhatIsShown
        [] part = "menu" -> RunsWhatIsShown /\ ParentIsRestored
        [] part = "device" -> DraftAppliesToSeen
        [] OTHER -> TRUE ]_screensVars
=============================================================================
