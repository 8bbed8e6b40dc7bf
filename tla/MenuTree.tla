------------------------------ MODULE MenuTree ------------------------------
(* The menus of src/src/portable_menu.inc and portable_list.inc: a path into *)
(* the caller's tree, shown as a numbered transcript, as a framed table or   *)
(* as a filtered list, whichever the style and the terminal allow.           *)
EXTENDS Naturals, Sequences, FiniteSets, SequencesExt

CONSTANTS
  Menus,       \* the caller's menus: the sequence of items of each
  TopMenu,     \* the one it opens
  MenuDepth,   \* PS_MENU_DEPTH
  Filters,     \* the filter texts
  Hits,        \* Hits[t][m][i]: the filters item i of menu m matches while the
               \* caller's descriptions are its t-th
  Digits       \* the digits typed

VARIABLES
  menu,        \* the menu_* fields of the session
  ran          \* history variable: the item run last, its menu and index
menuVars == <<menu, ran>>

NoFilter == ""
Nothing == 0
InputLimit == 3

\* An item that does not run leads to one of the caller's menus, or nowhere; the
\* header refuses a PS_MENU_DEPTH of zero.
ASSUME MenuAssumption ==
  /\ MenuDepth \in Nat \ {0}
  /\ TopMenu \in DOMAIN Menus
  /\ \A t \in DOMAIN Menus :
       Menus[t] \in Seq([run : BOOLEAN, off : BOOLEAN, sub : DOMAIN Menus \cup {""}])

Top(m) == Last(m.path)
Items(m) == Menus[Top(m)]

\* menu_list and menu_framed: what the style asks for if the terminal has room.
View(m) == CASE m.style = "list" /\ m.size = "large" -> "list"
             [] m.style # "plain" /\ m.size # "small" -> "framed"
             [] OTHER -> "plain"

\* list_index: the provider's indices the filter leaves, in their order; the k-th
\* is the one up to which k of them match.
Numbers(count) == [i \in 1..count |-> i]
Filtered(count, filter, hits) ==
  IF filter = NoFilter THEN Numbers(count)
  ELSE LET kept == {i \in 1..count : filter \in hits[i]}
       IN  [k \in 1..Cardinality(kept) |-> CHOOSE i \in kept : Cardinality({j \in kept : j <= i}) = k]
Matching(m) == Filtered(Len(Items(m)), m.filter, Hits[m.texts][Top(m)])
\* The rows of the present view: what a position of the cursor stands for.
Shows(m) == CASE View(m) = "list" -> Matching(m)
              [] View(m) = "framed" -> Numbers(Len(Items(m)))
              [] OTHER -> <<>>

\* menu_draw and list_draw keep the cursor among the rows and show its item.
Draw(m) ==
  LET rows == Shows(m)
      at == IF m.at > Len(rows) /\ View(m) # "plain"
            THEN IF rows = <<>> THEN 1 ELSE Len(rows) ELSE m.at
  IN  [m EXCEPT !.at = at, !.shown = IF rows = <<>> THEN Nothing ELSE rows[at]]

\* ps_menu_refresh: the views with a number line forget it.
Refreshed(m) == Draw(IF View(m) = "list" THEN m ELSE [m EXCEPT !.input = <<>>, !.bad = FALSE])

Unfiltered(m) == [m EXCEPT !.filter = NoFilter, !.filtering = FALSE]
MenuClosed(m) == Unfiltered([m EXCEPT !.path = <<>>, !.saved = <<>>, !.input = <<>>,
                                      !.bad = FALSE, !.at = 1, !.shown = Nothing])

\* Mutant: the parent starts at its first item.
BackToFirst(m) ==
  IF Len(m.path) = 1 THEN MenuClosed(m)
  ELSE Refreshed([Unfiltered(m) EXCEPT !.path = Front(@), !.saved = Front(@), !.at = 1])
\* ps_menu_choose(0): back to the parent and the item it was left from.
Back(m) ==
  IF Len(m.path) = 1 THEN MenuClosed(m)
  ELSE Refreshed([Unfiltered(m) EXCEPT !.path = Front(@), !.saved = Front(@), !.at = Last(m.saved)])

\* ps_menu_choose(n) is refused, descends, or closes the menu and runs the item.
Runs(item) == item.run /\ ~item.off
Refused(m, n) ==
  \/ n \notin 1..Len(Items(m)) \/ Items(m)[n].off
  \/ ~Items(m)[n].run /\ (Items(m)[n].sub = "" \/ Len(m.path) = MenuDepth)
Descended(m, n) ==
  Refreshed([Unfiltered(m) EXCEPT !.path = Append(@, Items(m)[n].sub), !.saved = Append(@, n),
                                  !.at = 1])

\* What becomes of a choice: m is the menu it is made in, refused what is left
\* of it when the choice is refused.
Chooses(m, n, refused) ==
  CASE n = 0 -> menu' = Back(m) /\ UNCHANGED ran
    [] n # 0 /\ Refused(m, n) -> menu' = refused /\ UNCHANGED ran
    [] n # 0 /\ ~Refused(m, n) /\ Items(m)[n].run ->
         menu' = MenuClosed(m) /\ ran' = <<[menu |-> Top(m), item |-> n]>>
    [] OTHER -> menu' = Descended(m, n) /\ UNCHANGED ran

MenuIs(m) == menu' = m /\ UNCHANGED ran
MenuOpened == menu.path # <<>>
Typing == MenuOpened /\ View(menu) # "list"
Filtering == MenuOpened /\ View(menu) = "list" /\ menu.filtering
Value(digits) == FoldLeft(LAMBDA n, d : 10 * n + d, 0, digits)

MenuOpen ==
  ~MenuOpened /\ menu' = Refreshed([menu EXCEPT !.path = <<TopMenu>>]) /\ ran' = <<>>

\* The cursor keys, the wheel and a click; the number line is dropped.
MenuSelect(i) ==
  /\ MenuOpened /\ ~Filtering /\ i \in 1..Len(Shows(menu))
  /\ MenuIs(Draw([menu EXCEPT !.at = i, !.bad = FALSE,
                              !.input = IF View(menu) = "list" THEN @ ELSE <<>>]))

\* Mutant: the position in the filtered list is taken for the index.
MenuEnterAt ==
  /\ MenuOpened
  /\ LET cursor == View(menu) = "list" \/ (View(menu) = "framed" /\ menu.input = <<>> /\ ~menu.bad)
         rows == Shows(menu)
         cleared == [menu EXCEPT !.input = <<>>, !.bad = FALSE]
         refused == Draw([menu EXCEPT !.bad = TRUE])
     IN  CASE Filtering -> MenuIs(Draw([menu EXCEPT !.filtering = FALSE, !.at = 1]))
           [] ~Filtering /\ cursor /\ rows = <<>> -> MenuIs(refused)
           [] ~Filtering /\ cursor /\ rows # <<>> -> Chooses(menu, menu.at, refused)
           [] ~cursor /\ (menu.bad \/ menu.input = <<>>) -> MenuIs(Refreshed(cleared))
           [] OTHER -> Chooses(cleared, Value(menu.input), Refreshed(cleared))
\* Enter: the filter is accepted, or the highlighted item chosen, or the number.
MenuEnter ==
  /\ MenuOpened
  /\ LET cursor == View(menu) = "list" \/ (View(menu) = "framed" /\ menu.input = <<>> /\ ~menu.bad)
         rows == Shows(menu)
         cleared == [menu EXCEPT !.input = <<>>, !.bad = FALSE]
         refused == Draw([menu EXCEPT !.bad = TRUE])
     IN  CASE Filtering -> MenuIs(Draw([menu EXCEPT !.filtering = FALSE, !.at = 1]))
           [] ~Filtering /\ cursor /\ rows = <<>> -> MenuIs(refused)
           [] ~Filtering /\ cursor /\ rows # <<>> -> Chooses(menu, rows[menu.at], refused)
           [] ~cursor /\ (menu.bad \/ menu.input = <<>>) -> MenuIs(Refreshed(cleared))
           [] OTHER -> Chooses(cleared, Value(menu.input), Refreshed(cleared))

MenuEscape ==
  /\ MenuOpened
  /\ IF View(menu) = "list" /\ (menu.filtering \/ menu.filter # NoFilter)
     THEN MenuIs(Draw([Unfiltered(menu) EXCEPT !.at = 1, !.bad = FALSE]))
     ELSE MenuIs(Back(menu))

\* Ctrl-C.
MenuCancel == MenuOpened /\ MenuIs(MenuClosed(menu))

MenuDigit(d) ==
  /\ Typing
  /\ MenuIs(IF Len(menu.input) = InputLimit THEN [menu EXCEPT !.bad = TRUE]
            ELSE [menu EXCEPT !.input = Append(@, d)])

\* Any other character spoils the number, without a repaint.
MenuLetter == Typing /\ MenuIs([menu EXCEPT !.bad = TRUE])

MenuErase ==
  /\ Typing /\ (menu.bad \/ menu.input # <<>>)
  /\ MenuIs(IF menu.bad THEN [menu EXCEPT !.bad = FALSE] ELSE [menu EXCEPT !.input = Front(@)])
\* Ctrl-U.
MenuClearLine == Typing /\ MenuIs([menu EXCEPT !.input = <<>>, !.bad = FALSE])

\* "/", and any key that edits the filter: the cursor starts over.
MenuFilter ==
  /\ MenuOpened /\ View(menu) = "list" /\ ~menu.filtering
  /\ MenuIs(Draw([menu EXCEPT !.filtering = TRUE, !.bad = FALSE]))
MenuFilterIs(f) ==
  /\ Filtering
  /\ MenuIs(Draw([menu EXCEPT !.filter = f, !.at = 1, !.bad = FALSE]))

\* ps_resize.
MenuResize(size) == MenuOpened /\ size # menu.size /\ MenuIs(Refreshed([menu EXCEPT !.size = size]))

\* The caller changes its descriptions and refreshes the menu.
MenuDescribe(t) == MenuOpened /\ t # menu.texts /\ MenuIs(Refreshed([menu EXCEPT !.texts = t]))

\* ps_menu_choose called by the application.
MenuChoose(n) == MenuOpened /\ Chooses(menu, n, menu)

MenuNone ==
  [path |-> <<>>, saved |-> <<>>, at |-> 1, input |-> <<>>, bad |-> FALSE, filter |-> NoFilter,
   filtering |-> FALSE, shown |-> Nothing, style |-> "plain", size |-> "large", texts |-> 1]
MenuInit ==
  /\ \E style \in {"plain", "table", "list"} :
       menu = Refreshed([MenuNone EXCEPT !.style = style, !.path = <<TopMenu>>])
  /\ ran = <<>>

MenuNext ==
  \/ MenuOpen \/ MenuEnter \/ MenuEscape \/ MenuCancel
  \/ MenuLetter \/ MenuErase \/ MenuClearLine \/ MenuFilter
  \/ \E i \in 1..3 : MenuSelect(i) \/ \E d \in Digits : MenuDigit(d) \/ MenuChoose(d)
  \/ \E f \in Filters \cup {NoFilter} : MenuFilterIs(f)
  \/ \E size \in {"large", "medium", "small"} : MenuResize(size)
  \/ \E t \in DOMAIN Hits : MenuDescribe(t)

-----------------------------------------------------------------------------
MenuTypeOK ==
  /\ Len(menu.path) <= MenuDepth
  /\ MenuOpened => Len(menu.saved) = Len(menu.path) - 1
  /\ MenuOpened /\ View(menu) # "plain" => menu.at \in 1..Len(Shows(menu)) \/ Shows(menu) = <<>>
  /\ Len(menu.input) <= InputLimit

\* An item that a key runs is enabled and is the one the user saw selected, or
\* whose number is on the line: through filtering, resizing between the views,
\* new descriptions and the way back from a submenu.
RunsWhatIsShown ==
  MenuEnter /\ ran' # ran =>
       LET r == Last(ran')
       IN  /\ r.menu = Top(menu) /\ Runs(Items(menu)[r.item])
           /\ r.item = IF View(menu) = "list" \/ menu.input = <<>> THEN menu.shown
                       ELSE Value(menu.input)

\* "Returning from a submenu restores the parent selection."
ParentIsRestored ==
  menu'.path # <<>> /\ Len(menu'.path) < Len(menu.path) /\ View(menu') # "plain" =>
       Items(menu')[menu'.shown].sub = Top(menu)
=============================================================================
