----------------------------- MODULE FormDialog -----------------------------
(* The form of src/src/portable_form.inc: one field at a time is edited in   *)
(* the session's buffer; Enter, and Tab or Shift-Tab in the overview style,  *)
(* check the buffer and store it in the caller's field before they move.     *)
EXTENDS Naturals, Sequences, SequencesExt, FiniteSets

CONSTANTS
  Fields,          \* the caller's fields: kind, minimum, maximum, capacity, choices
  Filled,          \* the values its fields may hold at opening, a tuple each
  Letters,         \* the characters typed
  Cells,           \* PS_VALUE - 1: the characters the edit buffer may hold
  Refuses(_, _, _) \* the caller's validate: field, candidate, values stored

VARIABLES
  form,            \* the form_* fields of the session, and its edit buffer
  values,          \* the caller's storage, f->value
  outcome          \* what the done callback was told
formVars == <<form, values, outcome>>

\* What ps_form_open refuses otherwise: there are fields, and what they hold fits.
ASSUME FormAssumption ==
  /\ Fields # <<>> /\ Fields \in Seq([kind : STRING, minimum : Nat, maximum : Nat, capacity : Nat,
                                     choices : Seq(Seq(STRING))])
  /\ Cells \in Nat /\ Letters \subseteq STRING
  /\ Filled \subseteq [1..Len(Fields) -> Seq(STRING)]
  /\ \A stored \in Filled : \A i \in 1..Len(Fields) : Fields[i].kind # "choice" => Len(stored[i]) <= Cells

Unlimited == 0
NoChoice == 1

\* form_load: the buffer, or the selection, starts at the stored value.
Loaded(overview, at, stored) ==
  LET f == Fields[at]
      matching == {i \in 1..Len(f.choices) : f.choices[i] = stored[at]}
  IN  [open |-> TRUE, overview |-> overview, at |-> at, error |-> FALSE,
       edit |-> IF f.kind = "choice" THEN <<>> ELSE stored[at],
       choice |-> IF matching = {} THEN NoChoice
                  ELSE CHOOSE i \in matching : \A j \in matching : i <= j]

\* form_finish: the buffer is cleared and the callback told, once.
FormClosed == [open |-> FALSE, overview |-> FALSE, at |-> 1, error |-> FALSE,
               edit |-> <<>>, choice |-> NoChoice]
Finish(accepted) == form' = FormClosed /\ outcome' = Append(outcome, accepted)

Candidate == IF Fields[form.at].kind = "choice" THEN Fields[form.at].choices[form.choice]
                                                ELSE form.edit

\* The four checks of form_key, the caller's last.
Passes(at, value, stored) ==
  LET f == Fields[at]
  IN  /\ Len(value) >= f.minimum
      /\ f.maximum # Unlimited => Len(value) <= f.maximum
      /\ Len(value) < f.capacity
      /\ ~Refuses(at, value, stored)

\* Mutant: Tab leaves a field unchecked.
FormStepTab(key) ==
  /\ form.open /\ (key = "enter" \/ form.overview)
  /\ IF key # "tab" /\ ~Passes(form.at, Candidate, values)
     THEN form' = [form EXCEPT !.error = TRUE] /\ UNCHANGED <<values, outcome>>
     ELSE /\ values' = [values EXCEPT ![form.at] = Candidate]
          /\ CASE key = "backtab" /\ form.at > 1 ->
                    form' = Loaded(form.overview, form.at - 1, values') /\ UNCHANGED outcome
               [] key # "backtab" /\ form.at < Len(Fields) ->
                    form' = Loaded(form.overview, form.at + 1, values') /\ UNCHANGED outcome
               [] key = "enter" /\ form.at = Len(Fields) -> Finish(TRUE)
               [] OTHER -> form' = Loaded(form.overview, form.at, values') /\ UNCHANGED outcome
\* Enter, and in the overview Tab and Shift-Tab.
FormStep(key) ==
  /\ form.open /\ (key = "enter" \/ form.overview)
  /\ IF ~Passes(form.at, Candidate, values)
     THEN form' = [form EXCEPT !.error = TRUE] /\ UNCHANGED <<values, outcome>>
     ELSE /\ values' = [values EXCEPT ![form.at] = Candidate]
          /\ CASE key = "backtab" /\ form.at > 1 ->
                    form' = Loaded(form.overview, form.at - 1, values') /\ UNCHANGED outcome
               [] key # "backtab" /\ form.at < Len(Fields) ->
                    form' = Loaded(form.overview, form.at + 1, values') /\ UNCHANGED outcome
               [] key = "enter" /\ form.at = Len(Fields) -> Finish(TRUE)
               [] OTHER -> form' = Loaded(form.overview, form.at, values') /\ UNCHANGED outcome

\* Esc, Ctrl-C and ps_form_close: what was stored stays stored.
FormCancel == form.open /\ Finish(FALSE) /\ UNCHANGED values

Edits(text) == form' = [form EXCEPT !.edit = text, !.error = FALSE] /\ UNCHANGED <<values, outcome>>
EditsText == form.open /\ Fields[form.at].kind # "choice"

\* A character at any place of the buffer, typed or pasted; a full one rings.
FormType(c) ==
  /\ EditsText
  /\ IF Len(form.edit) >= Cells
     THEN form' = [form EXCEPT !.error = TRUE] /\ UNCHANGED <<values, outcome>>
     ELSE \E p \in 1..Len(form.edit) + 1 : Edits(InsertAt(form.edit, p, c))

\* Backspace and Delete anywhere, and Ctrl-U.
FormErase ==
  /\ EditsText
  /\ Edits(<<>>) \/ \E p \in 1..Len(form.edit) : Edits(RemoveAt(form.edit, p))

\* Up, Down, Home, End and a click.
FormChoose(i) ==
  /\ form.open /\ Fields[form.at].kind = "choice" /\ i \in 1..Len(Fields[form.at].choices)
  /\ form' = [form EXCEPT !.choice = i, !.error = FALSE] /\ UNCHANGED <<values, outcome>>

FormInit ==
  /\ values \in Filled
  /\ \E o \in BOOLEAN : form = Loaded(o, 1, values)
  /\ outcome = <<>>

FormNext ==
  \/ \E k \in {"enter", "tab", "backtab"} : FormStep(k)
  \/ FormCancel \/ FormErase
  \/ \E c \in Letters : FormType(c)
  \/ \E i \in 1..2 : FormChoose(i)

-----------------------------------------------------------------------------
FormTypeOK ==
  /\ form.at \in 1..Len(Fields)
  /\ Len(form.edit) <= Cells
  /\ ~form.open => form.edit = <<>>
  /\ Len(outcome) = IF form.open THEN 0 ELSE 1

\* A form reported as accepted is consistent: every field passes the caller's
\* check against the values stored before it, whichever way the user went back
\* and forth and whatever was changed on the way.
AcceptedIsConsistent ==
  outcome = <<TRUE>> =>
    \A i \in 1..Len(Fields) : Passes(i, values[i], values)
=============================================================================
