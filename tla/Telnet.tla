-------------------------------- MODULE Telnet --------------------------------
(***************************************************************************)
(* The Telnet decoder of include/portable_terminal.h: bytes from the       *)
(* terminal are data, commands that negotiate options, or subnegotiations  *)
(* that carry a window size or a terminal's name.  An operator takes the   *)
(* decoder and returns what it becomes, the commands it sends and what it  *)
(* tells the session.  TerminalLink connects it to a terminal.             *)
(***************************************************************************)
EXTENDS Integers, Sequences, SequencesExt

CONSTANTS Option,   \* option codes, with "ttype" (TERMINAL-TYPE) and "naws" (window size)
          Ours,     \* options the session performs: ECHO, SUPPRESS-GO-AHEAD
          Theirs,   \* options it wants performed: SUPPRESS-GO-AHEAD, NAWS, TERMINAL-TYPE
          SubMax    \* bytes of a subnegotiation that are kept

ASSUME TelnetAssumption ==
  /\ Ours \subseteq Option /\ Theirs \subseteq Option
  /\ SubMax \in Nat

Verbs == {"WILL", "WONT", "DO", "DONT"}

\* Of an option the session performs ("us") it is told DO and DONT and says WILL and
\* WONT; of one the terminal performs ("peer") the other way round.
Side(verb)     == IF verb \in {"DO", "DONT"} THEN "us" ELSE "peer"
Positive(verb) == verb \in {"DO", "WILL"}
Yes(side)      == IF side = "us" THEN "WILL" ELSE "DO"
No(side)       == IF side = "us" THEN "WONT" ELSE "DONT"
Allowed(side)  == IF side = "us" THEN Ours ELSE Theirs

\* ps_telnet_greet offers and asks for everything it wants.
Greeting == SetToSeq({<<Yes("us"), o>> : o \in Ours} \cup {<<Yes("peer"), o>> : o \in Theirs})

\* ps_telnet_init, and what ps_telnet_greet makes of it.
Greeted ==
  [state |-> "data", verb |-> "WILL", sub |-> <<>>, overflow |-> FALSE,
   option |-> [side \in {"us", "peer"} |->
                 [o \in Option |-> IF o \in Allowed(side) THEN "offered" ELSE "off"]],
   refused |-> [side \in {"us", "peer"} |-> {}],
   columns |-> "default", terminal |-> "byte stream"]

Decoder == [state : {"data", "iac", "verb", "sub", "subiac"}, verb : Verbs,
            sub : Seq(STRING), overflow : BOOLEAN,
            option : [{"us", "peer"} -> [Option -> {"off", "on", "offered"}]],
            refused : [{"us", "peer"} -> SUBSET Option],
            columns : STRING, terminal : STRING]

Result(t, sent, event) == [t |-> t, sent |-> sent, event |-> event]

-----------------------------------------------------------------------------
\* ps_tn_negotiate.  A refusal is said once until the terminal takes the offer back.
\* What was offered, or is already so, is not answered.
Refuse(t, verb, o) ==
  LET side == Side(verb) IN
  IF Positive(verb)
  THEN Result([t EXCEPT !.refused[side] = @ \cup {o}],
              IF o \in t.refused[side] THEN <<>> ELSE <<<<No(side), o>>>>, "none")
  ELSE Result([t EXCEPT !.refused[side] = @ \ {o}], <<>>, "none")

\* (Mutations: it answers whenever it agrees; an option stays on.)
AnswersAll(was)  == TRUE
Answers(was)     == was = "off"
NegativeStays(t, side, o) == t
Negative(t, side, o) == [t EXCEPT !.option[side][o] = "off"]

Agree(t, verb, o) ==
  LET side == Side(verb)
      was  == t.option[side][o]
      ask  == IF side = "peer" /\ o = "ttype" THEN <<<<"SEND", o>>>> ELSE <<>>
  IN IF Positive(verb)
     THEN Result([t EXCEPT !.option[side][o] = "on"],
                 (IF Answers(was) THEN <<<<Yes(side), o>>>> ELSE <<>>) \o
                 (IF was = "on" THEN <<>> ELSE ask), "none")
     ELSE Result(Negative(t, side, o),
                 IF was = "on" THEN <<<<No(side), o>>>> ELSE <<>>, "none")

Negotiate(t, verb, o) ==
  IF o \in Allowed(Side(verb)) THEN Agree(t, verb, o) ELSE Refuse(t, verb, o)

\* ps_tn_append and ps_tn_sub.  (Mutation: what did not fit is forgotten.)
AppendQuietly(t, c) == IF Len(t.sub) < SubMax THEN [t EXCEPT !.sub = Append(@, c)] ELSE t
AppendSub(t, c) == IF Len(t.sub) < SubMax THEN [t EXCEPT !.sub = Append(@, c)]
                   ELSE [t EXCEPT !.overflow = TRUE]

\* The terminal's size and its name are one value each here.
SubEnds(t, was) ==
  IF was.overflow \/ Len(was.sub) # 2 \/ was.sub[1] \notin {"naws", "ttype"} THEN Result(t, <<>>, "none")
  ELSE CASE t.option["peer"][was.sub[1]] # "on" -> Result(t, <<>>, "none")
         [] was.sub[1] = "naws" -> Result([t EXCEPT !.columns = was.sub[2]], <<>>, "resize")
         [] OTHER             -> Result([t EXCEPT !.terminal = was.sub[2]], <<>>, "terminal")

\* What the interrupt and erase commands stand for.
Control(c) == CASE c = "IP" -> "ETX" [] c = "EC" -> "DEL" [] OTHER -> "NAK"

\* ps_telnet_feed: the decoder after byte c.  The event of a data byte is that byte.
\* (Verb and buffer stay as they are in the code, which sets both before it reads them.)
Idle(t) == [t EXCEPT !.state = "data", !.verb = "WILL", !.sub = <<>>, !.overflow = FALSE]
Data(t, c) == Result([t EXCEPT !.state = "data"], <<>>, c)
To(t, state) == Result([t EXCEPT !.state = state], <<>>, "none")
TelnetFeed(t, c) ==
  CASE t.state = "data" /\ c # "IAC"           -> Data(t, c)
    [] t.state = "data"                        -> To(t, "iac")
    [] t.state = "iac" /\ c = "IAC"            -> Data(t, c)
    [] t.state = "iac" /\ c \in Verbs          -> To([t EXCEPT !.verb = c], "verb")
    [] t.state = "iac" /\ c = "SB"             -> To([t EXCEPT !.sub = <<>>, !.overflow = FALSE], "sub")
    [] t.state = "iac" /\ c \in {"IP", "EC", "EL"} -> Data(t, Control(c))
    [] t.state = "iac"                         -> To(t, "data")
    [] t.state = "verb"                        -> Negotiate(Idle(t), t.verb, c)
    [] t.state = "sub" /\ c = "IAC"            -> To(t, "subiac")
    [] t.state = "sub"                         -> To(AppendSub(t, c), "sub")
    [] t.state = "subiac" /\ c = "SE"          -> SubEnds(Idle(t), t)
    [] t.state = "subiac" /\ c = "IAC"         -> To(AppendSub(t, c), "sub")
    [] OTHER                                   -> To([t EXCEPT !.overflow = TRUE], "sub")
===============================================================================
