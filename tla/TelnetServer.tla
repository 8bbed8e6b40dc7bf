---------------------------- MODULE TelnetServer ----------------------------
(* The TCP server of src/host/posix.c: one thread, a fixed number of slots   *)
(* with a session and an output queue each, sockets that never block.  A     *)
(* byte is named by its connection and its place in what the session wrote.  *)
EXTENDS Naturals, Sequences, FiniteSets

CONSTANTS
  Conns,       \* the clients that connect, in this order
  Slots,       \* CLIENTS
  Queue,       \* the bytes a channel queues
  Wire,        \* the bytes the kernel takes from a socket nobody reads
  Keys,        \* how many bytes each client sends, the last of them to leave
  Reply        \* how many the session writes for each

VARIABLES
  channel,  \* of each slot [conn (0: free), used, failed]
  server,   \* [pc, ready (the slots poll reported), at (the slot its loop has reached), stopping]
  session,  \* of each connection [wrote, exited]
  client    \* of each connection [state, in (sent, not read), keys (left), out (on the way), taken]
serverVars == <<channel, server, session, client>>

Listener == 0
ServerAt(pc) == server.pc = pc
Owner(i) == channel[i].conn
Busy(i) == Owner(i) # 0
Linked(c) == client[c].state = "open"
Least(a, b) == IF a < b THEN a ELSE b

NoChannel == [conn |-> 0, used |-> <<>>, failed |-> FALSE]
Peer == [state |-> "away", in |-> 0, keys |-> 0, out |-> <<>>, taken |-> 0]
NoSession == [wrote |-> 0, exited |-> FALSE]
\* A connection that was closed: what the kernel still holds of it is left out.
Over == [Peer EXCEPT !.state = "closed"]
ServerInit ==
  /\ channel = [i \in 1..Slots |-> NoChannel]
  /\ server = [pc |-> "poll", ready |-> {}, at |-> 1, stopping |-> FALSE]
  /\ session = [c \in 1..Conns |-> NoSession]
  /\ client = [c \in 1..Conns |-> [Peer EXCEPT !.keys = Keys[c]]]

----------------------------------------------------------------------------
\* Channels.  tx for every byte of a text, then flush: the queue is emptied into
\* the socket when it is full and at the end, as far as the kernel takes it; a
\* queue that stays full fails the channel, and so does a socket that is gone.
\* The result is [ch, out], the channel and what the kernel holds of it.
Sent(ch, out, gone, text) ==
  LET room == IF gone \/ ch.failed THEN 0 ELSE Wire - Len(out)
      all == ch.used \o text
      moved == Least(Len(all), room) IN
  [ch |-> [ch EXCEPT !.failed = @ \/ Len(all) > Queue + room \/ (gone /\ all # <<>>),
                     !.used = SubSeq(all, moved + 1, Least(Len(all), Queue + room))],
   out |-> out \o SubSeq(all, 1, moved)]

----------------------------------------------------------------------------
\* The loop: poll and accept in one step, for a waiting client only waits.  A
\* poll that a signal interrupted leaves in revents whatever was there.
\* Mutant: the slot's last client leaves its output behind.
AcceptOver(i, c) == [channel EXCEPT ![i].conn = c, ![i].failed = FALSE]
\* A new session in a slot starts with an empty channel, and writes its prompt.
Occupied(i, c) == [channel EXCEPT ![i] = [NoChannel EXCEPT !.conn = c, !.used = <<<<c, 1>>>>]]
Waiting == {c \in 1..Conns : client[c].state = "waiting"}
Accept ==
  LET free == {i \in 1..Slots : ~Busy(i)}
      c == CHOOSE d \in Waiting : \A e \in Waiting : d <= e
      i == CHOOSE s \in free : \A t \in free : s <= t IN
  IF Waiting = {} THEN UNCHANGED <<channel, session, client>>
  ELSE IF free = {} THEN client' = [client EXCEPT ![c].state = "refused"] /\ UNCHANGED <<channel, session>>
  ELSE /\ client' = [client EXCEPT ![c].state = "open"]
       /\ session' = [session EXCEPT ![c].wrote = 1]
       /\ channel' = Occupied(i, c)
Polled(ready, stopping) ==
  /\ server' = [pc |-> "serve", at |-> 1, ready |-> ready \ {Listener}, stopping |-> stopping]
  /\ IF Listener \in ready THEN Accept ELSE UNCHANGED <<channel, session, client>>
Poll ==
  /\ ServerAt("poll")
  /\ IF server.stopping THEN server' = [server EXCEPT !.pc = "close"] /\ UNCHANGED <<channel, session, client>>
     ELSE \/ Polled((IF Waiting # {} THEN {Listener} ELSE {}) \cup
                    {i \in 1..Slots : Busy(i) /\ (client[Owner(i)].in > 0 \/ client[Owner(i)].state = "gone")}, FALSE)
          \/ \E junk \in SUBSET (0..Slots) : Polled(junk, TRUE)
\* One slot: read and feed, tick, flush, and close what failed or is finished.
\* A client's last byte asks its session to leave.
Next_(i) == server' = [server EXCEPT !.at = IF i = Slots THEN 1 ELSE i + 1, !.ready = @ \ {i},
                                     !.pc = IF i = Slots THEN "poll" ELSE "serve"]
ServeFree(i) == ~Busy(i) /\ UNCHANGED <<channel, session, client>>
ServeBusy(i) ==
  /\ Busy(i)
  /\ LET c == Owner(i)
         reads == i \in server.ready
         fed == IF reads /\ ~session[c].exited THEN client[c].in ELSE 0
         text == [k \in 1..(IF session[c].exited THEN 0 ELSE fed * Reply) |-> <<c, session[c].wrote + k>>]
         lost == reads /\ client[c].in = 0 /\ client[c].state = "gone"
         w == Sent([channel[i] EXCEPT !.failed = @ \/ lost], client[c].out, client[c].state = "gone", text)
         exited == session[c].exited \/ (fed > 0 /\ client[c].keys = 0)
         over == w.ch.failed \/ (exited /\ w.ch.used = <<>>) IN
     /\ session' = [session EXCEPT ![c] = IF over THEN NoSession ELSE [wrote |-> @.wrote + Len(text), exited |-> exited]]
     /\ channel' = [channel EXCEPT ![i] = IF over THEN [w.ch EXCEPT !.conn = 0] ELSE w.ch]
     /\ client' = [client EXCEPT ![c] = IF over THEN Over ELSE [client[c] EXCEPT !.in = IF reads THEN 0 ELSE client[c].in, !.out = w.out]]
\* Mutant: a socket that blocks.
ServeBlocking(i) ==
  /\ \/ ServeFree(i)
     \/ Busy(i) /\ (channel[i].used = <<>> \/ Len(client[Owner(i)].out) < Wire) /\ ServeBusy(i)
  /\ Next_(i)
ServeSlot(i) == (ServeFree(i) \/ ServeBusy(i)) /\ Next_(i)
Serve == ServerAt("serve") /\ ServeSlot(server.at)
CloseServer ==
  /\ ServerAt("close") /\ server' = [server EXCEPT !.pc = "done"] /\ UNCHANGED session
  /\ channel' = [i \in 1..Slots |-> [channel[i] EXCEPT !.conn = 0]]
  /\ client' = [c \in 1..Conns |-> IF client[c].state \in {"open", "gone", "waiting"}
                                   THEN Over ELSE client[c]]
Server == Poll \/ Serve \/ CloseServer

----------------------------------------------------------------------------
\* The clients.
Connect(c) == /\ client[c].state = "away" /\ (c > 1 => client[c - 1].state # "away")
              /\ client' = [client EXCEPT ![c].state = "waiting"] /\ UNCHANGED <<channel, server, session>>
Send(c) == /\ Linked(c) /\ client[c].keys > 0
           /\ client' = [client EXCEPT ![c].keys = @ - 1, ![c].in = @ + 1] /\ UNCHANGED <<channel, server, session>>
Take(c) == /\ client[c].out # <<>>
           /\ client' = [client EXCEPT ![c].out = Tail(@), ![c].taken = @ + 1]
           /\ UNCHANGED <<channel, server, session>>
Leave(c) == /\ Linked(c) /\ client' = [client EXCEPT ![c].state = "gone", ![c].out = <<>>]
            /\ UNCHANGED <<channel, server, session>>
Clients == server.pc # "done" /\ \E c \in 1..Conns : Connect(c) \/ Send(c) \/ Take(c) \/ Leave(c)

ServerNext == Server \/ Clients
\* The kernel runs the server; no client owes it anything.
ServerSpec == ServerInit /\ [][ServerNext]_serverVars /\ WF_serverVars(Server)

----------------------------------------------------------------------------
ServerTypeOK ==
  /\ channel \in [1..Slots -> [conn : 0..Conns, used : Seq((1..Conns) \X Nat), failed : BOOLEAN]]
  /\ \A i \in 1..Slots : Len(channel[i].used) <= Queue
  /\ server \in [pc : {"poll", "serve", "close", "done"}, ready : SUBSET (0..Slots),
                 at : 1..(Slots + 1), stopping : BOOLEAN]
  /\ session \in [1..Conns -> [wrote : Nat, exited : BOOLEAN]]
  /\ \A c \in 1..Conns : /\ client[c].state \in {"away", "waiting", "open", "gone", "closed", "refused"}
                         /\ client[c].in \in 0..Keys[c] /\ Len(client[c].out) <= Wire

\* What reaches a client is the beginning of what its own session wrote: nothing
\* of the client its slot served before, nothing after a byte that was dropped.
EachItsOwn ==
  \A c \in 1..Conns : \A k \in 1..Len(client[c].out) : client[c].out[k] = <<c, client[c].taken + k>>
\* What a client sends is read, unless its connection ends, however many of the
\* others have stopped reading.
InputIsServed == \A c \in 1..Conns : client[c].in > 0 ~> (client[c].in = 0 \/ ~Linked(c))
\* No client is served by two slots, and none that has a slot is turned away.
OneSlotEach ==
  /\ \A i, j \in 1..Slots : Busy(i) /\ Owner(i) = Owner(j) => i = j
  /\ \A c \in 1..Conns : client[c].state \in {"open", "gone"} <=> \E i \in 1..Slots : Owner(i) = c
=============================================================================
