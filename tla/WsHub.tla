------------------------------- MODULE WsHub -------------------------------
(***************************************************************************)
(* The fan-out of events to WebSocket clients: who is connected, what each *)
(* has subscribed to, and the send tasks a broadcast leaves behind.        *)
(* Source: backend/app/api/ws.py.                                          *)
(*                                                                         *)
(* A client is one connection.  Its system messages (connected,            *)
(* subscribed, heartbeat) are left out.  The tasks of one client run in    *)
(* the order they were made, which is the event loop's.  A channel is      *)
(* written in its parts, <<"account", "fills">> for "account.fills".       *)
(***************************************************************************)
EXTENDS Naturals, Sequences, Lists
CONSTANTS WsClients, Subscriptions  \* connections, and what one may ask for

VARIABLES socket,     \* the connection as the network has it
          subs,       \* WsHub.clients: subscriptions of registered connections
          sending,    \* send tasks that have not run, per connection
          received,   \* what each open connection was sent
          broadcasts, \* ghost: everything broadcast so far
          since       \* ghost: how many broadcasts preceded each subscription
wsVars == <<socket, subs, sending, received, broadcasts, since>>

Registered == DOMAIN subs
Matches(channel, wanted) == {channel, <<channel[1]>>, <<"*">>} \intersect wanted # {}

\* An event is sent to whoever subscribed to it.  The task that finds its
\* connection closed raises where nobody looks, and is not kept.
Receivers(channel) == {c \in Registered : Matches(channel, subs[c]) /\ socket[c] = "open"}

\* The events of a log at the given places, in the order of the log.
EventsAt(log, ids) ==
  [k \in DOMAIN InOrder(ids) |-> <<log[InOrder(ids)[k]], InOrder(ids)[k]>>]

\* Broadcasts the channels of one handler, in the order it makes them.
Broadcast(channels) ==
  LET log == broadcasts \o channels
      News(c) == {n \in DOMAIN log : n > Len(broadcasts) /\ c \in Receivers(log[n])}
  IN /\ sending' = [c \in WsClients |-> sending[c] \o EventsAt(log, News(c))]
     /\ broadcasts' = log
     /\ UNCHANGED <<socket, subs, received, since>>

\* A subscription adds to the ones the connection has.
\* Bug: it replaces them.
Replaced(old, channels) == channels
Subscribed(old, channels) == old \union channels

Connect(c) ==
  /\ socket[c] = "new"
  /\ socket' = [socket EXCEPT ![c] = "open"]
  /\ subs' = [d \in Registered \union {c} |-> IF d = c THEN {} ELSE subs[d]]
  /\ UNCHANGED <<sending, received, broadcasts, since>>

Subscribe(c, channels) ==
  /\ socket[c] = "open" /\ c \in Registered
  /\ subs' = [subs EXCEPT ![c] = Subscribed(@, channels)]
  /\ since' = [since EXCEPT ![c] = [ch \in DOMAIN @ \union channels |->
                 IF ch \in DOMAIN @ THEN @[ch] ELSE Len(broadcasts)]]
  /\ UNCHANGED <<socket, sending, received, broadcasts>>

RunSend(c) ==
  /\ sending[c] # <<>>
  /\ sending' = [sending EXCEPT ![c] = Tail(@)]
  /\ received' = [received EXCEPT ![c] = Append(@, Head(sending[c]))]
  /\ UNCHANGED <<socket, subs, broadcasts, since>>

\* A connection that is closed gets nothing more.
Closed(c) ==
  /\ socket' = [socket EXCEPT ![c] = "closed"]
  /\ sending' = [sending EXCEPT ![c] = <<>>]
  /\ received' = [received EXCEPT ![c] = <<>>]
  /\ since' = [since EXCEPT ![c] = <<>>]
  /\ UNCHANGED broadcasts

\* The client goes away, which the endpoint notices later; or a message of
\* it cannot be read, and the endpoint ends.
Leave(c) == socket[c] = "open" /\ Closed(c) /\ UNCHANGED subs
Unregister(c) ==
  /\ c \in Registered
  /\ Closed(c)
  /\ subs' = [d \in Registered \ {c} |-> subs[d]]

WsInit ==
  /\ socket = [c \in WsClients |-> "new"]
  /\ subs = <<>>
  /\ sending = [c \in WsClients |-> <<>>]
  /\ received = [c \in WsClients |-> <<>>]
  /\ broadcasts = <<>>
  /\ since = [c \in WsClients |-> <<>>]

WsStep ==
  \E c \in WsClients :
    \/ Connect(c) \/ RunSend(c) \/ Leave(c) \/ Unregister(c)
    \/ \E channels \in Subscriptions : Subscribe(c, channels)

-----------------------------------------------------------------------------
\* What an open connection has been sent, with what is on its way to it, is
\* every event of its channels since it first asked for one of them: none
\* lost, none twice, in the order the runtime broadcast them, whatever the
\* other connections do.
Due(c) ==
  EventsAt(broadcasts, {n \in DOMAIN broadcasts :
             Matches(broadcasts[n], {ch \in DOMAIN since[c] : since[c][ch] < n})})
FanOutExact ==
  \A c \in Registered : socket[c] = "open" => received[c] \o sending[c] = Due(c)
=============================================================================
