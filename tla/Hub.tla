-------------------------------- MODULE Hub --------------------------------
(***************************************************************************)
(* The WebSocket hub and its clients.  On the server one goroutine, run,   *)
(* owns the set of connections and serves three buffered channels; every   *)
(* connection has a handler that queues its registration, reads until the  *)
(* connection fails and queues its disconnect; a failed write queues       *)
(* another one through a goroutine.  On the other side, pages that use the *)
(* hook useWebSocket dial again when their socket closes.                  *)
(*                                                                         *)
(* select takes any channel that is ready, so a disconnect may overtake    *)
(* the registration it belongs to.  The hub knows a connection by its      *)
(* object, which the framework uses again as soon as the handler has       *)
(* returned, so a disconnect may also reach the hub when its object is     *)
(* already another client's.  The heartbeat is the only caller of          *)
(* Broadcast in the program: all messages are pings, which marshal.        *)
(***************************************************************************)
EXTENDS Integers, Sequences

CONSTANTS Pages,         \* mounted components that use the hook
          Conns,         \* connection objects (the pool of the framework)
          RegisterCap,   \* of the channels; 32, 32 and 256 in the code
          UnregisterCap,
          BroadcastCap,
          MaxLeaving,    \* bound on goroutines queueing disconnects of a connection
          Null

ASSUME CapAssumption == {RegisterCap, UnregisterCap, BroadcastCap, MaxLeaving} \subseteq Nat \ {0}
ASSUME NullAssumption == Null \notin Conns

VARIABLES
  page,        \* the hook of each page: mounted, socket and reconnect timer
  link,        \* the transport of each connection object
  handler,     \* where HandleWS is
  register, unregister,   \* the channels of connections
  broadcast,   \* the number of messages in the third channel
  clients,     \* the map of the hub
  todo,        \* the clients run has yet to write to; none while it selects
  leaving      \* how many goroutines are about to queue a disconnect

channels == <<register, unregister, broadcast>>
vars == <<page, link, handler, channels, clients, todo, leaving>>

Queued(q) == {q[k] : k \in DOMAIN q}

\* The framework may give c to the next connection: its handler has returned,
\* whatever the hub still has to do with it.  (sock stands for the connection
\* itself, so that a page has noticed the end of its own before the object is
\* another page's; what it does in between is waiting.)
Free(c) ==
  /\ handler[c] \in {"none", "done"}
  /\ \A p \in Pages : page[p].sock # c

\* The hub has nothing to do with c any more.
Forgotten(c) ==
  /\ handler[c] \in {"none", "done"}
  /\ c \notin clients \cup Queued(register) \cup Queued(unregister)
  /\ leaving[c] = 0

Break(c) == link' = [link EXCEPT ![c] = "down"]

-----------------------------------------------------------------------------
(* The hook.                                                               *)

\* connect: the upgrade succeeds and the server starts a handler, or onclose
\* sets the timer (at once: the delay only says how long it will run).
Dial(p, st) ==
  \/ \E c \in Conns :
       /\ Free(c)
       /\ page' = [page EXCEPT ![p] = [st |-> st, sock |-> c, timer |-> FALSE]]
       /\ link' = [link EXCEPT ![c] = "up"]
       /\ handler' = [handler EXCEPT ![c] = "register"]
  \/ /\ page' = [page EXCEPT ![p] = [st |-> st, sock |-> Null, timer |-> TRUE]]
     /\ UNCHANGED <<link, handler>>

Mount(p) ==
  /\ page[p].st = "new"
  /\ Dial(p, "mounted")
  /\ UNCHANGED <<channels, clients, todo, leaving>>

\* A timer that dials whether or not the page is still there.
RetryAlways(p) ==
  /\ page[p].timer
  /\ Dial(p, page[p].st)
  /\ UNCHANGED <<channels, clients, todo, leaving>>

\* The timer runs out; connect does nothing once the page is unmounted.
Retry(p) ==
  /\ page[p].timer
  /\ \/ page[p].st = "mounted" /\ Dial(p, "mounted")
     \/ /\ page[p].st = "gone"
        /\ page' = [page EXCEPT ![p].timer = FALSE]
        /\ UNCHANGED <<link, handler>>
  /\ UNCHANGED <<channels, clients, todo, leaving>>

\* onclose.  The browser may notice a broken path before the server does.
OnClose(p) ==
  /\ page[p].sock # Null
  /\ link[page[p].sock] # "up"
  /\ page' = [page EXCEPT ![p].sock = Null, ![p].timer = (page[p].st = "mounted")]
  /\ UNCHANGED <<link, handler, channels, clients, todo, leaving>>

\* The cleanup of the effect.
Unmount(p) ==
  /\ page[p].st = "mounted"
  /\ page' = [page EXCEPT ![p].st = "gone"]
  /\ IF page[p].sock # Null THEN Break(page[p].sock) ELSE UNCHANGED link
  /\ UNCHANGED <<handler, channels, clients, todo, leaving>>

-----------------------------------------------------------------------------
(* The network.                                                            *)

\* A path breaks: both ends see it, or (the machine is off) nobody tells the
\* server, which finds out when what it has written stays unacknowledged.
Fail(c) ==
  /\ link[c] = "up"
  /\ Break(c) \/ link' = [link EXCEPT ![c] = "silent"]
  /\ UNCHANGED <<page, handler, channels, clients, todo, leaving>>

TimeOut(c) ==
  /\ link[c] = "unacked"
  /\ Break(c)
  /\ UNCHANGED <<page, handler, channels, clients, todo, leaving>>

-----------------------------------------------------------------------------
(* HandleWS.                                                               *)

Register(c) ==
  /\ handler[c] = "register"
  /\ Len(register) < RegisterCap
  /\ register' = Append(register, c)
  /\ handler' = [handler EXCEPT ![c] = "read"]
  /\ UNCHANGED <<page, link, unregister, broadcast, clients, todo, leaving>>

\* ReadMessage returns an error.
ReadFails(c) ==
  /\ handler[c] = "read"
  /\ link[c] = "down"
  /\ handler' = [handler EXCEPT ![c] = "unregister"]
  /\ UNCHANGED <<page, link, channels, clients, todo, leaving>>

Unregister(c) ==
  /\ handler[c] = "unregister"
  /\ Len(unregister) < UnregisterCap
  /\ unregister' = Append(unregister, c)
  /\ handler' = [handler EXCEPT ![c] = "done"]
  /\ UNCHANGED <<page, link, register, broadcast, clients, todo, leaving>>

HandleWS(c) == Register(c) \/ ReadFails(c) \/ Unregister(c)

-----------------------------------------------------------------------------
(* Hub.run.                                                                *)

Selecting == todo = {}

TakeRegister ==
  /\ Selecting
  /\ register # <<>>
  /\ register' = Tail(register)
  /\ clients' = clients \cup {Head(register)}
  /\ UNCHANGED <<page, link, handler, unregister, broadcast, todo, leaving>>

\* A disconnect that leaves the closing to the read loop.
TakeUnregisterNoClose ==
  /\ Selecting
  /\ unregister # <<>>
  /\ unregister' = Tail(unregister)
  /\ clients' = clients \ {Head(unregister)}
  /\ UNCHANGED <<page, link, handler, register, broadcast, todo, leaving>>

\* Only a connection of the map is closed.
TakeUnregister ==
  LET c == Head(unregister) IN
  /\ Selecting
  /\ unregister # <<>>
  /\ unregister' = Tail(unregister)
  /\ clients' = clients \ {c}
  /\ IF c \in clients THEN Break(c) ELSE UNCHANGED link
  /\ UNCHANGED <<page, handler, register, broadcast, todo, leaving>>

TakeBroadcast ==
  /\ Selecting
  /\ broadcast > 0
  /\ broadcast' = broadcast - 1
  /\ todo' = clients
  /\ UNCHANGED <<page, link, handler, register, unregister, clients, leaving>>

\* What a successful write does to the transport.
Sent(c) == link' = [link EXCEPT ![c] = IF @ = "silent" THEN "unacked" ELSE @]

Written(c) == todo' = todo \ {c}

\* The error of a write is only logged.
WriteOnly(c) ==
  /\ c \in todo
  /\ Written(c)
  /\ Sent(c)
  /\ UNCHANGED <<page, handler, channels, clients, leaving>>

\* The loop queues the disconnect itself.
WriteInline(c) ==
  /\ c \in todo
  /\ Written(c)
  /\ Sent(c)
  /\ IF link[c] = "down"
       THEN Len(unregister) < UnregisterCap /\ unregister' = Append(unregister, c)
       ELSE UNCHANGED unregister
  /\ UNCHANGED <<page, handler, register, broadcast, clients, leaving>>

\* One turn of the loop over the clients.
Write(c) ==
  /\ c \in todo
  /\ Written(c)
  /\ Sent(c)
  /\ leaving' = IF link[c] = "down" THEN [leaving EXCEPT ![c] = @ + 1] ELSE leaving
  /\ UNCHANGED <<page, handler, channels, clients>>

\* The goroutine of a failed write.
Leave(c) ==
  /\ leaving[c] > 0
  /\ Len(unregister) < UnregisterCap
  /\ unregister' = Append(unregister, c)
  /\ leaving' = [leaving EXCEPT ![c] = @ - 1]
  /\ UNCHANGED <<page, link, handler, register, broadcast, clients, todo>>

\* The failed writes of c that are under way or may come of queued messages.
Disconnects(c) == leaving[c] + broadcast + (IF c \in todo THEN 1 ELSE 0)

\* A tick of heartbeat; Broadcast drops the message when the channel is full.
Heartbeat ==
  /\ \A c \in Conns : Disconnects(c) < MaxLeaving
  /\ broadcast' = IF broadcast < BroadcastCap THEN broadcast + 1 ELSE broadcast
  /\ UNCHANGED <<page, link, handler, register, unregister, clients, todo, leaving>>

-----------------------------------------------------------------------------
Init ==
  /\ page = [p \in Pages |-> [st |-> "new", sock |-> Null, timer |-> FALSE]]
  /\ link = [c \in Conns |-> "none"]
  /\ handler = [c \in Conns |-> "none"]
  /\ register = <<>> /\ unregister = <<>> /\ broadcast = 0
  /\ clients = {}
  /\ todo = {}
  /\ leaving = [c \in Conns |-> 0]

Next ==
  \/ \E p \in Pages : Mount(p) \/ Retry(p) \/ OnClose(p) \/ Unmount(p)
  \/ \E c \in Conns : \/ Fail(c) \/ TimeOut(c)
                      \/ HandleWS(c)
                      \/ Write(c) \/ Leave(c)
  \/ TakeRegister \/ TakeUnregister \/ TakeBroadcast
  \/ Heartbeat

Spec == Init /\ [][Next]_vars

\* The hook and the goroutines get on; select picks among the ready channels
\* at random and blocked senders are served in turn, hence strong fairness;
\* the ticker keeps firing; TCP gives up on what is not acknowledged.  Nothing
\* forces a page to come or go or a network to fail.
FairSpec ==
  /\ Spec
  /\ \A p \in Pages : WF_vars(OnClose(p))
  /\ \A c \in Conns : /\ WF_vars(TimeOut(c))
                      /\ SF_vars(HandleWS(c))
                      /\ SF_vars(Leave(c))
  /\ WF_vars(\E c \in Conns : Write(c))
  /\ SF_vars(TakeRegister) /\ SF_vars(TakeUnregister) /\ SF_vars(TakeBroadcast)
  /\ WF_vars(Heartbeat)

-----------------------------------------------------------------------------
(* Properties.                                                             *)

\* A connection that works and whose handler reads is a client, or about to be:
\* the disconnect of an earlier connection with the same object may throw a
\* client out, but never drops it silently.  It is closed, so that its page
\* dials again, instead of waiting for messages that never come.
DroppedIsClosed ==
  \A c \in Conns : handler[c] = "read" /\ link[c] # "down" =>
    c \in clients \cup Queued(register)

\* Every live connection is the socket of one page that is still mounted: a
\* reconnect timer that outlives its page, or overtakes another one, leaves no
\* connection behind that nobody reads.
NoOrphanSocket ==
  \A c \in Conns : link[c] = "up" =>
    \E p \in Pages : /\ page[p].st = "mounted" /\ page[p].sock = c
                     /\ \A q \in Pages \ {p} : page[q].sock # c

\* A client that connects does not wait for ever: it gets into the map unless
\* its connection breaks.  The loop, the handlers and the goroutines never
\* block each other for good, however full the channels are.
Waiting(c) ==
  /\ handler[c] \in {"register", "read"} /\ link[c] = "up"
  /\ c \notin clients \/ c \in Queued(register)

ConnectedIsRegistered == \A c \in Conns : []<>~Waiting(c)

\* "detect stale clients" (the comment on heartbeat): the hub forgets every
\* connection that has broken, also one that broke without a word and one
\* whose disconnect overtook its registration, unless its object is in use
\* again before.
GoneIsForgotten ==
  \A c \in Conns : []<>(link[c] \in {"none", "up"} \/ Forgotten(c))
=============================================================================
