----------------------------- MODULE HubProofs -----------------------------
(***************************************************************************)
(* Proofs about module Hub, for any pages, connections and capacities of   *)
(* the channels.                                                           *)
(*                                                                         *)
(* The hub knows a connection by an object that is used again while old     *)
(* registrations and disconnects of it are still under way.  What survives *)
(* that is proved here: a client that is dropped from the map is closed    *)
(* with it (DroppedIsClosed), and a page has at most a socket or a         *)
(* reconnect timer, never both (Sockets).                                  *)
(***************************************************************************)
EXTENDS Hub, SequenceTheorems, TLAPS

USE CapAssumption, NullAssumption

-----------------------------------------------------------------------------
(* The inductive invariant.                                                *)

PageRecords == [st : {"new", "mounted", "gone"}, sock : Conns \cup {Null}, timer : BOOLEAN]
Links == {"none", "up", "silent", "unacked", "down"}

Types ==
  /\ page \in [Pages -> PageRecords]
  /\ link \in [Conns -> Links]
  /\ handler \in [Conns -> {"none", "register", "read", "unregister", "done"}]
  /\ register \in Seq(Conns) /\ Len(register) <= RegisterCap
  /\ unregister \in Seq(Conns) /\ Len(unregister) <= UnregisterCap
  /\ broadcast \in 0 .. BroadcastCap
  /\ clients \subseteq Conns /\ todo \subseteq Conns
  /\ leaving \in [Conns -> Nat]

\* A page that is going to dial has no socket.
Sockets ==
  /\ \A p \in Pages : page[p].timer \/ page[p].st = "new" => page[p].sock = Null
  /\ NoOrphanSocket

IInv == Types /\ DroppedIsClosed /\ Sockets

-----------------------------------------------------------------------------
(* Channels.                                                               *)

LEMMA Caps == {RegisterCap, UnregisterCap, BroadcastCap} \subseteq Nat
  OBVIOUS

\* A send and a receive on a buffered channel.
LEMMA Send ==
  ASSUME NEW q \in Seq(Conns), NEW c \in Conns, NEW cap \in Nat, Len(q) < cap
  PROVE  /\ Append(q, c) \in Seq(Conns) /\ Len(Append(q, c)) <= cap
         /\ Queued(Append(q, c)) = Queued(q) \cup {c}
<1>1. /\ Append(q, c) \in Seq(Conns) /\ Len(Append(q, c)) = Len(q) + 1 /\ Len(q) \in Nat
      /\ \A k \in 1 .. Len(q) : Append(q, c)[k] = q[k]
      /\ Append(q, c)[Len(q) + 1] = c
  BY AppendProperties, LenProperties
<1>2. DOMAIN q = 1 .. Len(q) /\ DOMAIN Append(q, c) = 1 .. (Len(q) + 1)
  BY <1>1, LenProperties
<1>3. 1 .. (Len(q) + 1) = (1 .. Len(q)) \cup {Len(q) + 1}
  BY <1>1
<1>4. Queued(Append(q, c)) = Queued(q) \cup {c}
  BY <1>1, <1>2, <1>3 DEF Queued
<1> QED
  BY <1>1, <1>4

LEMMA Receive ==
  ASSUME NEW q \in Seq(Conns), q # <<>>, NEW cap \in Nat, Len(q) <= cap
  PROVE  /\ Tail(q) \in Seq(Conns) /\ Len(Tail(q)) <= cap
         /\ Queued(q) = Queued(Tail(q)) \cup {Head(q)}
         /\ Head(q) \in Queued(q) /\ Head(q) \in Conns
<1>1. /\ Len(q) \in Nat /\ DOMAIN q = 1 .. Len(q) /\ Len(q) # 0
      /\ Head(q) = q[1]
  BY LenProperties, EmptySeq, HeadTailProperties
<1>2. /\ Tail(q) \in Seq(Conns) /\ Len(Tail(q)) = Len(q) - 1
      /\ \A k \in 1 .. Len(Tail(q)) : Tail(q)[k] = q[k + 1]
  BY HeadTailProperties
<1>3. DOMAIN Tail(q) = 1 .. (Len(q) - 1)
  BY <1>2, LenProperties
<1>4. ASSUME NEW k \in DOMAIN Tail(q) PROVE Tail(q)[k] \in Queued(q)
  <2>1. k + 1 \in DOMAIN q /\ Tail(q)[k] = q[k + 1]
    BY <1>1, <1>2, <1>3
  <2> QED
    BY <2>1 DEF Queued
<1>5. ASSUME NEW k \in DOMAIN q PROVE q[k] \in Queued(Tail(q)) \cup {Head(q)}
  <2>1. CASE k = 1
    BY <1>1, <2>1
  <2>2. CASE k # 1
    <3>1. /\ k - 1 \in 1 .. Len(Tail(q)) /\ k - 1 \in DOMAIN Tail(q)
          /\ (k - 1) + 1 = k
      BY <1>1, <1>2, <1>3, <2>2
    <3>2. Tail(q)[k - 1] = q[k]
      BY <1>2, <3>1
    <3> QED
      BY <3>1, <3>2 DEF Queued
  <2> QED
    BY <2>1, <2>2
<1>6. 1 \in DOMAIN q
  BY <1>1
<1>7. Head(q) \in Queued(q)
  BY <1>1, <1>6 DEF Queued
<1>8. Queued(Tail(q)) \subseteq Queued(q) /\ Queued(q) \subseteq Queued(Tail(q)) \cup {Head(q)}
  BY <1>4, <1>5 DEF Queued
<1>9. Head(q) \in Conns
  BY <1>1, <1>6, ElementOfSeq
<1>10. Len(Tail(q)) <= cap
  BY <1>1, <1>2
<1> QED
  BY <1>2, <1>7, <1>8, <1>9, <1>10

-----------------------------------------------------------------------------
(* What the parts of the invariant depend on.                              *)

\* No connection comes up.
LEMMA SocketsKept ==
  ASSUME Sockets, UNCHANGED page, \A c \in Conns : link'[c] = "up" => link[c] = "up"
  PROVE  Sockets'
  BY DEF Sockets, NoOrphanSocket

\* No handler begins to read and no client is dropped.
LEMMA KnownKept ==
  ASSUME DroppedIsClosed,
         \A c \in Conns : handler'[c] = "read" => handler[c] = "read",
         \A c \in Conns : link[c] = "down" => link'[c] = "down" \/ handler'[c] # "read",
         clients \cup Queued(register) \subseteq clients' \cup Queued(register')
  PROVE  DroppedIsClosed'
  BY DEF DroppedIsClosed, Queued

\* A connection breaks.
LEMMA BreakStep ==
  ASSUME Types, NEW c \in Conns, Break(c)
  PROVE  /\ link' \in [Conns -> Links]
         /\ \A d \in Conns : link'[d] = link[d] \/ link'[d] = "down"
         /\ link'[c] = "down"
  BY DEF Types, Break, Links

\* A step that changes no channel and no goroutine of the hub, and raises no
\* connection.
LEMMA QuietStep ==
  ASSUME IInv, UNCHANGED <<page, handler, channels, clients, todo, leaving>>,
         link' \in [Conns -> Links],
         \A c \in Conns : link'[c] = "up" => link[c] = "up",
         \A c \in Conns : link[c] = "down" => link'[c] = "down"
  PROVE  IInv'
<1>1. Types'
  BY DEF IInv, Types, channels
<1>2. DroppedIsClosed'
  BY KnownKept DEF IInv, channels
<1> QED
  BY <1>1, <1>2, SocketsKept DEF IInv

-----------------------------------------------------------------------------
(* The hook and the network.                                               *)

\* A page that has no socket dials.
LEMMA DialStep ==
  ASSUME IInv, NEW p \in Pages, page[p].sock = Null, Dial(p, "mounted"),
         UNCHANGED <<channels, clients, todo, leaving>>
  PROVE  IInv'
<1>1. ASSUME NEW c \in Conns, Free(c),
             page' = [page EXCEPT ![p] = [st |-> "mounted", sock |-> c, timer |-> FALSE]],
             link' = [link EXCEPT ![c] = "up"],
             handler' = [handler EXCEPT ![c] = "register"]
      PROVE  IInv'
  <2>1. /\ page' \in [Pages -> PageRecords]
        /\ page'[p].st = "mounted" /\ page'[p].sock = c /\ page'[p].timer = FALSE
        /\ \A q \in Pages \ {p} : page'[q] = page[q]
    BY <1>1 DEF IInv, Types, PageRecords
  <2>2. /\ link' \in [Conns -> Links] /\ link'[c] = "up"
        /\ handler'[c] = "register"
        /\ \A d \in Conns \ {c} : link'[d] = link[d] /\ handler'[d] = handler[d]
    BY <1>1 DEF IInv, Types, Links
  <2>3. Types'
    BY <1>1, <2>1, <2>2 DEF IInv, Types, channels
  <2>6. DroppedIsClosed'
    BY <2>2, KnownKept DEF IInv, channels
  <2>7. \A q \in Pages : page'[q].timer \/ page'[q].st = "new" => page'[q].sock = Null
    BY <2>1 DEF IInv, Sockets
  <2>8. ASSUME NEW d \in Conns, link'[d] = "up"
        PROVE  \E q \in Pages : /\ page'[q].st = "mounted" /\ page'[q].sock = d
                                /\ \A o \in Pages \ {q} : page'[o].sock # d
    <3>1. CASE d = c
      <4>1. \A o \in Pages \ {p} : page'[o].sock # c
        BY <1>1, <2>1 DEF Free
      <4> QED
        BY <2>1, <3>1, <4>1
    <3>2. CASE d # c
      <4>1. link[d] = "up"
        BY <2>2, <2>8, <3>2
      <4>2. PICK q \in Pages : /\ page[q].st = "mounted" /\ page[q].sock = d
                               /\ \A o \in Pages \ {q} : page[o].sock # d
        BY <4>1 DEF IInv, Sockets, NoOrphanSocket
      <4>3. q # p
        BY <4>2
      <4> QED
        BY <2>1, <3>2, <4>2, <4>3
    <3> QED
      BY <3>1, <3>2
  <2>9. Sockets'
    BY <2>7, <2>8 DEF Sockets, NoOrphanSocket
  <2> QED
    BY <2>3, <2>6, <2>9 DEF IInv
<1>2. CASE /\ page' = [page EXCEPT ![p] = [st |-> "mounted", sock |-> Null, timer |-> TRUE]]
           /\ UNCHANGED <<link, handler>>
  <2>1. /\ page' \in [Pages -> PageRecords]
        /\ page'[p].sock = Null
        /\ \A q \in Pages \ {p} : page'[q] = page[q]
    BY <1>2 DEF IInv, Types, PageRecords
  <2>2. Types'
    BY <1>2, <2>1 DEF IInv, Types, channels
  <2>3. DroppedIsClosed'
    BY <1>2, KnownKept DEF IInv, channels
  <2>4. ASSUME NEW d \in Conns, link[d] = "up"
        PROVE  \E q \in Pages : /\ page'[q].st = "mounted" /\ page'[q].sock = d
                                /\ \A o \in Pages \ {q} : page'[o].sock # d
    <3>1. PICK q \in Pages : /\ page[q].st = "mounted" /\ page[q].sock = d
                             /\ \A o \in Pages \ {q} : page[o].sock # d
      BY <2>4 DEF IInv, Sockets, NoOrphanSocket
    <3>2. q # p
      BY <3>1
    <3> QED
      BY <2>1, <3>1, <3>2
  <2>5. Sockets'
    BY <1>2, <2>1, <2>4 DEF IInv, Sockets, NoOrphanSocket
  <2> QED
    BY <2>2, <2>3, <2>5 DEF IInv
<1> QED
  BY <1>1, <1>2 DEF Dial

LEMMA MountStep == ASSUME IInv, NEW p \in Pages, Mount(p) PROVE IInv'
<1>1. page[p].sock = Null
  BY DEF Mount, IInv, Sockets
<1> QED
  BY <1>1, DialStep DEF Mount

\* A step that takes a socket from a page, or nothing, and after which no
\* connection of it is up.
LEMMA PageStep ==
  ASSUME IInv, NEW p \in Pages, NEW q \in PageRecords, page' = [page EXCEPT ![p] = q],
         q.timer \/ q.st = "new" => q.sock = Null, q.sock \in {page[p].sock, Null},
         link' \in [Conns -> Links],
         \A c \in Conns : link'[c] = "up" => link[c] = "up" /\ page[p].sock # c,
         \A c \in Conns : link[c] = "down" => link'[c] = "down",
         UNCHANGED <<handler, channels, clients, todo, leaving>>
  PROVE  IInv'
<1>1. /\ page' \in [Pages -> PageRecords] /\ page'[p] = q
      /\ \A o \in Pages \ {p} : page'[o] = page[o]
  BY DEF IInv, Types
<1>2. Types'
  BY <1>1 DEF IInv, Types, channels
<1>3. DroppedIsClosed'
  BY KnownKept DEF IInv, channels
<1>5. ASSUME NEW d \in Conns, link'[d] = "up"
      PROVE  \E o \in Pages : /\ page'[o].st = "mounted" /\ page'[o].sock = d
                              /\ \A x \in Pages \ {o} : page'[x].sock # d
  <2>1. PICK o \in Pages : /\ page[o].st = "mounted" /\ page[o].sock = d
                           /\ \A x \in Pages \ {o} : page[x].sock # d
    BY <1>5 DEF IInv, Sockets, NoOrphanSocket
  <2>2. o # p /\ q.sock # d
    BY <1>5, <2>1
  <2> QED
    BY <1>1, <2>1, <2>2
<1>6. Sockets'
  BY <1>1, <1>5 DEF IInv, Sockets, NoOrphanSocket
<1> QED
  BY <1>2, <1>3, <1>6 DEF IInv

LEMMA RetryStep == ASSUME IInv, NEW p \in Pages, Retry(p) PROVE IInv'
<1>1. page[p].timer /\ page[p].sock = Null /\ page[p] \in PageRecords
  BY DEF Retry, IInv, Types, Sockets
<1>2. CASE page[p].st = "mounted" /\ Dial(p, "mounted")
  BY <1>1, <1>2, DialStep DEF Retry
<1>3. CASE /\ page' = [page EXCEPT ![p].timer = FALSE]
           /\ UNCHANGED <<link, handler>>
  <2> DEFINE q == [page[p] EXCEPT !.timer = FALSE]
  <2>1. q \in PageRecords /\ q.sock = Null
    BY <1>1 DEF PageRecords
  <2>2. page' = [page EXCEPT ![p] = q]
    BY <1>3
  <2> HIDE DEF q
  <2> QED
    <3>1. /\ link' \in [Conns -> Links] /\ link' = link
          /\ UNCHANGED <<handler, channels, clients, todo, leaving>>
      BY <1>3 DEF Retry, IInv, Types
    <3> QED
      BY <1>1, <2>1, <2>2, <3>1, PageStep
<1> QED
  BY <1>2, <1>3 DEF Retry

LEMMA OnCloseStep == ASSUME IInv, NEW p \in Pages, OnClose(p) PROVE IInv'
<1>t. PICK t \in BOOLEAN : t = (page[p].st = "mounted")
  OBVIOUS
<1> DEFINE a == [page[p] EXCEPT !.sock = Null]
           q == [a EXCEPT !.timer = t]
<1>1. page[p] \in PageRecords /\ page \in [Pages -> PageRecords]
  BY DEF IInv, Types
<1>2. a \in PageRecords /\ a.sock = Null
  BY <1>1 DEF PageRecords
<1>3. page' = [page EXCEPT ![p] = q]
  BY <1>1, <1>t DEF OnClose
<1> HIDE DEF a
<1>4. q \in PageRecords /\ q.sock = Null
  BY <1>2 DEF PageRecords
<1> HIDE DEF q
<1>5. /\ link' = link /\ link[page[p].sock] # "up"
      /\ UNCHANGED <<handler, channels, clients, todo, leaving>>
  BY DEF OnClose
<1> QED
  BY <1>3, <1>4, <1>5, PageStep DEF IInv, Types

LEMMA UnmountStep == ASSUME IInv, NEW p \in Pages, Unmount(p) PROVE IInv'
<1> DEFINE q == [page[p] EXCEPT !.st = "gone"]
<1>1. page[p] \in PageRecords /\ link \in [Conns -> Links]
  BY DEF IInv, Types
<1>2. /\ q \in PageRecords /\ q.sock = page[p].sock /\ q.timer = page[p].timer
      /\ q.st = "gone"
  BY <1>1 DEF PageRecords
<1>3. page' = [page EXCEPT ![p] = q] /\ UNCHANGED <<handler, channels, clients, todo, leaving>>
  BY DEF Unmount
<1> HIDE DEF q
<1>4. q.timer \/ q.st = "new" => q.sock = Null
  BY <1>2 DEF IInv, Sockets
<1>5. /\ link' \in [Conns -> Links]
      /\ \A c \in Conns : link'[c] = "up" => link[c] = "up" /\ page[p].sock # c
      /\ \A c \in Conns : link[c] = "down" => link'[c] = "down"
  <2>1. CASE page[p].sock = Null
    BY <1>1, <2>1 DEF Unmount
  <2>2. CASE page[p].sock # Null
    <3>1. page[p].sock \in Conns /\ Break(page[p].sock)
      BY <1>1, <2>2 DEF Unmount, PageRecords
    <3> QED
      BY <3>1, BreakStep DEF IInv
  <2> QED
    BY <2>1, <2>2
<1> QED
  <2>1. q.sock \in {page[p].sock, Null}
    BY <1>2
  <2> QED
    BY <1>2, <1>3, <1>4, <1>5, <2>1, PageStep

LEMMA NetworkStep == ASSUME IInv, NEW c \in Conns, Fail(c) \/ TimeOut(c) PROVE IInv'
<1>0. UNCHANGED <<page, handler, channels, clients, todo, leaving>>
  BY DEF Fail, TimeOut
<1>1. CASE Break(c)
  <2>1. /\ link' \in [Conns -> Links]
        /\ \A d \in Conns : link'[d] = link[d] \/ link'[d] = "down"
    BY <1>1, BreakStep DEF IInv
  <2> QED
    BY <1>0, <2>1, QuietStep
<1>2. CASE link[c] = "up" /\ link' = [link EXCEPT ![c] = "silent"]
  <2>1. /\ link' \in [Conns -> Links]
        /\ \A d \in Conns : link'[d] = "up" => link[d] = "up"
        /\ \A d \in Conns : link[d] = "down" => link'[d] = "down"
    BY <1>2 DEF IInv, Types, Links
  <2> QED
    BY <1>0, <2>1, QuietStep
<1> QED
  BY <1>1, <1>2 DEF Fail, TimeOut

-----------------------------------------------------------------------------
(* The server.                                                             *)

LEMMA RegisterStep == ASSUME IInv, NEW c \in Conns, Register(c) PROVE IInv'
<1>1. /\ handler[c] = "register" /\ handler' = [handler EXCEPT ![c] = "read"]
      /\ register' = Append(register, c) /\ Len(register) < RegisterCap
      /\ UNCHANGED <<page, link, unregister, broadcast, clients, todo, leaving>>
  BY DEF Register
<1>2. /\ register' \in Seq(Conns) /\ Len(register') <= RegisterCap
      /\ Queued(register') = Queued(register) \cup {c}
  BY <1>1, Send, Caps DEF IInv, Types
<1>3. Types'
  BY <1>1, <1>2 DEF IInv, Types
<1>4. \A d \in Conns \ {c} : handler'[d] = handler[d]
  BY <1>1 DEF IInv, Types
<1>5. DroppedIsClosed'
  BY <1>1, <1>2, <1>4 DEF IInv, DroppedIsClosed, Queued
<1> QED
  BY <1>1, <1>3, <1>5, SocketsKept DEF IInv

LEMMA ReadFailsStep == ASSUME IInv, NEW c \in Conns, ReadFails(c) PROVE IInv'
<1>1. /\ handler' = [handler EXCEPT ![c] = "unregister"]
      /\ UNCHANGED <<page, link, channels, clients, todo, leaving>>
  BY DEF ReadFails
<1>2. Types'
  BY <1>1 DEF IInv, Types, channels
<1>3. \A d \in Conns : handler'[d] = "read" => handler[d] = "read"
  BY <1>1 DEF IInv, Types
<1>4. DroppedIsClosed'
  BY <1>1, <1>3, KnownKept DEF IInv, channels
<1> QED
  BY <1>1, <1>2, <1>4, SocketsKept DEF IInv

LEMMA UnregisterStep == ASSUME IInv, NEW c \in Conns, Unregister(c) PROVE IInv'
<1>1. /\ handler' = [handler EXCEPT ![c] = "done"]
      /\ unregister' = Append(unregister, c) /\ Len(unregister) < UnregisterCap
      /\ UNCHANGED <<page, link, register, broadcast, clients, todo, leaving>>
  BY DEF Unregister
<1>2. \A d \in Conns : handler'[d] = "read" => handler[d] = "read"
  BY <1>1 DEF IInv, Types
<1>3. unregister' \in Seq(Conns) /\ Len(unregister') <= UnregisterCap
  BY <1>1, Send, Caps DEF IInv, Types
<1>4. Types'
  BY <1>1, <1>3 DEF IInv, Types
<1>5. DroppedIsClosed'
  BY <1>1, <1>2, KnownKept DEF IInv
<1> QED
  BY <1>1, <1>4, <1>5, SocketsKept DEF IInv

LEMMA LeaveStep == ASSUME IInv, NEW c \in Conns, Leave(c) PROVE IInv'
<1>1. /\ leaving[c] > 0 /\ leaving' = [leaving EXCEPT ![c] = @ - 1]
      /\ unregister' = Append(unregister, c) /\ Len(unregister) < UnregisterCap
      /\ UNCHANGED <<page, link, handler, register, broadcast, clients, todo>>
  BY DEF Leave
<1>2. leaving' \in [Conns -> Nat]
  <2>1. leaving \in [Conns -> Nat]
    BY DEF IInv, Types
  <2>2. leaving[c] - 1 \in Nat
    BY <1>1, <2>1
  <2> QED
    BY <1>1, <2>1, <2>2
<1>3. unregister' \in Seq(Conns) /\ Len(unregister') <= UnregisterCap
  BY <1>1, Send, Caps DEF IInv, Types
<1>4. Types'
  BY <1>1, <1>2, <1>3 DEF IInv, Types
<1>5. DroppedIsClosed'
  BY <1>1, KnownKept DEF IInv
<1> QED
  BY <1>1, <1>4, <1>5, SocketsKept DEF IInv

LEMMA TakeRegisterStep == ASSUME IInv, TakeRegister PROVE IInv'
<1>1. /\ register # <<>> /\ register' = Tail(register)
      /\ clients' = clients \cup {Head(register)}
      /\ UNCHANGED <<page, link, handler, unregister, broadcast, todo, leaving>>
  BY DEF TakeRegister
<1>2. /\ register' \in Seq(Conns) /\ Len(register') <= RegisterCap
      /\ Queued(register) = Queued(register') \cup {Head(register)}
      /\ Head(register) \in Conns
  BY <1>1, Receive, Caps DEF IInv, Types
<1>3. Types'
  BY <1>1, <1>2 DEF IInv, Types
<1>4. clients \cup Queued(register) \subseteq clients' \cup Queued(register')
  BY <1>1, <1>2
<1>5. DroppedIsClosed'
  BY <1>1, <1>4, KnownKept DEF IInv
<1> QED
  BY <1>1, <1>3, <1>5, SocketsKept DEF IInv

\* The step that drops clients: the one it drops is closed, and one that is
\* not in the map yet keeps its place in the other channel.
LEMMA TakeUnregisterStep == ASSUME IInv, TakeUnregister PROVE IInv'
<1>c. PICK c : c = Head(unregister)
  OBVIOUS
<1>1. /\ unregister # <<>> /\ unregister' = Tail(unregister)
      /\ clients' = clients \ {c}
      /\ IF c \in clients THEN Break(c) ELSE UNCHANGED link
      /\ UNCHANGED <<page, handler, register, broadcast, todo, leaving>>
  BY <1>c DEF TakeUnregister
<1>2. /\ unregister' \in Seq(Conns) /\ Len(unregister') <= UnregisterCap
      /\ c \in Conns
  BY <1>c, <1>1, Receive, Caps DEF IInv, Types
<1>3. /\ link' \in [Conns -> Links]
      /\ \A d \in Conns : link'[d] = link[d] \/ link'[d] = "down"
      /\ c \in clients => link'[c] = "down"
  BY <1>1, <1>2, BreakStep DEF IInv, Types
<1>4. Types'
  BY <1>1, <1>2, <1>3 DEF IInv, Types
<1>5. ASSUME NEW d \in Conns, handler[d] = "read", link'[d] # "down"
      PROVE  d \in clients' \cup Queued(register)
  <2>1. d \in clients \cup Queued(register)
    BY <1>3, <1>5 DEF IInv, DroppedIsClosed
  <2>2. d \in clients => d # c
    BY <1>3, <1>5
  <2> QED
    BY <1>1, <2>1, <2>2
<1>6. DroppedIsClosed'
  BY <1>1, <1>5 DEF DroppedIsClosed, Queued
<1>7. Sockets'
  BY <1>1, <1>3, SocketsKept DEF IInv
<1> QED
  BY <1>4, <1>6, <1>7 DEF IInv

LEMMA TakeBroadcastStep == ASSUME IInv, TakeBroadcast PROVE IInv'
<1>1. /\ broadcast > 0 /\ broadcast' = broadcast - 1 /\ todo' = clients
      /\ UNCHANGED <<page, link, handler, register, unregister, clients, leaving>>
  BY DEF TakeBroadcast
<1>2. Types'
  BY <1>1, Caps DEF IInv, Types
<1>3. DroppedIsClosed'
  BY <1>1, KnownKept DEF IInv
<1> QED
  BY <1>1, <1>2, <1>3, SocketsKept DEF IInv

LEMMA WriteStep == ASSUME IInv, NEW c \in Conns, Write(c) PROVE IInv'
<1>1. /\ todo' = todo \ {c}
      /\ link' = [link EXCEPT ![c] = IF @ = "silent" THEN "unacked" ELSE @]
      /\ leaving' = IF link[c] = "down" THEN [leaving EXCEPT ![c] = @ + 1] ELSE leaving
      /\ UNCHANGED <<page, handler, register, unregister, broadcast, clients>>
  BY DEF Write, Written, Sent, channels
<1>2. /\ link' \in [Conns -> Links]
      /\ \A d \in Conns : link'[d] = "up" => link[d] = "up"
      /\ \A d \in Conns : link[d] = "down" => link'[d] = "down"
  BY <1>1 DEF IInv, Types, Links
<1>3. leaving' \in [Conns -> Nat]
  BY <1>1 DEF IInv, Types
<1>4. Types'
  BY <1>1, <1>2, <1>3 DEF IInv, Types
<1>5. DroppedIsClosed'
  BY <1>1, <1>2, KnownKept DEF IInv
<1>6. Sockets'
  BY <1>1, <1>2, SocketsKept DEF IInv
<1> QED
  BY <1>4, <1>5, <1>6 DEF IInv

LEMMA HeartbeatStep == ASSUME IInv, Heartbeat PROVE IInv'
<1>1. /\ broadcast' = IF broadcast < BroadcastCap THEN broadcast + 1 ELSE broadcast
      /\ UNCHANGED <<page, link, handler, register, unregister, clients, todo, leaving>>
  BY DEF Heartbeat
<1>2. broadcast' \in 0 .. BroadcastCap
  BY <1>1, Caps DEF IInv, Types
<1>3. Types'
  BY <1>1, <1>2 DEF IInv, Types
<1>4. DroppedIsClosed'
  BY <1>1, KnownKept DEF IInv
<1> QED
  BY <1>1, <1>3, <1>4, SocketsKept DEF IInv

-----------------------------------------------------------------------------
(* The theorems.                                                           *)

LEMMA InitIInv == Init => IInv
<1> SUFFICES ASSUME Init PROVE IInv
  OBVIOUS
<1>1. [st |-> "new", sock |-> Null, timer |-> FALSE] \in PageRecords
  BY DEF PageRecords
<1>2. page \in [Pages -> PageRecords] /\ \A p \in Pages : page[p].sock = Null
  BY <1>1 DEF Init
<1>3. Len(register) = 0 /\ Len(unregister) = 0
  BY DEF Init
<1>4. register \in Seq(Conns) /\ unregister \in Seq(Conns)
  BY DEF Init
<1>5. Types
  <2>1. /\ link \in [Conns -> Links] /\ leaving \in [Conns -> Nat]
        /\ handler \in [Conns -> {"none", "register", "read", "unregister", "done"}]
    BY DEF Init, Links
  <2>2. /\ Len(register) <= RegisterCap /\ Len(unregister) <= UnregisterCap
        /\ broadcast \in 0 .. BroadcastCap
    BY <1>3, Caps DEF Init
  <2>3. clients \subseteq Conns /\ todo \subseteq Conns
    BY DEF Init
  <2> QED
    BY <1>2, <1>4, <2>1, <2>2, <2>3 DEF Types
<1>7. DroppedIsClosed
  BY DEF Init, DroppedIsClosed
<1>8. Sockets
  BY <1>2 DEF Init, Sockets, NoOrphanSocket
<1> QED
  BY <1>5, <1>7, <1>8 DEF IInv

LEMMA NextIInv == IInv /\ [Next]_vars => IInv'
<1> SUFFICES ASSUME IInv, [Next]_vars PROVE IInv'
  OBVIOUS
<1>1. ASSUME NEW p \in Pages, Mount(p) \/ Retry(p) \/ OnClose(p) \/ Unmount(p)
      PROVE  IInv'
  BY <1>1, MountStep, RetryStep, OnCloseStep, UnmountStep
<1>2. ASSUME NEW c \in Conns, Fail(c) \/ TimeOut(c) \/ HandleWS(c) \/ Write(c) \/ Leave(c)
      PROVE  IInv'
  BY <1>2, NetworkStep, RegisterStep, ReadFailsStep, UnregisterStep, WriteStep, LeaveStep
     DEF HandleWS
<1>3. CASE TakeRegister \/ TakeUnregister \/ TakeBroadcast \/ Heartbeat
  BY <1>3, TakeRegisterStep, TakeUnregisterStep, TakeBroadcastStep, HeartbeatStep
<1>4. CASE UNCHANGED vars
  <2>1. link' \in [Conns -> Links] /\ link' = link
    BY <1>4 DEF vars, IInv, Types
  <2>2. UNCHANGED <<page, handler, channels, clients, todo, leaving>>
    BY <1>4 DEF vars
  <2> QED
    BY <2>1, <2>2, QuietStep
<1> QED
  BY <1>1, <1>2, <1>3, <1>4 DEF Next

\* The inductive invariant holds, however connection objects are used again and
\* in whatever order select serves the channels.
THEOREM Invariance == Spec => []IInv
  BY InitIInv, NextIInv, PTL DEF Spec

\* No client is dropped silently: a connection that works and is being read is
\* in the map or in the queue to it, also when the disconnect of an earlier
\* connection reaches the hub after its object has been used again.
THEOREM NeverDroppedSilently == Spec => []DroppedIsClosed
<1>1. IInv => DroppedIsClosed
  BY DEF IInv
<1> QED
  BY <1>1, Invariance, PTL

\* A live connection is always the socket of exactly one page, which is mounted.
THEOREM NeverOrphaned == Spec => []NoOrphanSocket
<1>1. IInv => NoOrphanSocket
  BY DEF IInv, Sockets
<1> QED
  BY <1>1, Invariance, PTL
=============================================================================
