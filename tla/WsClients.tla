----------------------------- MODULE WsClients ------------------------------
(***************************************************************************)
(* The dashboard's WebSocket clients: ws.rs, broadcast_event of helpers.rs, *)
(* and the broadcast channel of state.rs.  For each client a handler waits  *)
(* for two tasks: one forwards the broadcasts, one reads what the client    *)
(* sends.  An event is its number; the channel keeps the last Slots, and a  *)
(* receiver that falls behind gets an error.                               *)
(***************************************************************************)
EXTENDS Naturals, Sequences

CONSTANTS Clients,
          Slots,      \* events the broadcast channel keeps (256)
          MaxEvents   \* bound on the events

ASSUME ClientsAssumption == Slots \in Nat \ {0} /\ MaxEvents \in Nat

VARIABLES events,     \* events broadcast so far
          handler,    \* "none", "waiting", "returned"
          sendTask, recvTask,  \* "none", "running", "aborted", "ended"
          peer,       \* "absent", "present", "left": the client itself
          position,   \* the next event of its broadcast receiver
          joined,     \* history: the first event after it subscribed
          got         \* history: events it was sent, in order

clientVars == <<events, handler, sendTask, recvTask, peer, position, joined, got>>

ClientsInit ==
    /\ events = 0
    /\ handler = [c \in Clients |-> "none"]
    /\ sendTask = [c \in Clients |-> "none"]
    /\ recvTask = [c \in Clients |-> "none"]
    /\ peer = [c \in Clients |-> "absent"]
    /\ position = [c \in Clients |-> 1] /\ joined = [c \in Clients |-> 1]
    /\ got = [c \in Clients |-> <<>>]

Broadcast ==
    /\ events < MaxEvents
    /\ events' = events + 1
    /\ UNCHANGED <<handler, sendTask, recvTask, peer, position, joined, got>>

\* handle_socket: subscribe, then spawn both tasks.
HandleSocket(c) ==
    /\ peer[c] = "absent"
    /\ peer' = [peer EXCEPT ![c] = "present"]
    /\ handler' = [handler EXCEPT ![c] = "waiting"]
    /\ sendTask' = [sendTask EXCEPT ![c] = "running"]
    /\ recvTask' = [recvTask EXCEPT ![c] = "running"]
    /\ position' = [position EXCEPT ![c] = events + 1]
    /\ joined' = [joined EXCEPT ![c] = events + 1]
    /\ UNCHANGED <<events, got>>

Lagged(c) == events - position[c] >= Slots

\* An aborted task goes on to its next await that is not ready.
Sends(c) == sendTask[c] \in {"running", "aborted"}

\* As Forward, going on at the oldest event kept after an error.
ForwardOldest(c) ==
    LET from == IF Lagged(c) THEN events - Slots + 1 ELSE position[c]
    IN  /\ Sends(c) /\ from <= events
        /\ got' = [got EXCEPT ![c] = Append(@, from)]
        /\ position' = [position EXCEPT ![c] = from + 1]
        /\ UNCHANGED <<events, handler, sendTask, recvTask, peer, joined>>

\* rx.recv() and sender.send(): an error of either ends the loop.
Forward(c) ==
    /\ Sends(c) /\ position[c] <= events
    /\ IF Lagged(c) \/ peer[c] = "left"
       THEN /\ sendTask' = [sendTask EXCEPT ![c] = "ended"]
            /\ UNCHANGED <<position, got>>
       ELSE /\ got' = [got EXCEPT ![c] = Append(@, position[c])]
            /\ position' = [position EXCEPT ![c] = @ + 1]
            /\ UNCHANGED sendTask
    /\ UNCHANGED <<events, handler, recvTask, peer, joined>>

PeerLeaves(c) ==
    /\ peer[c] = "present"
    /\ peer' = [peer EXCEPT ![c] = "left"]
    /\ UNCHANGED <<events, handler, sendTask, recvTask, position, joined, got>>

ReceiveEnds(c) ==
    /\ recvTask[c] = "running" /\ peer[c] = "left"
    /\ recvTask' = [recvTask EXCEPT ![c] = "ended"]
    /\ UNCHANGED <<events, handler, sendTask, peer, position, joined, got>>

\* As HandlerReturns, dropping the handle of the send task, which detaches it.
HandlerReturnsDetached(c) ==
    /\ handler[c] = "waiting" /\ "ended" \in {recvTask[c], sendTask[c]}
    /\ handler' = [handler EXCEPT ![c] = "returned"]
    /\ UNCHANGED <<events, sendTask, recvTask, peer, position, joined, got>>

\* select!: the end of the receiving task aborts the sending one, without waiting for
\* it; the end of the sending task leaves the receiving one alone.
HandlerReturns(c) ==
    /\ handler[c] = "waiting"
    /\ \/ /\ recvTask[c] = "ended"
          /\ sendTask' = [sendTask EXCEPT ![c] = IF @ = "running" THEN "aborted" ELSE @]
       \/ sendTask[c] = "ended" /\ UNCHANGED sendTask
    /\ handler' = [handler EXCEPT ![c] = "returned"]
    /\ UNCHANGED <<events, recvTask, peer, position, joined, got>>

AbortTakes(c) ==
    /\ sendTask[c] = "aborted"
    /\ sendTask' = [sendTask EXCEPT ![c] = "ended"]
    /\ UNCHANGED <<events, handler, recvTask, peer, position, joined, got>>

ClientsNext ==
    \/ Broadcast
    \/ \E c \in Clients :
          \/ HandleSocket(c) \/ Forward(c) \/ PeerLeaves(c)
          \/ ReceiveEnds(c) \/ HandlerReturns(c) \/ AbortTakes(c)

ClientsSpec == ClientsInit /\ [][ClientsNext]_clientVars

Task == {"none", "running", "aborted", "ended"}

ClientsTypeOK ==
    /\ events \in 0..MaxEvents
    /\ handler \in [Clients -> {"none", "waiting", "returned"}]
    /\ sendTask \in [Clients -> Task] /\ recvTask \in [Clients -> Task]
    /\ peer \in [Clients -> {"absent", "present", "left"}]
    /\ position \in [Clients -> 1..(MaxEvents + 1)]
    /\ joined \in [Clients -> 1..(MaxEvents + 1)]
    /\ got \in [Clients -> Seq(1..MaxEvents)]

\* A client is sent every event from its subscription on, in order, until it is
\* sent no more: a client that lags is cut off, never fed a history with holes.
NoHoles ==
    \A c \in Clients : got[c] = [i \in 1..Len(got[c]) |-> joined[c] + i - 1]

\* When the handler of a client has returned its forwarding task has ended or been
\* told to, so that no receiver is left behind in the channel.
NoOrphanSender ==
    \A c \in Clients : handler[c] = "returned" => sendTask[c] \in {"aborted", "ended"}

\* What the clients of the dashboard are promised.
ClientsServed == NoHoles /\ NoOrphanSender
=============================================================================
