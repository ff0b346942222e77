-------------------------- MODULE ReactorProperties --------------------------
(* What the reactor of Reactor.tla promises.  Most promises hold only as    *)
(* long as acceptconn has not overwritten a slot in use.                    *)
EXTENDS Reactor

Running == pc # "halted"

Registration(s) ==
  [fd |-> g_events[s].fd, events |-> g_events[s].events, slot |-> s]

Live(s) == g_events[s].status = 1

(* Slot s holds connection c. *)
Holds(s, c) == Live(s) /\ fdt[g_events[s].fd] = c
Held(c) == \E s \in ClientSlots : Holds(s, c)

TypeOK ==
  /\ fdt \in [Fds -> Conns \cup {Listener, Free}]
  /\ interest \subseteq Item
  /\ backlog \subseteq Conns
  /\ sock \in [Conns -> Socket]
  /\ g_events \in [Slots -> Slot]
  /\ checkpos \in 0..MAX_EVENTS
  /\ pc \in {"sweep", "wait", "dispatch", "halted"}
  /\ batch \subseteq Item
  /\ clobbered \in BOOLEAN

(* The listening socket outlives everything: whatever slot acceptconn      *)
(* writes and whatever stale number a callback closes, the process keeps   *)
(* it open, registered for input with the last slot, and no client slot    *)
(* names its number (main, "the listenfd is not tested").                  *)
ListenerIntact ==
  Running =>
    /\ fdt[ListenFd] = Listener
    /\ {i \in interest : i.fd = ListenFd} = {Registration(MAX_EVENTS)}
    /\ Live(MAX_EVENTS) /\ g_events[MAX_EVENTS].call_back = "acceptconn"
    /\ \A s \in ClientSlots : g_events[s].fd # ListenFd

(* The dispatch loop calls through the slot without a look at it: every    *)
(* event it may see, even one of a connection whose slot was given to      *)
(* another, leads to a slot whose callback has been set and fits the       *)
(* direction the slot waits for.                                           *)
CallbackReady ==
  \A i \in interest \cup batch :
    LET ev == g_events[i.slot] IN
    CASE ev.call_back = "acceptconn" -> i.slot = MAX_EVENTS /\ ev.events = "IN"
      [] ev.call_back = "recvdata"   -> i.slot # MAX_EVENTS /\ ev.events = "IN"
      [] ev.call_back = "senddata"   -> i.slot # MAX_EVENTS /\ ev.events = "OUT"
      [] OTHER                       -> FALSE

(* The kernel's list and the slot table agree: event_set, event_add,       *)
(* event_del and the two orders of close and event_del leave exactly the   *)
(* live slots registered, each with its own number and direction.          *)
RegistryAgrees ==
  ~clobbered /\ Running => interest = {Registration(s) : s \in {t \in Slots : Live(t)}}

(* A connection is in one slot at most, and a live slot names a number     *)
(* that is open: no slot acts on a number given to somebody else.          *)
SlotOwnsConn ==
  ~clobbered /\ Running =>
    /\ \A s \in ClientSlots : Live(s) => IsConn(g_events[s].fd)
    /\ \A s, t \in ClientSlots :
         Live(s) /\ Live(t) /\ g_events[s].fd = g_events[t].fd => s = t

(* Handling one event of a batch never invalidates another: an event not   *)
(* handled yet is still the registration of a live slot.                   *)
BatchFresh == ~clobbered => batch \subseteq interest

(* A slot about to send holds the bytes of the client it sends to, and no  *)
(* more of them than were received.                                        *)
EchoHonest ==
  ~clobbered /\ Running =>
    \A s \in ClientSlots :
      Live(s) /\ g_events[s].events = "OUT" =>
        /\ g_events[s].from = fdt[g_events[s].fd]
        /\ g_events[s].len <= g_events[s].got

(* The sweep closes nobody too early: a connection it closes has been      *)
(* silent for TIMEOUT, or has sent bytes recvdata has not read yet.        *)
TimeoutJust ==
  [][\A c \in Conns :
       pc = "sweep" /\ ~clobbered /\ sock[c].peer # "gone" /\ sock'[c].peer = "gone"
         => sock[c].idle = TIMEOUT \/ sock[c].inbox > 0]_vars

(* A client that neither ended nor blocked the connection loses it, short  *)
(* of a timeout, only if the last recv for its slot filled the buffer, so  *)
(* that len may have become 0.                                             *)
CloseJust ==
  [][\A c \in Conns :
       pc = "dispatch" /\ pc' # "halted" /\ ~clobbered
       /\ sock[c].peer = "open" /\ ~sock[c].full /\ sock'[c].peer = "gone"
         => \E s \in ClientSlots : Holds(s, c) /\ g_events[s].got = BUFLEN]_vars

(* Once in the table a connection stays there, through every change of     *)
(* direction, until the server closes it: no callback drops a descriptor.  *)
HeldUntilClosed ==
  [][\A c \in Conns :
       Held(c) /\ ~clobbered' => Held(c)' \/ sock'[c].peer = "gone"]_vars

(* A connection a slot holds does not stay silent and open for ever.       *)
IdleClosed ==
  \A c \in Conns :
    []<>(~Held(c) \/ sock[c].idle < TIMEOUT \/ clobbered)

(* main: "when a client has not communicated with the server for 60s,      *)
(* close this connection" -- each one the server has accepted, whatever    *)
(* acceptconn did with it.                                                 *)
SilentClosed ==
  \A c \in Conns :
    []<>((\A fd \in Fds : fdt[fd] # c) \/ sock[c].idle < TIMEOUT)

=============================================================================
