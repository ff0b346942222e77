----------------------------- MODULE EpollClient -----------------------------
(* src/src/epollDemo/epollClient.cpp: sends a line, reads until a read      *)
(* comes back short, and asks for the next line.                            *)
EXTENDS EpollWire

CONSTANTS
  INPUT,        \* sizeof(input): bytes sent for every line (100)
  MAX_LINE,     \* bytes one read may take (1024)
  NonBlocking   \* the clients whose socket does not block: setnoblocking gives
                \* F_SETFL no flags, so each process has any, once for all

ASSUME ClientAssumption ==
  INPUT \in 1..InCap /\ MAX_LINE \in Nat \ {0} /\ NonBlocking \subseteq Clients

VARIABLES
  at,        \* client -> start, input (in fgets), send, recv and
              \* again (in the first and a later read of a reply), done
  overrun    \* client -> whether read has written past recvline

clientVars == <<at, overrun>>

ClientInit ==
  /\ at = [c \in Clients |-> "start"]
  /\ overrun = [c \in Clients |-> FALSE]

ClientType ==
  /\ at \in [Clients -> {"start", "input", "send", "recv", "again", "done"}]
  /\ overrun \in [Clients -> BOOLEAN]

Connect(c) ==
  /\ at[c] = "start"
  /\ listening
  /\ link' = [link EXCEPT ![c] = "queued"]
  /\ at' = [at EXCEPT ![c] = "input"]
  /\ UNCHANGED <<listening, peer, inbox, outbox, overrun>>

ConnectRefused(c) ==
  /\ at[c] = "start"
  /\ ~listening
  /\ at' = [at EXCEPT ![c] = "done"]
  /\ UNCHANGED <<wireVars, overrun>>

(* fgets returns a line. *)
TypeLine(c) ==
  /\ at[c] = "input"
  /\ at' = [at EXCEPT ![c] = "send"]
  /\ UNCHANGED <<wireVars, overrun>>

(* What is sent is the whole array, whatever the length of the line: a     *)
(* socket that blocks waits for room for it, one that does not takes what  *)
(* there is room for or fails, and in any case main goes on to read.       *)
SendLine(c) ==
  LET n == Smaller(INPUT, InCap - inbox[c])
  IN /\ at[c] = "send"
     /\ link[c] # "dropped"
     /\ c \in NonBlocking \/ n = INPUT
     /\ inbox' = [inbox EXCEPT ![c] = @ + n]
     /\ at' = [at EXCEPT ![c] = "recv"]
     /\ UNCHANGED <<listening, link, peer, outbox, overrun>>

(* Only a full read is followed by another one, at recvline + count, where *)
(* recvline has no room left but for the terminator.                       *)
ReadReply(c) ==
  LET n == Smaller(outbox[c], MAX_LINE)
  IN /\ at[c] \in {"recv", "again"}
     /\ n > 0
     /\ outbox' = [outbox EXCEPT ![c] = @ - n]
     /\ at' = [at EXCEPT ![c] = IF n = MAX_LINE THEN "again" ELSE "input"]
     /\ overrun' = [overrun EXCEPT ![c] = @ \/ at[c] = "again"]
     /\ UNCHANGED <<listening, link, peer, inbox>>

(* read fails: nothing there and a socket that does not block. *)
ReadNothing(c) ==
  /\ c \in NonBlocking
  /\ at[c] \in {"recv", "again"}
  /\ outbox[c] = 0
  /\ at' = [at EXCEPT ![c] = "input"]
  /\ UNCHANGED <<wireVars, overrun>>

(* fgets finds the end of the input, and main returns. *)
Quit(c) ==
  /\ at[c] = "input"
  /\ at' = [at EXCEPT ![c] = "done"]
  /\ peer' = [peer EXCEPT ![c] = PeerAfterClose(c)]
  /\ outbox' = [outbox EXCEPT ![c] = 0]
  /\ UNCHANGED <<listening, link, inbox, overrun>>

(* The server has closed the connection or is gone: every later call fails *)
(* or raises SIGPIPE, of which the model keeps the end of the process.     *)
LostServer(c) ==
  /\ at[c] \in {"send", "recv", "again"}
  /\ link[c] = "dropped"
  /\ at' = [at EXCEPT ![c] = "done"]
  /\ outbox' = [outbox EXCEPT ![c] = 0]
  /\ UNCHANGED <<listening, link, peer, inbox, overrun>>

(* A write past recvline may also end the process. *)
Crash(c) ==
  /\ overrun[c]
  /\ at[c] # "done"
  /\ at' = [at EXCEPT ![c] = "done"]
  /\ peer' = [peer EXCEPT ![c] = PeerAfterClose(c)]
  /\ outbox' = [outbox EXCEPT ![c] = 0]
  /\ UNCHANGED <<listening, link, inbox, overrun>>

ClientStep(c) ==
  \/ Connect(c) \/ ConnectRefused(c) \/ TypeLine(c) \/ SendLine(c) \/ ReadReply(c)
  \/ ReadNothing(c) \/ Quit(c) \/ LostServer(c) \/ Crash(c)

=============================================================================
