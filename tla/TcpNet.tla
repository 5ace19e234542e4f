------------------------------- MODULE TcpNet -------------------------------
(***************************************************************************)
(* What the server and the clients of 07 share: one TCP connection for     *)
(* each client, as both programs use it.  A connection is known by its     *)
(* client; each direction is a stream of the pieces given to send, which a *)
(* recv may return singly or several at once.                              *)
(*                                                                         *)
(* Both programs tell a piece from its first bytes, and so take a piece of *)
(* a file for what it happens to spell: as says what that is.  "zero" is a *)
(* piece that begins with a zero byte, where the server ends a text.  The  *)
(* spelling of MES:, INIT: or FILE_END makes no difference to the server.  *)
(*                                                                         *)
(* Left out: a recv or send that ends inside a piece; a name that is       *)
(* longer than name[32] holds (server.c:273-282, client.c:191).  A piece   *)
(* of a file is the unit of lengths, and every other piece counts as one.  *)
(***************************************************************************)
EXTENDS Naturals, Sequences, FiniteSets, FiniteSetsExt

CONSTANTS Clients, None,
          MaxClients,  \* MAX_CLIENTS
          MaxEvents,   \* MAX_EVENTS
          Cap,         \* pieces that a socket buffer holds
          FileLen,     \* length of a file
          FileWords,   \* what the pieces of a file spell
          MaxLines,    \* bound: lines that are typed, in all
          MaxStops     \* bound: processes interrupted or killed, in all

ASSUME TcpAssumption ==
    /\ IsFiniteSet(Clients) /\ None \notin Clients /\ MaxClients \in Nat \ {0} /\ MaxEvents \in Nat \ {0}
    /\ Cap \in Nat \ {0} /\ FileLen \in Nat /\ MaxLines \in Nat
    /\ FileWords \subseteq {"bytes", "zero", "close", "start"}

VARIABLES backlog,  \* connections that wait for accept
          up, down, \* the streams to and from the server
          gone,     \* 0; 1: the client has closed; 2: and a send has noticed
          shut,     \* the server has closed
          lost      \* history: a piece did not get to somebody it was for

netVars == <<backlog, up, down, gone, shut, lost>>

Piece(type, c) == [type |-> type, as |-> type, from |-> c]
Bytes(word, c) == [type |-> "bytes", as |-> word, from |-> c]

Rest(s, k) == SubSeq(s, k + 1, Len(s))

NetInit ==
    /\ backlog = <<>>
    /\ up = [c \in Clients |-> <<>>]
    /\ down = [c \in Clients |-> <<>>]
    /\ gone = [c \in Clients |-> 0]
    /\ shut = [c \in Clients |-> FALSE]
    /\ lost = FALSE
=============================================================================
