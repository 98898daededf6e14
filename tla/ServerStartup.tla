--------------------------- MODULE ServerStartup ---------------------------
(***************************************************************************)
(* How the chat server starts (main in server_main.cpp, before its loop):  *)
(* the calls it makes, each of which may fail, and what each failure gives *)
(* back.  ChatServer begins where this module ends.                        *)
(***************************************************************************)
EXTENDS Integers

VARIABLES
    serverAt,     \* the call the server has come to, "loop", "returned" from
                  \* the loop, or "exited" before it
    serverHolds,  \* what it has taken from the system and not given back
    listening     \* "no", "blocking" or "nonblocking"

serverVars == <<serverAt, serverHolds, listening>>

ServerInit ==
    /\ serverAt = "Connect"
    /\ serverHolds = {}
    /\ listening = "no"

\* The call the server is at succeeds, and it goes on to the next.
Succeeds(call, next, taken) ==
    /\ serverAt = call
    /\ serverAt' = next
    /\ serverHolds' = serverHolds \cup taken

\* The call fails: main gives back what it released and returns.
Fails(call, released) ==
    /\ serverAt = call
    /\ serverAt' = "exited"
    /\ serverHolds' = serverHolds \ released
    /\ listening' = "no"

\* The server goes on with or without a database; an exception of
\* GeneratePreparedStatements ends it.
ConnectDatabase ==
    \/ Succeeds("Connect", "WSAStartup", {}) /\ UNCHANGED listening
    \/ Fails("Connect", {})

StartWinsock ==
    \/ Succeeds("WSAStartup", "getaddrinfo", {"winsock"}) /\ UNCHANGED listening
    \/ Fails("WSAStartup", {})

Resolve ==
    \/ Succeeds("getaddrinfo", "socket", {"addrinfo"}) /\ UNCHANGED listening
    \/ Fails("getaddrinfo", {"winsock"})

MakeSocket ==
    \/ Succeeds("socket", "bind", {"socket"}) /\ UNCHANGED listening
    \/ Fails("socket", {"addrinfo", "winsock"})

\* Mutant of Bind: the handler forgets the socket.
BindLeaks ==
    \/ /\ serverAt = "bind"
       /\ serverAt' = "listen"
       /\ serverHolds' = serverHolds \ {"addrinfo"}
       /\ UNCHANGED listening
    \/ Fails("bind", {"addrinfo", "winsock"})

\* The address is freed once it is bound.
Bind ==
    \/ /\ serverAt = "bind"
       /\ serverAt' = "listen"
       /\ serverHolds' = serverHolds \ {"addrinfo"}
       /\ UNCHANGED listening
    \/ Fails("bind", {"addrinfo", "socket", "winsock"})

Listen ==
    \/ Succeeds("listen", "ioctlsocket", {}) /\ listening' = "blocking"
    \/ Fails("listen", {"socket", "winsock"})

\* From here on accept does not block the loop.
MakeNonBlocking ==
    \/ Succeeds("ioctlsocket", "loop", {}) /\ listening' = "nonblocking"
    \/ Fails("ioctlsocket", {"socket", "winsock"})

\* The loop is left when select or accept fails (see ChatServer): main
\* returns as it is, and the system takes back what is left.
LeaveLoop ==
    /\ serverAt = "loop"
    /\ serverAt' = "returned"
    /\ listening' = "no"
    /\ UNCHANGED serverHolds

ServerStart ==
    \/ ConnectDatabase \/ StartWinsock \/ Resolve \/ MakeSocket
    \/ Bind \/ Listen \/ MakeNonBlocking
=============================================================================
