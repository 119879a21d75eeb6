------------------------------ MODULE McpRegistry ------------------------------
(***************************************************************************)
(* The MCP servers: McpServerRegistry keeps one client for each connected    *)
(* server and writes their names and commands to mcp_servers.json, which the *)
(* next start reads to connect them again, in the background.  mcp_add and   *)
(* mcp_remove are tool calls: of a chat turn and of scheduled turns beside   *)
(* it, and beside the reconnection.                                          *)
(*                                                                           *)
(* A server is its name; its command goes where the name goes.  Registering  *)
(* a server's tools and entering its client are one step: nothing suspends.  *)
(***************************************************************************)
EXTENDS Naturals

CONSTANTS
    Servers,       \* names
    ServerCalls,   \* calls of mcp_add and mcp_remove
    NoServer,      \* a call that has not begun
    MaxStarts      \* bound: restarts

ASSUME ServersConstants == MaxStarts \in Nat

VARIABLES
    clients,       \* _clients
    serversFile,   \* mcp_servers.json; empty when it cannot be read
    serverCall,    \* each call: [at, server]
    reconnecting,  \* connect_one of load_and_connect_all, for each server
    configured,    \* history: in the file at first or added, and not removed since
    up,            \* the process runs, and shutdown has not been called
    starts         \* restarts

serverVars ==
    <<clients, serversFile, serverCall, reconnecting, configured, up, starts>>
startVars == <<reconnecting, up, starts>>

\* The user wrote the file, or part of it.
ServersInit ==
    /\ clients = {}
    /\ serversFile \in SUBSET Servers
    /\ serverCall = [c \in ServerCalls |-> [at |-> "none", server |-> NoServer]]
    /\ reconnecting = serversFile /\ configured = serversFile
    /\ up = TRUE /\ starts = 0

Goes(c, at) == serverCall' = [serverCall EXCEPT ![c].at = at]

-----------------------------------------------------------------------------
(* Reconnection at the start.                                              *)

\* A client already there, of the same name, is replaced.
Reconnected(s) ==
    /\ s \in reconnecting
    /\ clients' = clients \cup {s} /\ reconnecting' = reconnecting \ {s}
    /\ UNCHANGED <<serversFile, serverCall, configured, up, starts>>

ReconnectFails(s) ==
    /\ s \in reconnecting
    /\ reconnecting' = reconnecting \ {s}
    /\ UNCHANGED <<clients, serversFile, serverCall, configured, up, starts>>

-----------------------------------------------------------------------------
(* mcp_add.                                                                *)

BeginAdd(c, s) ==
    /\ serverCall[c].at = "none"
    /\ serverCall' = [serverCall EXCEPT ![c] =
         [at |-> IF s \in clients THEN "over" ELSE "connecting", server |-> s]]
    /\ UNCHANGED <<clients, serversFile, configured, startVars>>

\* Connected: the client is entered and _save writes what is connected.
AddConnected(c) ==
    /\ serverCall[c].at = "connecting"
    /\ clients' = clients \cup {serverCall[c].server}
    /\ serversFile' = clients'
    /\ configured' = configured \cup {serverCall[c].server}
    /\ Goes(c, "over")
    /\ UNCHANGED startVars

\* connect raises or times out, or the turn is cancelled.
AddFails(c) ==
    /\ serverCall[c].at = "connecting"
    /\ Goes(c, "over")
    /\ UNCHANGED <<clients, serversFile, configured, startVars>>

-----------------------------------------------------------------------------
(* mcp_remove.                                                             *)

\* Tools and client are taken out, then the process is waited for.
BeginRemove(c, s) ==
    /\ serverCall[c].at = "none"
    /\ serverCall' = [serverCall EXCEPT ![c] =
         [at |-> IF s \in clients THEN "disconnecting" ELSE "over", server |-> s]]
    /\ clients' = clients \ {s}
    /\ configured' = IF s \in clients THEN configured \ {s} ELSE configured
    /\ UNCHANGED <<serversFile, startVars>>

RemoveSaved(c) ==
    /\ serverCall[c].at = "disconnecting"
    /\ serversFile' = clients
    /\ Goes(c, "over")
    /\ UNCHANGED <<clients, configured, startVars>>

\* The turn is cancelled while it waits: nothing is saved.
RemoveCut(c) ==
    /\ serverCall[c].at = "disconnecting"
    /\ Goes(c, "over")
    /\ UNCHANGED <<clients, serversFile, configured, startVars>>

-----------------------------------------------------------------------------
\* CoreRuntime.stop: the reconnection is cancelled and the clients are let go.
\* Scheduled turns run on until the event loop is closed.
StopServers ==
    /\ up /\ up' = FALSE
    /\ reconnecting' = {} /\ clients' = {}
    /\ UNCHANGED <<serversFile, serverCall, configured, starts>>

\* The process ends, after a stop or by a crash, and starts again.
StartServers(read) ==
    /\ starts < MaxStarts /\ starts' = starts + 1
    /\ up' = TRUE
    /\ clients' = {} /\ reconnecting' = read
    /\ serverCall' =
         [c \in ServerCalls |->
            IF serverCall[c].at = "none" THEN serverCall[c]
            ELSE [serverCall[c] EXCEPT !.at = "over"]]
    /\ UNCHANGED configured

RestartServers == StartServers(serversFile) /\ UNCHANGED serversFile

\* A crash in the middle of _save leaves a file that is no JSON, read as empty.
CrashInServersSave ==
    /\ \E c \in ServerCalls : serverCall[c].at \in {"connecting", "disconnecting"}
    /\ StartServers({})
    /\ serversFile' = {}

-----------------------------------------------------------------------------
ServersNext ==
    \/ \E s \in Servers : Reconnected(s) \/ ReconnectFails(s)
    \/ \E c \in ServerCalls :
        \/ AddConnected(c) \/ AddFails(c) \/ RemoveSaved(c) \/ RemoveCut(c)
        \/ \E s \in Servers : BeginAdd(c, s) \/ BeginRemove(c, s)
    \/ StopServers \/ RestartServers \/ CrashInServersSave

ServersSpec == ServersInit /\ [][ServersNext]_serverVars

-----------------------------------------------------------------------------
\* Every variable stays within its type; after a stop nothing is reconnected.
ServersTypeOK ==
    /\ clients \subseteq Servers /\ serversFile \subseteq Servers
    /\ reconnecting \subseteq Servers /\ configured \subseteq Servers
    /\ serverCall \in [ServerCalls ->
         [at : {"none", "connecting", "disconnecting", "over"},
          server : Servers \cup {NoServer}]]
    /\ up \in BOOLEAN /\ (~up => reconnecting = {}) /\ starts \in 0 .. MaxStarts

\* What the user wrote into mcp_servers.json, or was told was connected, is there
\* at the next start until it is removed (registry.py:40, proactive-guide.md:75).
\* The code writes the servers that are connected at that moment.
ServersPersist == configured \subseteq serversFile
=============================================================================
