---------------------------- MODULE McpListener ----------------------------
(***************************************************************************)
(* The endpoint of the MCP helper (lib/transport.ts) and the requests of   *)
(* its settings page that open, move and close it (helper.ts).  A request  *)
(* is a handler with an await at every table it reads or writes, so two of *)
(* them, sent from two tabs, run interleaved.  listen() on a literal       *)
(* address completes within the turn that calls it, and close() stops the  *)
(* accepting at once; only its wait for old connections takes time.        *)
(***************************************************************************)
EXTENDS Naturals, FiniteSets

CONSTANTS
    Tab,            \* pages an administrator has open
    Boot,           \* the caller of startListener at boot
    Port,           \* ALLOWED_PORTS
    FirstPort,      \* what a missing row reads as
    NoServer,
    Dead,           \* a server that was created but could not bind its port
    MaxKeys         \* bound on rows of the keys table

ASSUME ListenerConstantsOK ==
    /\ Boot \notin Tab
    /\ FirstPort \in Port
    /\ NoServer # Dead
    /\ {NoServer, Dead} \cap [port : Port, exposed : BOOLEAN] = {}
    /\ MaxKeys \in Nat

VARIABLES
    switch,      \* settings table: enabled, exposed, port
    keyCount,    \* rows of the keys table
    sockets,     \* listening sockets of this process
    holder,      \* the server on globalThis: a socket, Dead or NoServer
    request,     \* each caller's request: where it is and what it has read
    \* history
    strayed,     \* something changed under a start that was on its way
    dropped      \* the last key went with its account

listenerVars == <<switch, keyCount, sockets, holder, request, strayed, dropped>>

Caller == Tab \cup {Boot}
Socket == [port : Port, exposed : BOOLEAN]

Idle == [at |-> "idle"]
Place ==
    [at : {"idle", "start", "keys", "dependents", "port", "remaining"}]
        \cup [at : {"stop", "closing"}, thenStart : BOOLEAN]
        \cup [at : {"exposed"}, port : Port]

ListenerTypeOK ==
    /\ switch \in [enabled : BOOLEAN, exposed : BOOLEAN, port : Port]
    /\ keyCount \in 0..MaxKeys
    /\ sockets \subseteq Socket
    /\ holder \in sockets \cup {NoServer, Dead}
    /\ request \in [Caller -> Place]
    /\ strayed \in BOOLEAN
    /\ dropped \in BOOLEAN

\* A fresh install: every row is absent, and absent reads as off.
ListenerInit ==
    /\ switch = [enabled |-> FALSE, exposed |-> FALSE, port |-> FirstPort]
    /\ keyCount = 0
    /\ sockets = {}
    /\ holder = NoServer
    /\ request = [c \in Caller |-> Idle]
    /\ strayed = FALSE
    /\ dropped = FALSE

Goes(c, place) == request' = [request EXCEPT ![c] = place]
Starting(c) == request[c].at \in {"keys", "dependents", "port", "exposed"}

\* startListener does not look again at what it has already read
Disturb(c) == strayed' = (strayed \/ \E d \in Caller \ {c} : Starting(d))

-----------------------------------------------------------------------------
(* startListener *)

\* Returns at once when a server is held, dead or alive, and when switched off.
BeginStart(c) ==
    /\ request[c].at = "start"
    /\ Disturb(c)
    /\ Goes(c, IF holder # NoServer \/ ~switch.enabled THEN Idle ELSE [at |-> "keys"])
    /\ UNCHANGED <<switch, keyCount, sockets, holder, dropped>>

CountKeys(c) ==
    /\ request[c].at = "keys"
    /\ Goes(c, IF keyCount = 0 THEN Idle ELSE [at |-> "dependents"])
    /\ UNCHANGED <<switch, keyCount, sockets, holder, strayed, dropped>>

\* Whether an add-on that uses the helper is enabled is the platform's to say.
CountDependents(c) ==
    /\ request[c].at = "dependents"
    /\ \E live \in BOOLEAN : Goes(c, IF live THEN [at |-> "port"] ELSE Idle)
    /\ UNCHANGED <<switch, keyCount, sockets, holder, strayed, dropped>>

ReadPort(c) ==
    /\ request[c].at = "port"
    /\ Goes(c, [at |-> "exposed", port |-> switch.port])
    /\ UNCHANGED <<switch, keyCount, sockets, holder, strayed, dropped>>

Binds(s) == \A t \in sockets : t.port # s.port

\* The server is held first and listens second: when the port is taken, by
\* one of our own sockets or by another program, the request fails and the
\* server that never listened stays held.
CreateServer(c) ==
    /\ request[c].at = "exposed"
    /\ LET s == [port |-> request[c].port, exposed |-> switch.exposed]
       IN  \/ /\ Binds(s)
              /\ sockets' = sockets \cup {s}
              /\ holder' = s
           \/ /\ sockets' = sockets
              /\ holder' = Dead
    /\ Goes(c, Idle)
    /\ UNCHANGED <<switch, keyCount, strayed, dropped>>

(* stopListener *)

\* Mutants: the socket is closed but the reference is kept; the other way round.
HoldOn(c) ==
    /\ request[c].at = "stop"
    /\ Disturb(c)
    /\ sockets' = sockets \ {holder}
    /\ Goes(c, [request[c] EXCEPT !.at = "closing"])
    /\ UNCHANGED <<switch, keyCount, holder, dropped>>

LeaveOpen(c) ==
    /\ request[c].at = "stop"
    /\ Disturb(c)
    /\ holder' = NoServer
    /\ Goes(c, [request[c] EXCEPT !.at = "closing"])
    /\ UNCHANGED <<switch, keyCount, sockets, dropped>>

\* The reference is dropped, and the port is free; held connections are
\* ended, and what is left of them is waited for.
Close(c) ==
    /\ request[c].at = "stop"
    /\ Disturb(c)
    /\ sockets' = sockets \ {holder}
    /\ holder' = NoServer
    /\ Goes(c, [request[c] EXCEPT !.at = "closing"])
    /\ UNCHANGED <<switch, keyCount, dropped>>

Closed(c) ==
    /\ request[c].at = "closing"
    /\ Goes(c, IF request[c].thenStart THEN [at |-> "start"] ELSE Idle)
    /\ UNCHANGED <<switch, keyCount, sockets, holder, strayed, dropped>>

-----------------------------------------------------------------------------
(* What the settings page sends (onSettingsSubmit), each with its write.   *)
(* A page sends one request at a time and waits for its answer.            *)

Stop(thenStart) == [at |-> "stop", thenStart |-> thenStart]

Submit(c, place) ==
    /\ request[c].at = "idle"
    /\ Goes(c, place)
    /\ Disturb(c)
    /\ UNCHANGED <<sockets, holder>>

SetEnabled(c, on) ==
    /\ switch' = [switch EXCEPT !.enabled = on]
    /\ Submit(c, IF on THEN [at |-> "start"] ELSE Stop(FALSE))
    /\ UNCHANGED <<keyCount, dropped>>

\* Without HTTPS the network is refused unless confirmed; a refusal writes
\* nothing.  The address is fixed when the socket opens, hence the restart.
SetExposed(c, on, https, confirmed) ==
    /\ on => https \/ confirmed
    /\ switch' = [switch EXCEPT !.exposed = on]
    /\ Submit(c, Stop(TRUE))
    /\ UNCHANGED <<keyCount, dropped>>

SetPort(c, p) ==
    /\ switch' = [switch EXCEPT !.port = p]
    /\ Submit(c, Stop(TRUE))
    /\ UNCHANGED <<keyCount, dropped>>

Mint(c) ==
    /\ keyCount < MaxKeys
    /\ keyCount' = keyCount + 1
    /\ dropped' = FALSE
    /\ Submit(c, [at |-> "start"])
    /\ UNCHANGED switch

Revoke(c) ==
    /\ keyCount > 0
    /\ keyCount' = keyCount - 1
    /\ Submit(c, [at |-> "remaining"])
    /\ UNCHANGED <<switch, dropped>>

\* The keys are counted after the delete, in a statement of its own.
CloseAfterLast(c) ==
    /\ request[c].at = "remaining"
    /\ Goes(c, IF keyCount = 0 THEN Stop(FALSE) ELSE Idle)
    /\ UNCHANGED <<switch, keyCount, sockets, holder, strayed, dropped>>

\* onIdentityRemoved: the keys of an account that is gone are dropped.  It
\* leaves the listener alone.
RemoveIdentity(left) ==
    /\ left < keyCount
    /\ keyCount' = left
    /\ dropped' = (dropped \/ left = 0)
    /\ UNCHANGED <<switch, sockets, holder, request, strayed>>

\* The process ends, with every socket and request; boot starts the listener.
RestartProcess ==
    /\ sockets' = {}
    /\ holder' = NoServer
    /\ request' = [c \in Caller |-> IF c = Boot THEN [at |-> "start"] ELSE Idle]
    /\ strayed' = FALSE
    /\ dropped' = FALSE
    /\ UNCHANGED <<switch, keyCount>>

ListenerNext ==
    \/ \E c \in Caller :
          \/ BeginStart(c) \/ CountKeys(c) \/ CountDependents(c)
          \/ ReadPort(c) \/ CreateServer(c)
          \/ Close(c) \/ Closed(c) \/ CloseAfterLast(c)
    \/ \E c \in Tab :
          \/ \E on \in BOOLEAN : SetEnabled(c, on)
          \/ \E on, https, confirmed \in BOOLEAN : SetExposed(c, on, https, confirmed)
          \/ \E p \in Port : SetPort(c, p)
          \/ Mint(c) \/ Revoke(c)
    \/ \E left \in 0..MaxKeys : RemoveIdentity(left)
    \/ RestartProcess

ListenerSpec == ListenerInit /\ [][ListenerNext]_listenerVars

-----------------------------------------------------------------------------
(* "Switched off -- the port is closed", "Back to this machine only", "Now *)
(* on port N", "Revoked": once every request has been answered, at most    *)
(* one socket listens, the one that can still be closed, at the address    *)
(* the settings name, and only when switched on and with a key to ask for. *)
(* Two cases are left out, because the code leaves them open: something    *)
(* changed while a start was between its reads, and the last key went with *)
(* its account, which closes nothing.                                      *)
ListenerMatchesSettings ==
    (~strayed /\ \A c \in Caller : request[c].at = "idle") =>
        \A s \in sockets :
            /\ s = holder
            /\ s = [port |-> switch.port, exposed |-> switch.exposed]
            /\ switch.enabled
            /\ keyCount > 0 \/ dropped
=============================================================================
