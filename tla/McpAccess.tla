----------------------------- MODULE McpAccess -----------------------------
(***************************************************************************)
(* A call to the MCP helper: the checks of lib/transport.ts, the method of *)
(* lib/dispatch.ts, the two gates of lib/authorize.ts and lib/decide.ts,   *)
(* and the tools of lib/tools-read.ts, tools-act.ts and tools-admin.ts.    *)
(* Every table is read behind an await of its own, while administrators    *)
(* revoke keys, change modes, disable accounts and strip permissions.      *)
(***************************************************************************)
EXTENDS Naturals, FiniteSets

CONSTANTS
    Assistant,       \* sources of calls
    Key,
    Account,         \* service accounts
    KeyAccount,      \* the account a key is minted for
    Permission,      \* permissions an account may hold
    Tool,            \* names of tools that are called, and of one that is unknown
    Release,         \* versions of the application
    FailureLimit     \* AUTH_FAILURE_LIMIT

ASSUME AccessConstantsOK ==
    /\ KeyAccount \in [Key -> Account]
    /\ FailureLimit \in Nat \ {0}

VARIABLES
    keyMode,         \* keys table: the mode of each key, or "absent"
    standing,        \* accounts: "active", "inactive", or "gone" (not a service account)
    held,            \* accounts: the permissions of their roles
    session,         \* the session an assistant may revoke: "user", "admin" or "gone"
    release,         \* the release on offer
    shutdownAllowed, \* settings table
    failures,        \* refusals counted against a source in its window
    blocked,         \* sources serving a block
    call,            \* each source's call: where it is and what it has read
    \* history
    lacking          \* what each call has been short of ever since it began

tablesRead == <<keyMode, standing, held, session, release, shutdownAllowed>>
accessVars == <<tablesRead, failures, blocked, call, lacking>>

Mode == {"read", "act", "admin"}
Rank(m) == CASE m = "read" -> 0 [] m = "act" -> 1 [] m = "admin" -> 2

\* What each registered tool declares that it needs
ReadTools ==
    [get_server_status |-> "none", list_services |-> "none",
     list_modules |-> "modules.manage", list_sessions |-> "sessions.manage",
     query_audit_log |-> "audit.view", list_users |-> "users.manage"]
UpdateTools ==
    [check_for_updates |-> "settings.manage", list_module_updates |-> "modules.manage"]
ActTools ==
    [revoke_session |-> "sessions.manage", set_module_enabled |-> "modules.manage"]
AdminTools ==
    [apply_update |-> "settings.manage", set_update_channel |-> "settings.manage",
     create_backup |-> "backups.manage", restart_server |-> "settings.manage",
     shutdown_server |-> "settings.manage"]

Needs(t) ==
    CASE t \in DOMAIN ActTools   -> [kind |-> "act", permission |-> ActTools[t]]
      [] t \in DOMAIN AdminTools -> [kind |-> "admin", permission |-> AdminTools[t]]
      [] t \in DOMAIN ReadTools  -> [kind |-> "read", permission |-> ReadTools[t]]
      [] t \in DOMAIN UpdateTools -> [kind |-> "read", permission |-> UpdateTools[t]]
      [] OTHER -> [kind |-> "read", permission |-> "none"]   \* also initialize, tools/list

Changes(t) == t \in DOMAIN ActTools \cup DOMAIN AdminTools
RecordsAfter(t) == t \in {"set_update_channel", "create_backup"}

\* The arguments a caller may give: the release it means to install, or one
\* that a tool accepts or turns down by itself (an id, a channel, a phrase)
Argument(t) == IF t = "apply_update" THEN Release ELSE {"good", "bad"}

NoCall == [at |-> "none"]
Step(k, place) == [k EXCEPT !.at = place]

Call ==
    {NoCall} \cup
    [at : {"body", "verify", "account", "permissions", "touch", "run", "record", "act"},
     key : Key, tool : Tool, arg : Release \cup {"good", "bad"}, mode : Mode]

AccessTypeOK ==
    /\ keyMode \in [Key -> Mode \cup {"absent"}]
    /\ standing \in [Account -> {"active", "inactive", "gone"}]
    /\ held \in [Account -> SUBSET Permission]
    /\ session \in {"user", "admin", "gone"}
    /\ release \in Release
    /\ shutdownAllowed \in BOOLEAN
    /\ failures \in [Assistant -> 0..FailureLimit]
    /\ blocked \subseteq Assistant
    /\ call \in [Assistant -> Call]
    /\ lacking \in [Assistant -> SUBSET {"key", "mode", "account", "permission", "own"}]

AccessInit ==
    /\ keyMode = [k \in Key |-> "absent"]
    /\ standing = [a \in Account |-> "active"]
    /\ held \in [Account -> SUBSET Permission]
    /\ session = "user"
    /\ release \in Release
    /\ shutdownAllowed = FALSE
    /\ failures = [c \in Assistant |-> 0]
    /\ blocked = {}
    /\ call = [c \in Assistant |-> NoCall]
    /\ lacking = [c \in Assistant |-> {}]

-----------------------------------------------------------------------------
(* The two gates. *)

ModeAllows(mode, kind) == Rank(kind) <= Rank(mode)

Decide(mode, need, permissions) ==
    /\ ModeAllows(mode, need.kind)
    /\ need.permission # "none" => need.permission \in permissions

\* What a tool checks by itself, when it runs
OwnGuard(t, arg) ==
    CASE t = "revoke_session"  -> session = "user"
      [] t = "apply_update"    -> arg = release
      [] t = "shutdown_server" -> shutdownAllowed /\ arg = "good"
      [] OTHER -> arg = "good" \/ t \in {"create_backup", "restart_server"}

\* The requirements of a call that hold at this moment
Holding(k) ==
    LET need == Needs(k.tool)
        a    == KeyAccount[k.key]
        live == keyMode[k.key] # "absent"
    IN  {x \in {"key", "mode", "account", "permission", "own"} :
            CASE x = "key"        -> live
              [] x = "mode"       -> live /\ Rank(need.kind) <= Rank(keyMode[k.key])
              [] x = "account"    -> standing[a] = "active"
              [] x = "permission" -> need.permission \in held[a] \cup {"none"}
              [] x = "own"        -> Changes(k.tool) => OwnGuard(k.tool, k.arg)}

CallIs(c, place) == call[c].at = place
Moves(c, k) == call' = [call EXCEPT ![c] = k]
Ends(c) == Moves(c, NoCall)
Serving == UNCHANGED <<tablesRead, lacking>>

\* reject: every refusal is counted against its source, up to a block
Reject(c) ==
    /\ Ends(c)
    /\ IF failures[c] = FailureLimit
       THEN blocked' = blocked \cup {c} /\ UNCHANGED failures
       ELSE failures' = [failures EXCEPT ![c] = @ + 1] /\ UNCHANGED blocked

Proceeds(c, k) == Moves(c, k) /\ UNCHANGED <<failures, blocked>>

-----------------------------------------------------------------------------
(* handle: a request arrives. *)

\* From a web page, under another name, without a key.  A blocked source is
\* refused before anything is looked at, and not counted.
Turn(c) ==
    /\ call[c] = NoCall
    /\ c \notin blocked
    /\ Reject(c)
    /\ Serving

\* The body is read before the method is known.
Receive(c, key, tool, arg) ==
    /\ call[c] = NoCall
    /\ c \notin blocked
    /\ LET k == [at |-> "body", key |-> key, tool |-> tool, arg |-> arg, mode |-> "read"]
       IN  /\ Proceeds(c, k)
           /\ lacking' = [lacking EXCEPT ![c] = {"key", "mode", "account", "permission", "own"} \ Holding(k)]
    /\ UNCHANGED tablesRead

\* Too long, not JSON, a notification or an unknown method: answered as such.
Dispatch(c) ==
    /\ CallIs(c, "body")
    /\ \/ Proceeds(c, Step(call[c], "verify"))
       \/ Proceeds(c, NoCall)
    /\ Serving

(* authorize *)

\* A key that is not there is refused, and one whose mode is too low.
VerifyKey(c) ==
    /\ CallIs(c, "verify")
    /\ LET k == call[c]
           m == keyMode[k.key]
       IN  IF m # "absent" /\ ModeAllows(m, Needs(k.tool).kind)
           THEN Proceeds(c, [k EXCEPT !.at = "account", !.mode = m])
           ELSE Reject(c)
    /\ Serving

\* Mutant: an account that is disabled still passes.
ResolveAnyAccount(c) ==
    /\ CallIs(c, "account")
    /\ IF standing[KeyAccount[call[c].key]] # "gone"
       THEN Proceeds(c, Step(call[c], "permissions"))
       ELSE Reject(c)
    /\ Serving

ResolveAccount(c) ==
    /\ CallIs(c, "account")
    /\ IF standing[KeyAccount[call[c].key]] = "active"
       THEN Proceeds(c, Step(call[c], "permissions"))
       ELSE Reject(c)
    /\ Serving

\* The mode is the one the key had when it was verified.
DecideCall(c) ==
    /\ CallIs(c, "permissions")
    /\ LET k == call[c]
       IN  IF Decide(k.mode, Needs(k.tool), held[KeyAccount[k.key]])
           THEN Proceeds(c, Step(k, "touch"))
           ELSE Reject(c)
    /\ Serving

\* A key revoked by now is updated without effect, and the call goes on.
\* A read, and a tool nobody registered, end here with their answer.
TouchKey(c) ==
    /\ CallIs(c, "touch")
    /\ Proceeds(c, IF Changes(call[c].tool) THEN Step(call[c], "run") ELSE NoCall)
    /\ Serving

-----------------------------------------------------------------------------
(* The tools that change something: look, then record and act, or in two   *)
(* tools act and record.                                                   *)

\* A tool that declines answers with an error; it is not a refusal.
Examine(c) ==
    /\ CallIs(c, "run")
    /\ LET k == call[c]
       IN  Proceeds(c, IF ~OwnGuard(k.tool, k.arg) THEN NoCall
                       ELSE IF RecordsAfter(k.tool) THEN Step(k, "act") ELSE Step(k, "record"))
    /\ Serving

RecordCall(c) ==
    /\ CallIs(c, "record")
    /\ Proceeds(c, IF RecordsAfter(call[c].tool) THEN NoCall ELSE Step(call[c], "act"))
    /\ Serving

Watch == lacking' = [c \in Assistant |->
                        IF call[c] = NoCall THEN {} ELSE lacking[c] \ Holding(call[c])']

\* revoke_session deletes what it found; a session gone by now is an error.
RevokeSession(c) ==
    /\ CallIs(c, "act")
    /\ call[c].tool = "revoke_session"
    /\ session' = "gone"
    /\ Proceeds(c, NoCall)
    /\ UNCHANGED <<keyMode, standing, held, release, shutdownAllowed, lacking>>

\* set_module_enabled, set_update_channel and create_backup act on the platform.
ActOnPlatform(c) ==
    /\ CallIs(c, "act")
    /\ call[c].tool \in {"set_module_enabled", "set_update_channel", "create_backup"}
    /\ Proceeds(c, IF RecordsAfter(call[c].tool) THEN Step(call[c], "record") ELSE NoCall)
    /\ Serving

\* apply_update, restart_server and shutdown_server end the process, and
\* with it every call and every count.
EndProcess(c) ==
    /\ CallIs(c, "act")
    /\ call[c].tool \in {"apply_update", "restart_server", "shutdown_server"}
    /\ call' = [d \in Assistant |-> NoCall]
    /\ failures' = [d \in Assistant |-> 0]
    /\ blocked' = {}
    /\ lacking' = [d \in Assistant |-> {}]
    /\ UNCHANGED tablesRead

-----------------------------------------------------------------------------
(* Meanwhile: the settings page, the platform, and time.                   *)

KeysBecome(modes) ==
    /\ keyMode' = modes
    /\ UNCHANGED <<standing, held, session, release, shutdownAllowed, failures, blocked, call>>
    /\ Watch

\* A key is minted for a service account only, checked when the form arrives.
MintKey(k, mode) ==
    /\ keyMode[k] = "absent"
    /\ standing[KeyAccount[k]] # "gone"
    /\ KeysBecome([keyMode EXCEPT ![k] = mode])

SetKeyMode(k, mode) ==
    /\ keyMode[k] # "absent"
    /\ KeysBecome([keyMode EXCEPT ![k] = mode])

RevokeKey(k) == KeysBecome([keyMode EXCEPT ![k] = "absent"])

RevokeKeysForAccount(a) ==
    /\ standing[a] = "gone"
    /\ KeysBecome([k \in Key |-> IF KeyAccount[k] = a THEN "absent" ELSE keyMode[k]])

AllowShutdown(on) ==
    /\ shutdownAllowed' = on
    /\ UNCHANGED <<keyMode, standing, held, session, release, failures, blocked, call>>
    /\ Watch

ChangeAccount(a, becomes) ==
    /\ standing[a] # "gone"
    /\ standing' = [standing EXCEPT ![a] = becomes]
    /\ UNCHANGED <<keyMode, held, session, release, shutdownAllowed, failures, blocked, call>>
    /\ Watch

ChangeRoles(a, p) ==
    /\ held' = [held EXCEPT ![a] = IF p \in @ THEN @ \ {p} ELSE @ \cup {p}]
    /\ UNCHANGED <<keyMode, standing, session, release, shutdownAllowed, failures, blocked, call>>
    /\ Watch

ChangeSession(becomes) ==
    /\ session' = becomes
    /\ UNCHANGED <<keyMode, standing, held, release, shutdownAllowed, failures, blocked, call>>
    /\ Watch

Publish(r) ==
    /\ release' = r
    /\ UNCHANGED <<keyMode, standing, held, session, shutdownAllowed, failures, blocked, call>>
    /\ Watch

\* The window of the failures slides on, and blocks run out.
WindowPasses(c) ==
    /\ failures' = [failures EXCEPT ![c] = 0]
    /\ blocked' = blocked \ {c}
    /\ UNCHANGED <<tablesRead, call, lacking>>

AccessNext ==
    \/ \E c \in Assistant :
          \/ Turn(c)
          \/ \E k \in Key, t \in Tool : \E arg \in Argument(t) : Receive(c, k, t, arg)
          \/ Dispatch(c) \/ VerifyKey(c) \/ ResolveAccount(c) \/ DecideCall(c) \/ TouchKey(c)
          \/ Examine(c) \/ RecordCall(c)
          \/ RevokeSession(c) \/ ActOnPlatform(c) \/ EndProcess(c)
          \/ WindowPasses(c)
    \/ \E k \in Key : RevokeKey(k) \/ \E m \in Mode : MintKey(k, m) \/ SetKeyMode(k, m)
    \/ \E a \in Account :
          \/ RevokeKeysForAccount(a)
          \/ \E s \in {"active", "inactive", "gone"} : ChangeAccount(a, s)
          \/ \E p \in Permission : ChangeRoles(a, p)
    \/ \E on \in BOOLEAN : AllowShutdown(on)
    \/ \E s \in {"user", "admin", "gone"} : ChangeSession(s)
    \/ \E r \in Release : Publish(r)

AccessSpec == AccessInit /\ [][AccessNext]_accessVars

-----------------------------------------------------------------------------
(* "Stripping a role must cost the agent that power immediately": a call   *)
(* acts only on what it had.  Of everything it needs -- the key, its mode, *)
(* a service account in use, the permission, and what the tool asks by     *)
(* itself (no administrator signed out, the release that was named, the    *)
(* switch for a shutdown) -- there is nothing that was missing from the    *)
(* moment the request arrived up to the moment it acts.                    *)
CallsWereAllowed ==
    \A c \in Assistant : CallIs(c, "act") => lacking[c] = {}
=============================================================================
