-------------------------- MODULE McpHelper_proofs --------------------------
(***************************************************************************)
(* The MCP helper, for any callers, keys, accounts, tools, tabs and ports. *)
(* CallsWereAllowed needs to know, of a call at each place on its way,     *)
(* what has been looked at by then (SoFarAllowed), and that a call is not  *)
(* recorded as short of what it has now (LackingIsCurrent).                *)
(***************************************************************************)
EXTENDS McpAccess, McpListener, TLAPS

Requirement == {"key", "mode", "account", "permission", "own"}

\* Where a call stands once the key, the account, the permissions, and the
\* tool itself have had their say.
PastKey == {"account", "permissions", "touch", "run", "record", "act"}
PastAccount == PastKey \ {"account"}
PastDecision == PastAccount \ {"permissions"}
PastExamination == {"record", "act"}

\* A call at such a place has not been short of what was looked at.
SoFarAllowed(c) ==
    /\ call[c].at \in PastKey => {"key", "mode"} \cap lacking[c] = {}
    /\ call[c].at \in PastAccount => "account" \notin lacking[c]
    /\ call[c].at \in PastDecision => "permission" \notin lacking[c]
    /\ call[c].at \in PastExamination => "own" \notin lacking[c]

\* What a call has now, it is not recorded as having lacked all along.
LackingIsCurrent(c) == call[c] # NoCall => lacking[c] \cap Holding(call[c]) = {}

AccessIInv ==
    /\ AccessTypeOK
    /\ \A c \in Assistant : LackingIsCurrent(c) /\ SoFarAllowed(c)

-----------------------------------------------------------------------------
(* What holds for a call depends on what was asked, not on how far it is.  *)
LEMMA HoldingMembers ==
    ASSUME NEW k
    PROVE  /\ Holding(k) \subseteq Requirement
           /\ "key" \in Holding(k) <=> keyMode[k.key] # "absent"
           /\ "mode" \in Holding(k) <=>
                 keyMode[k.key] # "absent" /\ ModeAllows(keyMode[k.key], Needs(k.tool).kind)
           /\ "account" \in Holding(k) <=> standing[KeyAccount[k.key]] = "active"
           /\ "permission" \in Holding(k) <=>
                 Needs(k.tool).permission \in held[KeyAccount[k.key]] \cup {"none"}
           /\ "own" \in Holding(k) <=> (Changes(k.tool) => OwnGuard(k.tool, k.arg))
BY DEF Holding, Requirement, ModeAllows

LEMMA HoldingOfAsked ==
    ASSUME NEW k, NEW l, l.key = k.key, l.tool = k.tool, l.arg = k.arg
    PROVE  Holding(l) = Holding(k)
BY DEF Holding

LEMMA TypeOKStep == AccessTypeOK /\ [AccessNext]_accessVars => AccessTypeOK'
<1> SUFFICES ASSUME AccessTypeOK, [AccessNext]_accessVars PROVE AccessTypeOK'
  OBVIOUS
<1> USE AccessConstantsOK DEF AccessTypeOK, Moves, Ends, Serving, Reject, Proceeds, Step, CallIs, tablesRead
<1>w. ASSUME Watch PROVE lacking' \in [Assistant -> SUBSET Requirement]
  BY <1>w DEF Watch, Requirement
<1>r. ASSUME NEW c \in Assistant, Reject(c), Serving PROVE AccessTypeOK'
  BY <1>r DEF NoCall, Call
<1>p. ASSUME NEW c \in Assistant, NEW k \in Call, Proceeds(c, k), Serving PROVE AccessTypeOK'
  BY <1>p
<1>s. ASSUME NEW c \in Assistant, call[c].at # "none",
             NEW place \in {"body", "verify", "account", "permissions", "touch", "run", "record", "act"}
      PROVE  Step(call[c], place) \in Call
  BY <1>s DEF Call, NoCall
<1>n. NoCall \in Call
  BY DEF Call
<1>1. ASSUME NEW c \in Assistant, Turn(c) PROVE AccessTypeOK'
  BY <1>1, <1>r DEF Turn
<1>2. ASSUME NEW c \in Assistant, NEW k \in Key, NEW t \in Tool, NEW arg \in Argument(t), Receive(c, k, t, arg)
      PROVE  AccessTypeOK'
  <2>1. arg \in Release \cup {"good", "bad"}
    BY DEF Argument
  <2>2. [at |-> "body", key |-> k, tool |-> t, arg |-> arg, mode |-> "read"] \in Call
    BY <2>1 DEF Call, Mode
  <2> QED
    BY <1>2, <2>2 DEF Receive
<1>3. ASSUME NEW c \in Assistant, Dispatch(c) PROVE AccessTypeOK'
  BY <1>3, <1>p, <1>s, <1>n DEF Dispatch
<1>4. ASSUME NEW c \in Assistant, VerifyKey(c) PROVE AccessTypeOK'
  <2>1. CASE /\ keyMode[call[c].key] # "absent"
             /\ ModeAllows(keyMode[call[c].key], Needs(call[c].tool).kind)
    <3>1. call[c] \in Call \ {NoCall}
      BY <1>4 DEF VerifyKey, NoCall
    <3>2. keyMode[call[c].key] \in Mode
      BY <2>1, <3>1 DEF Call
    <3>3. [call[c] EXCEPT !.at = "account", !.mode = keyMode[call[c].key]] \in Call
      BY <3>1, <3>2 DEF Call
    <3> QED
      BY <1>4, <2>1, <3>3, <1>p DEF VerifyKey
  <2>2. CASE ~(/\ keyMode[call[c].key] # "absent"
               /\ ModeAllows(keyMode[call[c].key], Needs(call[c].tool).kind))
    BY <1>4, <2>2, <1>r DEF VerifyKey
  <2> QED
    BY <2>1, <2>2
<1>5. ASSUME NEW c \in Assistant, ResolveAccount(c) PROVE AccessTypeOK'
  BY <1>5, <1>p, <1>r, <1>s DEF ResolveAccount
<1>6. ASSUME NEW c \in Assistant, DecideCall(c) PROVE AccessTypeOK'
  BY <1>6, <1>p, <1>r, <1>s DEF DecideCall
<1>7. ASSUME NEW c \in Assistant, TouchKey(c) PROVE AccessTypeOK'
  BY <1>7, <1>p, <1>n, <1>s DEF TouchKey
<1>8. ASSUME NEW c \in Assistant, Examine(c) PROVE AccessTypeOK'
  BY <1>8, <1>p, <1>n, <1>s DEF Examine
<1>9. ASSUME NEW c \in Assistant, RecordCall(c) PROVE AccessTypeOK'
  BY <1>9, <1>p, <1>n, <1>s DEF RecordCall
<1>10. ASSUME NEW c \in Assistant, RevokeSession(c) PROVE AccessTypeOK'
  BY <1>10, <1>n DEF RevokeSession
<1>11. ASSUME NEW c \in Assistant, ActOnPlatform(c) PROVE AccessTypeOK'
  BY <1>11, <1>p, <1>n, <1>s DEF ActOnPlatform
<1>12. ASSUME NEW c \in Assistant, EndProcess(c) PROVE AccessTypeOK'
  BY <1>12, <1>n DEF EndProcess
<1>13. ASSUME NEW c \in Assistant, WindowPasses(c) PROVE AccessTypeOK'
  BY <1>13 DEF WindowPasses
<1>14. ASSUME NEW modes \in [Key -> Mode \cup {"absent"}], KeysBecome(modes) PROVE AccessTypeOK'
  BY <1>14, <1>w DEF KeysBecome, Requirement
<1>15. ASSUME NEW k \in Key, RevokeKey(k) PROVE AccessTypeOK'
  BY <1>15, <1>14 DEF RevokeKey
<1>16. ASSUME NEW k \in Key, NEW m \in Mode, MintKey(k, m) \/ SetKeyMode(k, m) PROVE AccessTypeOK'
  <2>1. [keyMode EXCEPT ![k] = m] \in [Key -> Mode \cup {"absent"}]
    OBVIOUS
  <2> QED
    BY <1>16, <1>14, <2>1 DEF MintKey, SetKeyMode
<1>17. ASSUME NEW a \in Account, RevokeKeysForAccount(a) PROVE AccessTypeOK'
  BY <1>17, <1>14 DEF RevokeKeysForAccount
<1>18. ASSUME NEW a \in Account, NEW s \in {"active", "inactive", "gone"}, ChangeAccount(a, s) PROVE AccessTypeOK'
  BY <1>18, <1>w DEF ChangeAccount, Requirement
<1>19. ASSUME NEW a \in Account, NEW p \in Permission, ChangeRoles(a, p) PROVE AccessTypeOK'
  BY <1>19, <1>w DEF ChangeRoles, Requirement
<1>20. ASSUME NEW on \in BOOLEAN, AllowShutdown(on) PROVE AccessTypeOK'
  BY <1>20, <1>w DEF AllowShutdown, Requirement
<1>21. ASSUME NEW s \in {"user", "admin", "gone"}, ChangeSession(s) PROVE AccessTypeOK'
  BY <1>21, <1>w DEF ChangeSession, Requirement
<1>22. ASSUME NEW r \in Release, Publish(r) PROVE AccessTypeOK'
  BY <1>22, <1>w DEF Publish, Requirement
<1>23. ASSUME UNCHANGED accessVars PROVE AccessTypeOK'
  BY <1>23 DEF accessVars
<1> QED
  BY <1>1, <1>2, <1>3, <1>4, <1>5, <1>6, <1>7, <1>8, <1>9, <1>10, <1>11, <1>12, <1>13, <1>15, <1>16, <1>17,
     <1>18, <1>19, <1>20, <1>21, <1>22, <1>23 DEF AccessNext

-----------------------------------------------------------------------------
(* Under tables that stay as they are, and a call that moved on, what it    *)
(* has now is what it had.                                                 *)
LEMMA ServingKeepsCurrent ==
    ASSUME AccessTypeOK, NEW c \in Assistant, LackingIsCurrent(c), Serving,
           call'[c] = NoCall \/ call'[c] = call[c]
             \/ (/\ call[c] # NoCall
                 /\ call'[c].key = call[c].key /\ call'[c].tool = call[c].tool /\ call'[c].arg = call[c].arg)
    PROVE  LackingIsCurrent(c)'
<1>1. CASE call'[c] = NoCall
  BY <1>1 DEF LackingIsCurrent, NoCall
<1>2. CASE call'[c] # NoCall
  <2>1. call[c] # NoCall
    BY <1>2
  <2>2. Holding(call[c])' = Holding(call'[c])
    BY DEF Serving, tablesRead, Holding, OwnGuard
  <2>3. Holding(call'[c]) = Holding(call[c])
    BY <1>2, HoldingOfAsked
  <2> QED
    BY <2>1, <2>2, <2>3 DEF LackingIsCurrent, Serving, NoCall
<1> QED
  BY <1>1, <1>2

LEMMA WatchKeepsAll ==
    ASSUME AccessTypeOK, NEW c \in Assistant, SoFarAllowed(c), Watch, call' = call
    PROVE  LackingIsCurrent(c)' /\ SoFarAllowed(c)'
<1>1. lacking'[c] = IF call[c] = NoCall THEN {} ELSE lacking[c] \ Holding(call[c])'
  BY DEF Watch
<1>2. lacking'[c] \subseteq lacking[c]
  BY <1>1
<1> QED
  BY <1>1, <1>2 DEF LackingIsCurrent, SoFarAllowed, NoCall

(* Only the steps of a call itself move it, but for the end of the process. *)
LEMMA SoFarAllowedElsewhere ==
    ASSUME NEW c \in Assistant, SoFarAllowed(c), call'[c] = call[c], lacking'[c] = lacking[c]
    PROVE  SoFarAllowed(c)'
BY DEF SoFarAllowed

LEMMA NoCallIsAllowed ==
    ASSUME NEW c \in Assistant, call'[c] = NoCall
    PROVE  SoFarAllowed(c)'
BY DEF SoFarAllowed, NoCall, PastKey, PastAccount, PastDecision, PastExamination

LEMMA ServingStep ==
    ASSUME AccessIInv, AccessTypeOK', NEW c \in Assistant, NEW d \in Assistant,
           NEW place \in {"body", "verify", "account", "permissions", "touch", "run", "record", "act"},
           NEW k, k = NoCall \/ k = Step(call[d], place) \/ k = [call[d] EXCEPT !.at = place, !.mode = keyMode[call[d].key]],
           call[d] # NoCall, Moves(d, k), Serving,
           c = d /\ k # NoCall =>
              /\ place \in PastKey => {"key", "mode"} \cap lacking[c] = {}
              /\ place \in PastAccount => "account" \notin lacking[c]
              /\ place \in PastDecision => "permission" \notin lacking[c]
              /\ place \in PastExamination => "own" \notin lacking[c]
    PROVE  LackingIsCurrent(c)' /\ SoFarAllowed(c)'
<1> USE DEF AccessIInv
<1>1. CASE c # d
  <2>1. call'[c] = call[c] /\ lacking'[c] = lacking[c]
    BY <1>1 DEF Moves, Serving, AccessTypeOK
  <2> QED
    BY <2>1, ServingKeepsCurrent, SoFarAllowedElsewhere
<1>2. CASE c = d /\ k = NoCall
  <2>1. call'[c] = NoCall
    BY <1>2 DEF Moves, AccessTypeOK
  <2> QED
    BY <2>1, ServingKeepsCurrent, NoCallIsAllowed
<1>3. CASE c = d /\ k # NoCall
  <2>1. call'[c] = k /\ lacking'[c] = lacking[c] /\ call[c] \in Call \ {NoCall}
    BY <1>3 DEF Moves, Serving, AccessTypeOK
  <2>2. k.at = place /\ k.key = call[c].key /\ k.tool = call[c].tool /\ k.arg = call[c].arg
    BY <1>3, <2>1 DEF Step, Call
  <2>3. LackingIsCurrent(c)'
    BY <1>3, <2>1, <2>2, ServingKeepsCurrent
  <2>4. SoFarAllowed(c)'
    BY <1>3, <2>1, <2>2 DEF SoFarAllowed
  <2> QED
    BY <2>3, <2>4
<1> QED
  BY <1>1, <1>2, <1>3

LEMMA AccessIInvStep == AccessIInv /\ [AccessNext]_accessVars => AccessIInv'
<1> SUFFICES ASSUME AccessIInv, [AccessNext]_accessVars PROVE AccessIInv'
  OBVIOUS
<1>t. AccessTypeOK /\ AccessTypeOK'
  BY TypeOKStep DEF AccessIInv
<1> SUFFICES ASSUME NEW c \in Assistant PROVE LackingIsCurrent(c)' /\ SoFarAllowed(c)'
  BY <1>t DEF AccessIInv
<1>i. LackingIsCurrent(c) /\ SoFarAllowed(c)
  BY DEF AccessIInv
<1>k. ASSUME NEW d \in Assistant, call[d].at # "none"
      PROVE  call[d] # NoCall /\ call[d] \in Call \ {NoCall}
  BY <1>k, <1>t DEF NoCall, AccessTypeOK
<1>p. ASSUME NEW d \in Assistant PROVE LackingIsCurrent(d) /\ SoFarAllowed(d)
  BY DEF AccessIInv
<1>h. ASSUME NEW d \in Assistant, call[d].at # "none" PROVE lacking[d] \cap Holding(call[d]) = {}
  BY <1>k, <1>p, <1>h DEF LackingIsCurrent
<1>1. ASSUME NEW d \in Assistant, Turn(d) PROVE LackingIsCurrent(c)' /\ SoFarAllowed(c)'
  <2>1. call' = call /\ Serving
    BY <1>1, <1>t DEF Turn, Reject, Ends, Moves, AccessTypeOK
  <2> QED
    BY <1>t, <1>i, <2>1, ServingKeepsCurrent, SoFarAllowedElsewhere DEF Serving
<1>2. ASSUME NEW d \in Assistant, NEW key \in Key, NEW t \in Tool, NEW arg \in Argument(t), Receive(d, key, t, arg)
      PROVE  LackingIsCurrent(c)' /\ SoFarAllowed(c)'
  <2> PICK k : k = [at |-> "body", key |-> key, tool |-> t, arg |-> arg, mode |-> "read"]
    OBVIOUS
  <2>1. /\ call' = [call EXCEPT ![d] = k]
        /\ lacking' = [lacking EXCEPT ![d] = Requirement \ Holding(k)]
        /\ UNCHANGED tablesRead
    BY <1>2 DEF Receive, Proceeds, Moves, Requirement
  <2>2. CASE c = d
    <3>1. call'[c] = k /\ lacking'[c] = Requirement \ Holding(k)
      BY <2>1, <2>2, <1>t DEF AccessTypeOK
    <3>2. Holding(call[c])' = Holding(call'[c])
      BY <2>1 DEF tablesRead, Holding, OwnGuard
    <3> QED
      BY <3>1, <3>2 DEF LackingIsCurrent, SoFarAllowed, PastKey, PastAccount, PastDecision, PastExamination
  <2>3. CASE c # d
    <3>1. call'[c] = call[c] /\ lacking'[c] = lacking[c]
      BY <2>1, <2>3, <1>t DEF AccessTypeOK
    <3>2. Holding(call[c])' = Holding(call'[c])
      BY <2>1 DEF tablesRead, Holding, OwnGuard
    <3> QED
      BY <1>i, <3>1, <3>2, SoFarAllowedElsewhere DEF LackingIsCurrent, NoCall
  <2> QED
    BY <2>2, <2>3
<1>3. ASSUME NEW d \in Assistant, Dispatch(d) PROVE LackingIsCurrent(c)' /\ SoFarAllowed(c)'
  <2>1. call[d] # NoCall /\ Serving /\ (Moves(d, Step(call[d], "verify")) \/ Moves(d, NoCall))
    BY <1>3, <1>k DEF Dispatch, Proceeds, CallIs
  <2> QED
    BY <2>1, <1>t, ServingStep DEF PastKey, PastAccount, PastDecision, PastExamination
<1>4. ASSUME NEW d \in Assistant, VerifyKey(d) PROVE LackingIsCurrent(c)' /\ SoFarAllowed(c)'
  <2>1. call[d] # NoCall /\ Serving /\ lacking[d] \cap Holding(call[d]) = {}
    BY <1>4, <1>k, <1>h DEF VerifyKey, CallIs
  <2> PICK k : k = [call[d] EXCEPT !.at = "account", !.mode = keyMode[call[d].key]]
    OBVIOUS
  <2>2. CASE /\ keyMode[call[d].key] # "absent"
             /\ ModeAllows(keyMode[call[d].key], Needs(call[d].tool).kind)
    <3>1. {"key", "mode"} \cap lacking[d] = {}
      BY <2>1, <2>2, HoldingMembers
    <3>2. Moves(d, k)
      BY <1>4, <2>2 DEF VerifyKey, Proceeds
    <3> QED
      BY <2>1, <3>1, <3>2, <1>t, ServingStep DEF PastAccount, PastDecision, PastExamination
  <2>3. CASE ~(/\ keyMode[call[d].key] # "absent"
               /\ ModeAllows(keyMode[call[d].key], Needs(call[d].tool).kind))
    <3>1. Moves(d, NoCall)
      BY <1>4, <2>3 DEF VerifyKey, Reject, Ends
    <3> QED
      BY <2>1, <3>1, <1>t, ServingStep
  <2> QED
    BY <2>2, <2>3
<1>5. ASSUME NEW d \in Assistant, ResolveAccount(d) PROVE LackingIsCurrent(c)' /\ SoFarAllowed(c)'
  <2>1. /\ call[d] # NoCall /\ Serving /\ lacking[d] \cap Holding(call[d]) = {}
        /\ {"key", "mode"} \cap lacking[d] = {}
    BY <1>5, <1>k, <1>h, <1>p DEF ResolveAccount, CallIs, SoFarAllowed, PastKey
  <2>2. CASE standing[KeyAccount[call[d].key]] = "active"
    <3>1. "account" \notin lacking[d]
      BY <2>1, <2>2, HoldingMembers
    <3>2. Moves(d, Step(call[d], "permissions"))
      BY <1>5, <2>2 DEF ResolveAccount, Proceeds
    <3> QED
      BY <2>1, <3>1, <3>2, <1>t, ServingStep DEF PastDecision, PastExamination, PastAccount
  <2>3. CASE standing[KeyAccount[call[d].key]] # "active"
    <3>1. Moves(d, NoCall)
      BY <1>5, <2>3 DEF ResolveAccount, Reject, Ends
    <3> QED
      BY <2>1, <3>1, <1>t, ServingStep
  <2> QED
    BY <2>2, <2>3
<1>6. ASSUME NEW d \in Assistant, DecideCall(d) PROVE LackingIsCurrent(c)' /\ SoFarAllowed(c)'
  <2>1. /\ call[d] # NoCall /\ Serving /\ lacking[d] \cap Holding(call[d]) = {}
        /\ {"key", "mode", "account"} \cap lacking[d] = {}
    BY <1>6, <1>k, <1>h, <1>p DEF DecideCall, CallIs, SoFarAllowed, PastKey, PastAccount
  <2>2. CASE Decide(call[d].mode, Needs(call[d].tool), held[KeyAccount[call[d].key]])
    <3>1. "permission" \notin lacking[d]
      BY <2>1, <2>2, HoldingMembers DEF Decide
    <3>2. Moves(d, Step(call[d], "touch"))
      BY <1>6, <2>2 DEF DecideCall, Proceeds
    <3> QED
      BY <2>1, <3>1, <3>2, <1>t, ServingStep DEF PastExamination
  <2>3. CASE ~Decide(call[d].mode, Needs(call[d].tool), held[KeyAccount[call[d].key]])
    <3>1. Moves(d, NoCall)
      BY <1>6, <2>3 DEF DecideCall, Reject, Ends
    <3> QED
      BY <2>1, <3>1, <1>t, ServingStep
  <2> QED
    BY <2>2, <2>3
<1>7. ASSUME NEW d \in Assistant, TouchKey(d) PROVE LackingIsCurrent(c)' /\ SoFarAllowed(c)'
  <2>1. /\ call[d] # NoCall /\ Serving
        /\ {"key", "mode", "account", "permission"} \cap lacking[d] = {}
    BY <1>7, <1>k, <1>p DEF TouchKey, CallIs, SoFarAllowed, PastKey, PastAccount, PastDecision
  <2>2. Moves(d, Step(call[d], "run")) \/ Moves(d, NoCall)
    BY <1>7 DEF TouchKey, Proceeds
  <2> QED
    BY <2>1, <2>2, <1>t, ServingStep DEF PastExamination
<1>8. ASSUME NEW d \in Assistant, Examine(d) PROVE LackingIsCurrent(c)' /\ SoFarAllowed(c)'
  <2>1. /\ call[d] # NoCall /\ Serving /\ lacking[d] \cap Holding(call[d]) = {}
        /\ {"key", "mode", "account", "permission"} \cap lacking[d] = {}
    BY <1>8, <1>k, <1>h, <1>p DEF Examine, CallIs, SoFarAllowed, PastKey, PastAccount, PastDecision
  <2>2. CASE OwnGuard(call[d].tool, call[d].arg)
    <3>1. "own" \notin lacking[d]
      BY <2>1, <2>2, HoldingMembers
    <3>2. Moves(d, Step(call[d], "act")) \/ Moves(d, Step(call[d], "record"))
      BY <1>8, <2>2 DEF Examine, Proceeds
    <3> QED
      BY <2>1, <3>1, <3>2, <1>t, ServingStep
  <2>3. CASE ~OwnGuard(call[d].tool, call[d].arg)
    <3>1. Moves(d, NoCall)
      BY <1>8, <2>3 DEF Examine, Proceeds
    <3> QED
      BY <2>1, <3>1, <1>t, ServingStep
  <2> QED
    BY <2>2, <2>3
<1>9. ASSUME NEW d \in Assistant, RecordCall(d) \/ ActOnPlatform(d)
      PROVE  LackingIsCurrent(c)' /\ SoFarAllowed(c)'
  <2>1. /\ call[d] # NoCall /\ Serving
        /\ {"key", "mode", "account", "permission", "own"} \cap lacking[d] = {}
    BY <1>9, <1>k, <1>p
    DEF RecordCall, ActOnPlatform, CallIs, SoFarAllowed, PastKey, PastAccount, PastDecision, PastExamination
  <2>2. \E place \in {"record", "act"} : Moves(d, Step(call[d], place)) \/ Moves(d, NoCall)
    BY <1>9 DEF RecordCall, ActOnPlatform, Proceeds
  <2> QED
    BY <2>1, <2>2, <1>t, ServingStep
<1>10. ASSUME NEW d \in Assistant, RevokeSession(d) PROVE LackingIsCurrent(c)' /\ SoFarAllowed(c)'
  <2>1. /\ session' = "gone" /\ lacking' = lacking /\ call' = [call EXCEPT ![d] = NoCall]
        /\ UNCHANGED <<keyMode, standing, held, release, shutdownAllowed>>
    BY <1>10 DEF RevokeSession, Proceeds, Moves
  <2>2. CASE call'[c] = NoCall
    BY <2>2, NoCallIsAllowed DEF LackingIsCurrent, NoCall
  <2>3. CASE call'[c] # NoCall
    <3>1. call'[c] = call[c]
      BY <2>1, <2>3, <1>t DEF AccessTypeOK
    <3>2. OwnGuard(call[c].tool, call[c].arg)' => OwnGuard(call'[c].tool, call'[c].arg)
      BY <2>1 DEF OwnGuard
    <3>3. Holding(call[c])' \subseteq Holding(call'[c])
      BY <2>1, <3>2 DEF Holding, Changes, Needs
    <3> QED
      BY <2>1, <2>3, <3>1, <3>3, <1>i, SoFarAllowedElsewhere DEF LackingIsCurrent, NoCall
  <2> QED
    BY <2>2, <2>3
<1>11. ASSUME NEW d \in Assistant, EndProcess(d) PROVE LackingIsCurrent(c)' /\ SoFarAllowed(c)'
  <2>1. call'[c] = NoCall
    BY <1>11 DEF EndProcess
  <2> QED
    BY <2>1, NoCallIsAllowed DEF LackingIsCurrent, NoCall
<1>12. ASSUME call' = call, lacking' = lacking, UNCHANGED tablesRead PROVE LackingIsCurrent(c)' /\ SoFarAllowed(c)'
  BY <1>12, <1>t, <1>i, ServingKeepsCurrent, SoFarAllowedElsewhere DEF Serving
<1>13. ASSUME NEW d \in Assistant, WindowPasses(d) PROVE LackingIsCurrent(c)' /\ SoFarAllowed(c)'
  BY <1>12, <1>13 DEF WindowPasses
<1>14. ASSUME Watch, call' = call PROVE LackingIsCurrent(c)' /\ SoFarAllowed(c)'
  BY <1>14, <1>t, <1>i, WatchKeepsAll
<1>15. ASSUME NEW k \in Key, RevokeKey(k) PROVE LackingIsCurrent(c)' /\ SoFarAllowed(c)'
  BY <1>14, <1>15 DEF RevokeKey, KeysBecome
<1>16. ASSUME NEW k \in Key, NEW m \in Mode, MintKey(k, m) \/ SetKeyMode(k, m)
       PROVE  LackingIsCurrent(c)' /\ SoFarAllowed(c)'
  BY <1>14, <1>16 DEF MintKey, SetKeyMode, KeysBecome
<1>17. ASSUME NEW a \in Account, RevokeKeysForAccount(a) PROVE LackingIsCurrent(c)' /\ SoFarAllowed(c)'
  BY <1>14, <1>17 DEF RevokeKeysForAccount, KeysBecome
<1>18. ASSUME NEW a \in Account, NEW s \in {"active", "inactive", "gone"}, ChangeAccount(a, s)
       PROVE  LackingIsCurrent(c)' /\ SoFarAllowed(c)'
  BY <1>14, <1>18 DEF ChangeAccount
<1>19. ASSUME NEW a \in Account, NEW p \in Permission, ChangeRoles(a, p) PROVE LackingIsCurrent(c)' /\ SoFarAllowed(c)'
  BY <1>14, <1>19 DEF ChangeRoles
<1>20. ASSUME NEW on \in BOOLEAN, AllowShutdown(on) PROVE LackingIsCurrent(c)' /\ SoFarAllowed(c)'
  BY <1>14, <1>20 DEF AllowShutdown
<1>21. ASSUME NEW s \in {"user", "admin", "gone"}, ChangeSession(s) PROVE LackingIsCurrent(c)' /\ SoFarAllowed(c)'
  BY <1>14, <1>21 DEF ChangeSession
<1>22. ASSUME NEW r \in Release, Publish(r) PROVE LackingIsCurrent(c)' /\ SoFarAllowed(c)'
  BY <1>14, <1>22 DEF Publish
<1>23. ASSUME UNCHANGED accessVars PROVE LackingIsCurrent(c)' /\ SoFarAllowed(c)'
  BY <1>12, <1>23 DEF accessVars
<1> QED
  BY <1>1, <1>2, <1>3, <1>4, <1>5, <1>6, <1>7, <1>8, <1>9, <1>10, <1>11, <1>13, <1>15, <1>16, <1>17,
     <1>18, <1>19, <1>20, <1>21, <1>22, <1>23 DEF AccessNext

LEMMA AccessIInvInit == AccessInit => AccessIInv
<1> SUFFICES ASSUME AccessInit PROVE AccessIInv
  OBVIOUS
<1>1. AccessTypeOK
  <2>1. NoCall \in Call
    BY DEF Call
  <2> HIDE DEF Call
  <2>2. call \in [Assistant -> Call]
    BY <2>1 DEF AccessInit
  <2>3. keyMode \in [Key -> Mode \cup {"absent"}] /\ standing \in [Account -> {"active", "inactive", "gone"}]
    BY DEF AccessInit
  <2>4. failures \in [Assistant -> 0..FailureLimit]
    BY AccessConstantsOK DEF AccessInit
  <2> QED
    BY <2>2, <2>3, <2>4 DEF AccessInit, AccessTypeOK
<1>2. \A c \in Assistant : call[c] = NoCall
  BY DEF AccessInit
<1> QED
  BY <1>1, <1>2
  DEF AccessIInv, LackingIsCurrent, SoFarAllowed, NoCall, PastKey, PastAccount, PastDecision, PastExamination

\* A call acts only on what it had: of the key, its mode, an account in use,
\* the permission and what the tool asks by itself, nothing was missing from
\* the moment the request arrived, whoever revoked or changed what meanwhile.
THEOREM CallsWereAllowedAlways == AccessSpec => []CallsWereAllowed
<1>1. AccessIInv => CallsWereAllowed
  <2> SUFFICES ASSUME AccessIInv, NEW c \in Assistant, CallIs(c, "act") PROVE lacking[c] = {}
    BY DEF CallsWereAllowed
  <2>1. lacking[c] \in SUBSET Requirement /\ SoFarAllowed(c)
    BY DEF AccessIInv, AccessTypeOK, Requirement
  <2> QED
    BY <2>1 DEF CallIs, SoFarAllowed, PastKey, PastAccount, PastDecision, PastExamination, Requirement
<1> QED
  BY <1>1, AccessIInvInit, AccessIInvStep, PTL DEF AccessSpec

-----------------------------------------------------------------------------
(***************************************************************************)
(* The listener.  ListenerMatchesSettings needs to know of a start on its  *)
(* way (it is alone, nothing is held, and what it has read is still so)    *)
(* and of a socket that no longer suits the settings (a request is about   *)
(* to close it, or to look at the keys that are left).                     *)
(***************************************************************************)

KeyToAskFor == keyCount > 0 \/ dropped

\* A start on its way is alone, and rests on what is still so.
StartsAreSound ==
    \A c \in Caller :
        /\ Starting(c) => holder = NoServer /\ switch.enabled
        /\ request[c].at \in {"dependents", "port", "exposed"} => KeyToAskFor
        /\ request[c].at = "exposed" => request[c].port = switch.port

StartsAreAlone == \A c, d \in Caller : Starting(c) /\ Starting(d) => c = d

\* What listens can still be closed.
SocketsAreHeld ==
    /\ sockets \subseteq {holder}
    /\ holder \in {NoServer, Dead} => sockets = {}

\* What listens is at the address the settings name, switched on and with a
\* key to ask for, or a request is about to close it or to look at the keys.
SocketsAreDue ==
    sockets # {} =>
        \/ \E c \in Caller : request[c].at = "stop"
        \/ /\ holder = [port |-> switch.port, exposed |-> switch.exposed]
           /\ switch.enabled
           /\ KeyToAskFor \/ \E c \in Caller : request[c].at = "remaining"

ListenerIInv ==
    /\ ListenerTypeOK
    /\ ~strayed => StartsAreSound /\ StartsAreAlone /\ SocketsAreHeld /\ SocketsAreDue

-----------------------------------------------------------------------------
LEMMA MaxKeysType == MaxKeys \in Nat
BY ListenerConstantsOK

LEMMA ListenerTypeOKStep == ListenerTypeOK /\ [ListenerNext]_listenerVars => ListenerTypeOK'
<1> SUFFICES ASSUME ListenerTypeOK, [ListenerNext]_listenerVars PROVE ListenerTypeOK'
  OBVIOUS
<1> USE MaxKeysType DEF ListenerTypeOK, Goes, Disturb, Submit, Stop, Idle
<1>g. ASSUME NEW c \in Caller, NEW place \in Place, Goes(c, place) PROVE request' \in [Caller -> Place]
  BY <1>g
<1>d. ASSUME NEW c \in Caller, Disturb(c) PROVE strayed' \in BOOLEAN
  BY <1>d
<1>p. /\ \A at \in {"idle", "start", "keys", "dependents", "port", "remaining"} : [at |-> at] \in Place
      /\ \A at \in {"stop", "closing"}, b \in BOOLEAN : [at |-> at, thenStart |-> b] \in Place
      /\ \A p \in Port : [at |-> "exposed", port |-> p] \in Place
  BY DEF Place
<1>1. ASSUME NEW c \in Caller, BeginStart(c) PROVE ListenerTypeOK'
  BY <1>1, <1>g, <1>d, <1>p DEF BeginStart
<1>2. ASSUME NEW c \in Caller, CountKeys(c) PROVE ListenerTypeOK'
  BY <1>2, <1>g, <1>p DEF CountKeys
<1>3. ASSUME NEW c \in Caller, CountDependents(c) PROVE ListenerTypeOK'
  BY <1>3, <1>g, <1>p DEF CountDependents
<1>4. ASSUME NEW c \in Caller, ReadPort(c) PROVE ListenerTypeOK'
  BY <1>4, <1>g, <1>p DEF ReadPort
<1>5. ASSUME NEW c \in Caller, CreateServer(c) PROVE ListenerTypeOK'
  <2>1. [port |-> request[c].port, exposed |-> switch.exposed] \in Socket
    <3>1. request[c] \in [at : {"exposed"}, port : Port]
      BY <1>5 DEF CreateServer, Place
    <3> QED
      BY <3>1 DEF Socket
  <2>2. sockets' \subseteq Socket /\ holder' \in sockets' \cup {NoServer, Dead}
    BY <1>5, <2>1 DEF CreateServer
  <2> QED
    BY <1>5, <2>2, <1>g, <1>p DEF CreateServer
<1>6. ASSUME NEW c \in Caller, Close(c) PROVE ListenerTypeOK'
  <2>1. request[c] \in [at : {"stop", "closing"}, thenStart : BOOLEAN]
    BY <1>6 DEF Close, Place
  <2>2. [request[c] EXCEPT !.at = "closing"] \in Place
    BY <2>1 DEF Place
  <2> QED
    BY <1>6, <2>2, <1>g, <1>d DEF Close
<1>7. ASSUME NEW c \in Caller, Closed(c) PROVE ListenerTypeOK'
  BY <1>7, <1>g, <1>p DEF Closed
<1>8. ASSUME NEW c \in Caller, CloseAfterLast(c) PROVE ListenerTypeOK'
  BY <1>8, <1>g, <1>p DEF CloseAfterLast
<1>9. ASSUME NEW c \in Tab, NEW on \in BOOLEAN, SetEnabled(c, on) PROVE ListenerTypeOK'
  BY <1>9, <1>g, <1>d, <1>p DEF SetEnabled, Caller
<1>10. ASSUME NEW c \in Tab, NEW on \in BOOLEAN, NEW https \in BOOLEAN, NEW confirmed \in BOOLEAN,
              SetExposed(c, on, https, confirmed)
       PROVE  ListenerTypeOK'
  BY <1>10, <1>g, <1>d, <1>p DEF SetExposed, Caller
<1>11. ASSUME NEW c \in Tab, NEW p \in Port, SetPort(c, p) PROVE ListenerTypeOK'
  BY <1>11, <1>g, <1>d, <1>p DEF SetPort, Caller
<1>12. ASSUME NEW c \in Tab, Mint(c) PROVE ListenerTypeOK'
  <2>1. Goes(c, [at |-> "start"]) /\ Disturb(c) /\ c \in Caller /\ keyCount' = keyCount + 1 /\ keyCount < MaxKeys
        /\ UNCHANGED <<switch, sockets, holder>>
    BY <1>12 DEF Mint, Caller
  <2>2. dropped' \in BOOLEAN
    BY <1>12 DEF Mint
  <2>3. request' \in [Caller -> Place] /\ strayed' \in BOOLEAN
    BY <2>1, <1>g, <1>d, <1>p
  <2>4. keyCount' \in 0..MaxKeys
    BY <2>1
  <2> QED
    BY <2>1, <2>2, <2>3, <2>4
<1>13. ASSUME NEW c \in Tab, Revoke(c) PROVE ListenerTypeOK'
  BY <1>13, <1>g, <1>d, <1>p DEF Revoke, Caller
<1>14. ASSUME NEW left \in 0..MaxKeys, RemoveIdentity(left) PROVE ListenerTypeOK'
  BY <1>14 DEF RemoveIdentity
<1>15. ASSUME RestartProcess PROVE ListenerTypeOK'
  <2>1. \A c \in Caller : (IF c = Boot THEN [at |-> "start"] ELSE Idle) \in Place
    BY <1>p
  <2>2. request' \in [Caller -> Place]
    BY <1>15, <2>1 DEF RestartProcess
  <2>3. strayed' \in BOOLEAN /\ dropped' \in BOOLEAN
    BY <1>15 DEF RestartProcess
  <2>4. sockets' = {} /\ holder' = NoServer /\ switch' = switch /\ keyCount' = keyCount
    BY <1>15 DEF RestartProcess
  <2>5. /\ switch' \in [enabled : BOOLEAN, exposed : BOOLEAN, port : Port] /\ keyCount' \in 0..MaxKeys
        /\ sockets' \subseteq Socket /\ holder' \in sockets' \cup {NoServer, Dead}
    BY <2>4
  <2> QED
    BY <2>2, <2>3, <2>5 DEF ListenerTypeOK
<1>16. ASSUME UNCHANGED listenerVars PROVE ListenerTypeOK'
  BY <1>16 DEF listenerVars
<1> QED
  BY <1>1, <1>2, <1>3, <1>4, <1>5, <1>6, <1>7, <1>8, <1>9, <1>10, <1>11, <1>12, <1>13, <1>14, <1>15, <1>16
  DEF ListenerNext

-----------------------------------------------------------------------------
LEMMA ListenerIInvStep == ListenerIInv /\ [ListenerNext]_listenerVars => ListenerIInv'
<1> SUFFICES ASSUME ListenerIInv, [ListenerNext]_listenerVars PROVE ListenerIInv'
  OBVIOUS
<1>t. ListenerTypeOK /\ ListenerTypeOK'
  BY ListenerTypeOKStep DEF ListenerIInv
<1> SUFFICES ASSUME ~strayed' PROVE (StartsAreSound /\ StartsAreAlone /\ SocketsAreHeld /\ SocketsAreDue)'
  BY <1>t DEF ListenerIInv
<1>r. CASE RestartProcess
  <2>1. sockets' = {} /\ holder' = NoServer /\ \A c \in Caller : request'[c].at \in {"start", "idle"}
    BY <1>r DEF RestartProcess, Idle
  <2> QED
    BY <2>1 DEF StartsAreSound, StartsAreAlone, SocketsAreHeld, SocketsAreDue, Starting
<1> SUFFICES ASSUME ~RestartProcess PROVE (StartsAreSound /\ StartsAreAlone /\ SocketsAreHeld /\ SocketsAreDue)'
  BY <1>r
<1>s. ~strayed
  BY <1>t DEF ListenerNext, listenerVars, BeginStart, CountKeys, CountDependents, ReadPort, CreateServer, Close, Closed,
     CloseAfterLast, SetEnabled, SetExposed, SetPort, Mint, Revoke, Submit, Disturb, RemoveIdentity, ListenerTypeOK
<1>i. StartsAreSound /\ StartsAreAlone /\ SocketsAreHeld /\ SocketsAreDue
  BY <1>s DEF ListenerIInv
<1>q. request \in [Caller -> Place]
  BY <1>t DEF ListenerTypeOK
<1> HIDE DEF ListenerIInv
<1>1. ASSUME NEW c \in Caller, BeginStart(c)
      PROVE  (StartsAreSound /\ StartsAreAlone /\ SocketsAreHeld /\ SocketsAreDue)'
  <2>1. /\ \A d \in Caller \ {c} : request'[d] = request[d] /\ ~Starting(d)
        /\ request'[c].at \in {"idle", "keys"}
        /\ request'[c].at = "keys" => holder = NoServer /\ switch.enabled
        /\ request[c].at = "start"
        /\ UNCHANGED <<switch, keyCount, sockets, holder, dropped>>
    BY <1>1, <1>q, <1>s DEF BeginStart, Goes, Disturb, Idle
  <2>2. StartsAreSound' /\ StartsAreAlone'
    BY <2>1, <1>i DEF StartsAreSound, StartsAreAlone, Starting, KeyToAskFor
  <2>3. \A d \in Caller : request[d].at \in {"stop", "remaining"} => request'[d].at = request[d].at
    BY <2>1
  <2>4. SocketsAreHeld' /\ SocketsAreDue'
    BY <2>1, <2>3, <1>i DEF SocketsAreHeld, SocketsAreDue, KeyToAskFor
  <2> QED
    BY <2>2, <2>4
<1>2. ASSUME NEW c \in Caller, CountKeys(c) \/ CountDependents(c) \/ ReadPort(c)
      PROVE  (StartsAreSound /\ StartsAreAlone /\ SocketsAreHeld /\ SocketsAreDue)'
  <2>1. /\ \A d \in Caller \ {c} : request'[d] = request[d]
        /\ Starting(c)
        /\ request[c].at = "keys" => keyCount # 0 \/ request'[c].at = "idle"
        /\ request'[c].at \in {"idle", "dependents", "port", "exposed"}
        /\ request'[c].at = "exposed" => request'[c].port = switch.port
        /\ UNCHANGED <<switch, keyCount, sockets, holder, dropped>>
    BY <1>2, <1>q DEF CountKeys, CountDependents, ReadPort, Goes, Idle, Starting
  <2>2. StartsAreSound' /\ StartsAreAlone'
    <3>1. request[c].at # "keys" => KeyToAskFor
      BY <2>1, <1>i DEF StartsAreSound, Starting
    <3>2. keyCount # 0 => KeyToAskFor
      BY <1>t DEF KeyToAskFor, ListenerTypeOK
    <3> QED
      BY <2>1, <3>1, <3>2, <1>i DEF StartsAreSound, StartsAreAlone, Starting, KeyToAskFor
  <2>3. \A d \in Caller : request[d].at \in {"stop", "remaining"} => request'[d].at = request[d].at
    BY <2>1 DEF Starting
  <2>4. SocketsAreHeld' /\ SocketsAreDue'
    BY <2>1, <2>3, <1>i DEF SocketsAreHeld, SocketsAreDue, KeyToAskFor
  <2> QED
    BY <2>2, <2>4
<1>3. ASSUME NEW c \in Caller, CreateServer(c)
      PROVE  (StartsAreSound /\ StartsAreAlone /\ SocketsAreHeld /\ SocketsAreDue)'
  <2>1. /\ \A d \in Caller \ {c} : request'[d] = request[d]
        /\ Starting(c) /\ request'[c].at = "idle"
        /\ request[c].at = "exposed"
        /\ UNCHANGED <<switch, keyCount, dropped>>
    BY <1>3, <1>q DEF CreateServer, Goes, Idle, Starting
  <2>2. holder = NoServer /\ sockets = {} /\ switch.enabled /\ KeyToAskFor /\ request[c].port = switch.port
    BY <2>1, <1>i DEF StartsAreSound, SocketsAreHeld
  <2>3. \A d \in Caller : ~Starting(d)'
    BY <2>1, <1>i DEF StartsAreAlone, Starting
  <2>4. StartsAreSound' /\ StartsAreAlone'
    BY <2>3 DEF StartsAreSound, StartsAreAlone, Starting
  <2> PICK s : s = [port |-> switch.port, exposed |-> switch.exposed]
    OBVIOUS
  <2>5. s \notin {NoServer, Dead}
    BY <1>t, ListenerConstantsOK DEF ListenerTypeOK
  <2>6. \/ sockets' = {s} /\ holder' = s
        \/ sockets' = {} /\ holder' = Dead
    BY <1>3, <2>2 DEF CreateServer
  <2>7. SocketsAreHeld'
    BY <2>5, <2>6 DEF SocketsAreHeld
  <2>8. SocketsAreDue'
    BY <2>1, <2>2, <2>6 DEF SocketsAreDue, KeyToAskFor
  <2> QED
    BY <2>4, <2>7, <2>8
<1>4. ASSUME NEW c \in Caller, Close(c)
      PROVE  (StartsAreSound /\ StartsAreAlone /\ SocketsAreHeld /\ SocketsAreDue)'
  <2>1. /\ \A d \in Caller \ {c} : request'[d] = request[d] /\ ~Starting(d)
        /\ request'[c].at = "closing"
        /\ sockets' = sockets \ {holder} /\ holder' = NoServer
    <3>1. request[c] \in [at : {"stop", "closing"}, thenStart : BOOLEAN]
      BY <1>4, <1>q DEF Close, Place
    <3> QED
      BY <1>4, <1>q, <1>s, <3>1 DEF Close, Goes, Disturb
  <2>2. \A d \in Caller : request'[d].at \notin {"keys", "dependents", "port", "exposed"}
    BY <2>1 DEF Starting
  <2>3. StartsAreSound' /\ StartsAreAlone'
    BY <2>2 DEF StartsAreSound, StartsAreAlone, Starting
  <2>4. sockets' = {}
    BY <2>1, <1>i DEF SocketsAreHeld
  <2> QED
    BY <2>1, <2>3, <2>4 DEF SocketsAreHeld, SocketsAreDue
<1>5. ASSUME NEW c \in Caller, Closed(c)
      PROVE  (StartsAreSound /\ StartsAreAlone /\ SocketsAreHeld /\ SocketsAreDue)'
  <2>1. /\ \A d \in Caller \ {c} : request'[d] = request[d]
        /\ request[c].at = "closing" /\ request'[c].at \in {"start", "idle"}
        /\ UNCHANGED <<switch, keyCount, sockets, holder, dropped>>
    BY <1>5, <1>q DEF Closed, Goes, Idle
  <2>2. StartsAreSound' /\ StartsAreAlone'
    BY <2>1, <1>i DEF StartsAreSound, StartsAreAlone, Starting, KeyToAskFor
  <2>3. \A d \in Caller : request[d].at \in {"stop", "remaining"} => request'[d].at = request[d].at
    BY <2>1
  <2>4. SocketsAreHeld' /\ SocketsAreDue'
    BY <2>1, <2>3, <1>i DEF SocketsAreHeld, SocketsAreDue, KeyToAskFor
  <2> QED
    BY <2>2, <2>4
<1>6. ASSUME NEW c \in Caller, CloseAfterLast(c)
      PROVE  (StartsAreSound /\ StartsAreAlone /\ SocketsAreHeld /\ SocketsAreDue)'
  <2>1. /\ \A d \in Caller \ {c} : request'[d] = request[d]
        /\ request[c].at = "remaining" /\ request'[c].at = IF keyCount = 0 THEN "stop" ELSE "idle"
        /\ UNCHANGED <<switch, keyCount, sockets, holder, dropped>>
    BY <1>6, <1>q DEF CloseAfterLast, Goes, Idle, Stop
  <2>2. StartsAreSound' /\ StartsAreAlone'
    BY <2>1, <1>i DEF StartsAreSound, StartsAreAlone, Starting, KeyToAskFor
  <2>3. \A d \in Caller : request[d].at = "stop" => request'[d].at = "stop"
    BY <2>1
  <2>4. keyCount # 0 => KeyToAskFor
    BY <1>t DEF KeyToAskFor, ListenerTypeOK
  <2>5. SocketsAreHeld'
    BY <2>1, <1>i DEF SocketsAreHeld
  <2>6. SocketsAreDue'
    BY <2>1, <2>3, <2>4, <1>i DEF SocketsAreDue, KeyToAskFor
  <2> QED
    BY <2>2, <2>5, <2>6
<1>7. ASSUME NEW c \in Tab, NEW place,
             \/ place.at = "stop"
             \/ place.at = "start" /\ switch' = [switch EXCEPT !.enabled = TRUE]
             \/ place.at \in {"start", "remaining"} /\ switch' = switch,
             \/ place.at \in {"stop", "remaining"}
             \/ keyCount' \in Nat \ {0}
             \/ UNCHANGED <<keyCount, dropped>>,
             Submit(c, place)
      PROVE  (StartsAreSound /\ StartsAreAlone /\ SocketsAreHeld /\ SocketsAreDue)'
  <2>1. /\ c \in Caller
        /\ \A d \in Caller \ {c} : request'[d] = request[d] /\ ~Starting(d)
        /\ request[c].at = "idle" /\ request'[c] = place /\ place.at \in {"start", "stop", "remaining"}
        /\ UNCHANGED <<sockets, holder>>
    BY <1>7, <1>q, <1>s DEF Submit, Goes, Disturb, Caller
  <2>2. \A d \in Caller : request'[d].at \notin {"keys", "dependents", "port", "exposed"}
    BY <2>1 DEF Starting
  <2>3. StartsAreSound' /\ StartsAreAlone'
    BY <2>2 DEF StartsAreSound, StartsAreAlone, Starting
  <2>4. SocketsAreHeld'
    BY <2>1, <1>i DEF SocketsAreHeld
  <2>5. \A d \in Caller : request[d].at \in {"stop", "remaining"} => request'[d].at = request[d].at
    BY <2>1
  <2>6. CASE place.at = "stop"
    <3>1. SocketsAreDue'
      BY <2>1, <2>6 DEF SocketsAreDue
    <3> QED
      BY <2>3, <2>4, <3>1
  <2>7. CASE place.at \in {"start", "remaining"}
    <3>1. /\ switch'.port = switch.port /\ switch'.exposed = switch.exposed
          /\ switch.enabled => switch'.enabled
      BY <1>7, <2>7, <1>t DEF ListenerTypeOK
    <3>2. place.at = "remaining" \/ KeyToAskFor' \/ (keyCount' = keyCount /\ dropped' = dropped)
      BY <1>7, <2>7 DEF KeyToAskFor
    <3>3. (\E d \in Caller : request[d].at = "stop") => SocketsAreDue'
      BY <2>5 DEF SocketsAreDue
    <3>4. (~\E d \in Caller : request[d].at = "stop") => SocketsAreDue'
      BY <3>1, <3>2, <2>1, <2>5, <2>7, <1>i DEF SocketsAreDue, KeyToAskFor
    <3> QED
      BY <2>3, <2>4, <3>3, <3>4
  <2> QED
    BY <2>1, <2>6, <2>7
<1>8. ASSUME NEW c \in Tab, NEW on \in BOOLEAN, SetEnabled(c, on)
      PROVE  (StartsAreSound /\ StartsAreAlone /\ SocketsAreHeld /\ SocketsAreDue)'
  <2>1. CASE on
    <3>1. Submit(c, [at |-> "start"]) /\ switch' = [switch EXCEPT !.enabled = TRUE]
          /\ keyCount' = keyCount /\ dropped' = dropped
      BY <1>8, <2>1 DEF SetEnabled
    <3> QED
      BY <1>7, <3>1
  <2>2. CASE ~on
    <3>1. Submit(c, [at |-> "stop", thenStart |-> FALSE]) /\ keyCount' = keyCount /\ dropped' = dropped
      BY <1>8, <2>2 DEF SetEnabled, Stop
    <3> QED
      BY <1>7, <3>1
  <2> QED
    BY <2>1, <2>2
<1>9. ASSUME NEW c \in Tab, NEW on \in BOOLEAN, NEW https \in BOOLEAN, NEW confirmed \in BOOLEAN,
             SetExposed(c, on, https, confirmed)
      PROVE  (StartsAreSound /\ StartsAreAlone /\ SocketsAreHeld /\ SocketsAreDue)'
  <2>1. Submit(c, [at |-> "stop", thenStart |-> TRUE]) /\ keyCount' = keyCount /\ dropped' = dropped
    BY <1>9 DEF SetExposed, Stop
  <2> QED
    BY <1>7, <2>1
<1>10. ASSUME NEW c \in Tab, NEW p \in Port, SetPort(c, p)
      PROVE  (StartsAreSound /\ StartsAreAlone /\ SocketsAreHeld /\ SocketsAreDue)'
  <2>1. Submit(c, [at |-> "stop", thenStart |-> TRUE]) /\ keyCount' = keyCount /\ dropped' = dropped
    BY <1>10 DEF SetPort, Stop
  <2> QED
    BY <1>7, <2>1
<1>11. ASSUME NEW c \in Tab, Mint(c)
      PROVE  (StartsAreSound /\ StartsAreAlone /\ SocketsAreHeld /\ SocketsAreDue)'
  <2>1. Submit(c, [at |-> "start"]) /\ keyCount' \in Nat \ {0} /\ switch' = switch
    BY <1>11, <1>t, ListenerConstantsOK DEF Mint, ListenerTypeOK
  <2> QED
    BY <1>7, <2>1
<1>12. ASSUME NEW c \in Tab, Revoke(c)
      PROVE  (StartsAreSound /\ StartsAreAlone /\ SocketsAreHeld /\ SocketsAreDue)'
  <2>1. Submit(c, [at |-> "remaining"]) /\ switch' = switch
    BY <1>12 DEF Revoke
  <2> QED
    BY <1>7, <2>1
<1>13. ASSUME NEW left \in 0..MaxKeys, RemoveIdentity(left)
      PROVE  (StartsAreSound /\ StartsAreAlone /\ SocketsAreHeld /\ SocketsAreDue)'
  <2>0. left = 0 => dropped'
    BY <1>13 DEF RemoveIdentity
  <2>1. left \in Nat /\ keyCount' = left
    BY <1>13, MaxKeysType DEF RemoveIdentity
  <2>3. KeyToAskFor'
    BY <2>0, <2>1 DEF KeyToAskFor
  <2>2. UNCHANGED <<switch, sockets, holder, request>>
    BY <1>13 DEF RemoveIdentity
  <2> QED
    BY <2>2, <2>3, <1>i DEF StartsAreSound, StartsAreAlone, SocketsAreHeld, SocketsAreDue, Starting
<1>14. ASSUME UNCHANGED listenerVars
      PROVE  (StartsAreSound /\ StartsAreAlone /\ SocketsAreHeld /\ SocketsAreDue)'
  BY <1>14, <1>i DEF listenerVars, StartsAreSound, StartsAreAlone, SocketsAreHeld, SocketsAreDue, Starting, KeyToAskFor
<1> QED
  BY <1>1, <1>2, <1>3, <1>4, <1>5, <1>6, <1>8, <1>9, <1>10, <1>11, <1>12, <1>13, <1>14 DEF ListenerNext

\* Once every request has been answered, and unless something changed under a
\* start on its way, one socket at most listens: the one that can be closed, at
\* the address the settings name, switched on and with a key to ask for.
THEOREM ListenerMatchesSettingsAlways == ListenerSpec => []ListenerMatchesSettings
<1>1. ListenerInit => ListenerIInv
  <2> SUFFICES ASSUME ListenerInit PROVE ListenerIInv
    OBVIOUS
  <2>1. \A c \in Caller : request[c] \in Place /\ request[c].at = "idle"
    BY DEF ListenerInit, Idle, Place
  <2>2. request \in [Caller -> Place]
    <3>1. Idle \in Place
      BY DEF Idle, Place
    <3> QED
      BY <3>1 DEF ListenerInit
  <2>3. FirstPort \in Port /\ MaxKeys \in Nat
    BY ListenerConstantsOK
  <2>5. strayed \in BOOLEAN /\ dropped \in BOOLEAN
    BY DEF ListenerInit
  <2>6. sockets = {} /\ holder = NoServer /\ keyCount = 0
    BY DEF ListenerInit
  <2>7. switch \in [enabled : BOOLEAN, exposed : BOOLEAN, port : Port]
    BY <2>3 DEF ListenerInit
  <2>4. ListenerTypeOK
    BY <2>2, <2>3, <2>5, <2>6, <2>7 DEF ListenerTypeOK
  <2> QED
    BY <2>1, <2>4
    DEF ListenerInit, ListenerIInv, StartsAreSound, StartsAreAlone, SocketsAreHeld, SocketsAreDue, Starting
<1>2. ListenerIInv => ListenerMatchesSettings
  BY DEF ListenerIInv, ListenerMatchesSettings, SocketsAreHeld, SocketsAreDue, KeyToAskFor
<1> QED
  BY <1>1, <1>2, ListenerIInvStep, PTL DEF ListenerSpec
=============================================================================
