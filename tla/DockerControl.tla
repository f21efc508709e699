---------------------------- MODULE DockerControl ---------------------------
(***************************************************************************)
(* Starting, stopping and pausing containers: the action of the page       *)
(* (addons/docker-manager/actions.ts), the helper's act (helpers/docker:   *)
(* api.ts, lib/engine.ts) and the engine behind its socket, which goes on  *)
(* working when nobody waits for it any longer, and may stop at any time.  *)
(***************************************************************************)
EXTENDS Naturals

CONSTANTS
    Container,
    ActionPage     \* pages from which an action can be under way

ASSUME PagesAreSomebody == "nobody" \notin ActionPage

VARIABLES
    container,     \* the engine: the state of each container
    engineUp,      \* whether the engine listens
    work,          \* what the engine is doing, and for which page
    asking,      \* where the request of each page is
    lastNotice,    \* the module's store: what was last said
    \* history
    seen           \* states the container of each request was in since it was made

dockerVars == <<container, engineUp, work, asking, lastNotice, seen>>

Verbs == {"start", "stop", "restart", "pause", "unpause"}
Target(verb) == CASE verb = "stop" -> "exited" [] verb = "pause" -> "paused" [] OTHER -> "running"
ContainerState == {"running", "paused", "exited"}
EngineAnswer == {204, 304, 409, 500}

NoRequest == [at |-> "none"]
Job == [by : ActionPage \cup {"nobody"}, of : Container, verb : Verbs]

DockerTypeOK ==
    /\ container \in [Container -> ContainerState]
    /\ engineUp \in BOOLEAN
    /\ work \subseteq Job
    /\ asking \in [ActionPage -> {NoRequest}
          \cup [at : {"sent", "taken", "hung"}, of : Container, verb : Verbs]
          \cup [at : {"answered"}, of : Container, verb : Verbs, status : EngineAnswer]]
    /\ lastNotice \in {"none", "ok", "bad"}
    /\ seen \in [ActionPage -> SUBSET ContainerState]

DockerInit ==
    /\ container \in [Container -> ContainerState]
    /\ engineUp \in BOOLEAN
    /\ work = {}
    /\ asking = [p \in ActionPage |-> NoRequest]
    /\ lastNotice = "none"
    /\ seen = [p \in ActionPage |-> {}]

AskingTurns(p, r) == asking' = [asking EXCEPT ![p] = r]
RequestsOn(c) == {p \in ActionPage : asking[p] # NoRequest /\ asking[p].of = c}

ContainerBecomes(c, state) ==
    /\ container' = [container EXCEPT ![c] = state]
    /\ seen' = [p \in ActionPage |-> IF p \in RequestsOn(c) THEN seen[p] \cup {state} ELSE seen[p]]

-----------------------------------------------------------------------------
(* The page and the helper. *)

\* containerAction, act and call: the verb is one of the five.
ContainerAction(p, c, verb) ==
    /\ asking[p] = NoRequest
    /\ AskingTurns(p, [at |-> "sent", of |-> c, verb |-> verb])
    /\ seen' = [seen EXCEPT ![p] = IF verb = "restart" THEN {} ELSE {container[c]}]
    /\ UNCHANGED <<container, engineUp, work, lastNotice>>

\* The one notice of the module takes the place of whatever was said before.
Says(p, tone) ==
    /\ lastNotice' = tone
    /\ AskingTurns(p, NoRequest)
    /\ UNCHANGED <<container, engineUp, seen>>

\* Nobody listens, or JonDash may not talk to the engine.
CannotReach(p) ==
    /\ asking[p].at = "sent"
    /\ Says(p, "bad")
    /\ UNCHANGED work

\* The timer runs out: the engine goes on, and "Could not ..." is said.
StopWaiting(p) ==
    /\ asking[p].at \in {"sent", "taken"}
    /\ Says(p, "bad")
    /\ work' = {[j EXCEPT !.by = IF @ = p THEN "nobody" ELSE @] : j \in work}

\* Mutant: only an error of the engine itself is a failure.
SuccessUnlessBroken(status) == status < 500

Success(status) == status \in {204, 304}

AnswerArrives(p) ==
    /\ asking[p].at = "answered"
    /\ Says(p, IF Success(asking[p].status) THEN "ok" ELSE "bad")
    /\ UNCHANGED work

-----------------------------------------------------------------------------
(* The engine, as its answers are understood. *)

Answers(p, status) ==
    AskingTurns(p, [at |-> "answered", of |-> asking[p].of, verb |-> asking[p].verb, status |-> status])

\* Already so, out of the question, or something to do.
EngineTakes(p) ==
    LET r == asking[p]
    IN  /\ engineUp
        /\ r.at = "sent"
        /\ \/ /\ r.verb # "restart" /\ container[r.of] = Target(r.verb)
              /\ Answers(p, 304)
              /\ work' = work
           \/ /\ Answers(p, 409)
              /\ work' = work
           \/ /\ AskingTurns(p, [r EXCEPT !.at = "taken"])
              /\ work' = work \cup {[by |-> p, of |-> r.of, verb |-> r.verb]}
        /\ UNCHANGED <<container, engineUp, lastNotice, seen>>

EngineFinishes(job, well) ==
    /\ job \in work
    /\ work' = work \ {job}
    /\ IF well THEN ContainerBecomes(job.of, Target(job.verb)) ELSE UNCHANGED <<container, seen>>
    /\ IF job.by = "nobody" THEN UNCHANGED asking
       ELSE Answers(job.by, IF well THEN 204 ELSE 500)
    /\ UNCHANGED <<engineUp, lastNotice>>

\* Its containers stop with it.  A request without an answer fails; one whose
\* answer was on its way is never settled, because nobody listens for that.
StopEngine ==
    /\ engineUp
    /\ engineUp' = FALSE
    /\ container' = [c \in Container |-> "exited"]
    /\ seen' = [p \in ActionPage |-> IF asking[p] = NoRequest THEN seen[p] ELSE seen[p] \cup {"exited"}]
    /\ work' = {}
    /\ asking' = [p \in ActionPage |->
          CASE asking[p].at = "taken"    -> NoRequest
            [] asking[p].at = "answered" -> [at |-> "hung", of |-> asking[p].of, verb |-> asking[p].verb]
            [] OTHER -> asking[p]]
    /\ lastNotice' = IF \E p \in ActionPage : asking[p].at = "taken" THEN "bad" ELSE lastNotice

StartEngine ==
    /\ ~engineUp
    /\ engineUp' = TRUE
    /\ UNCHANGED <<container, work, asking, lastNotice, seen>>

\* Somebody else, or the container itself.
ElsewhereChanges(c, state) ==
    /\ engineUp
    /\ ContainerBecomes(c, state)
    /\ UNCHANGED <<engineUp, work, asking, lastNotice>>

\* The server stops, and with it the requests: the engine works on.
ForgetRequests ==
    /\ asking' = [p \in ActionPage |-> NoRequest]
    /\ work' = {[j EXCEPT !.by = "nobody"] : j \in work}
    /\ UNCHANGED <<container, engineUp, lastNotice, seen>>

DockerNext ==
    \/ \E p \in ActionPage :
          \/ \E c \in Container, verb \in Verbs : ContainerAction(p, c, verb)
          \/ CannotReach(p) \/ StopWaiting(p) \/ AnswerArrives(p) \/ EngineTakes(p)
    \/ \E j \in work, well \in BOOLEAN : EngineFinishes(j, well)
    \/ \E c \in Container, state \in ContainerState : ElsewhereChanges(c, state)
    \/ StopEngine \/ StartEngine \/ ForgetRequests

DockerSpec == DockerInit /\ [][DockerNext]_dockerVars

-----------------------------------------------------------------------------
(***************************************************************************)
(* "name -- verb done." is said only when it was: since the button was     *)
(* pressed the container was in the state the verb asks for, or was        *)
(* restarted, whatever other pages, an earlier request that was given up   *)
(* and is still being worked on, or the engine's own end did to it.        *)
(***************************************************************************)
DoneIsDone ==
    \A p \in ActionPage :
        asking[p].at = "answered" /\ Success(asking[p].status) => Target(asking[p].verb) \in seen[p]
=============================================================================
