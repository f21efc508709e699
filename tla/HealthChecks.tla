---------------------------- MODULE HealthChecks ----------------------------
(***************************************************************************)
(* One run of a check (addons/health-monitor/lib/checks.ts): requests,     *)
(* redirects and transfers, each with a timer of its own, and the verdict  *)
(* each of them comes to.  Time is counted from the start of the check.    *)
(***************************************************************************)
EXTENDS Integers, FiniteSetsExt

CONSTANTS
    Timeout,        \* timeoutMs
    SpeedTimeout,   \* the least a transfer is given
    LegFloor,       \* the least a redirected request is given
    MaxRedirects,
    Samples,        \* JITTER_SAMPLES
    WarnDays,       \* the days before a certificate ends that count as a warning
    Status,         \* HTTP answers
    Expectation,    \* what monitors expect: see Matches
    DaysLeft,       \* of certificates
    LastMoment      \* bound on the time modelled

ASSUME CheckConstantsOK ==
    /\ {Timeout, SpeedTimeout, LegFloor, MaxRedirects, Samples, LastMoment} \subseteq Nat \ {0}
    /\ Status \subseteq 100..599
    /\ Expectation \subseteq [form : {"unset", "exact", "class", "range", "nonsense"}, low : Nat, high : Nat]
    /\ DaysLeft \subseteq Int

VARIABLES
    check,          \* the step the check is at
    moment,         \* time since it began
    verdict         \* its outcome

checkVars == <<check, moment, verdict>>

Kind == {"http", "tcp", "ping", "dns", "tls", "speed"}
NoCheck == [at |-> "none"]
Over == [at |-> "over"]
State == {"up", "degraded", "down"}

ChecksTypeOK ==
    /\ check.at \in {"none", "lookup", "request", "answer", "handshake", "sample", "download", "upload", "over"}
    /\ check.at \notin {"none", "over"} => check.kind \in Kind /\ {check.since, check.allowed} \subseteq Nat
    /\ moment \in 0..LastMoment
    /\ verdict \in State \cup {"none"}
    /\ (verdict # "none") = (check = Over)

ChecksInit ==
    /\ check = NoCheck
    /\ moment = 0
    /\ verdict = "none"

Longer(a, b) == Max({a, b})

\* statusMatches: what it cannot read counts as not set.
Matches(status, e) ==
    CASE e.form = "exact" -> status = e.low
      [] e.form = "class" -> status \div 100 = e.low
      [] e.form = "range" -> status \in e.low..e.high
      [] OTHER            -> status \in 200..399

Leg(at, allowed) == [check EXCEPT !.at = at, !.since = moment, !.allowed = allowed]
Settles(v) == check' = Over /\ verdict' = v
GoesOn(leg) == check' = leg /\ verdict' = verdict

-----------------------------------------------------------------------------
\* runCheck: no permission, an address or port that is not one, no ping.
RefuseCheck ==
    /\ check = NoCheck
    /\ Settles("down")
    /\ UNCHANGED moment

FirstLeg(kind, expects) ==
    LET at == CASE kind = "http" -> "request" [] kind = "tls" -> "handshake" [] kind = "tcp" -> "lookup"
                [] kind = "speed" -> "sample" [] OTHER -> "answer"
    IN  [at |-> at, kind |-> kind, expects |-> expects, since |-> 0, hops |-> 0, samples |-> 0, found |-> "none",
         allowed |-> IF kind = "speed" THEN Longer(Timeout, SpeedTimeout) ELSE Timeout]

StartCheck(kind, expects) ==
    /\ check = NoCheck
    /\ GoesOn(FirstLeg(kind, expects))
    /\ UNCHANGED moment

\* Time passes up to the next timer, which nothing outlives.
MomentPasses ==
    /\ check.at \notin {"none", "over"}
    /\ moment < check.since + check.allowed
    /\ moment < LastMoment
    /\ moment' = moment + 1
    /\ UNCHANGED <<check, verdict>>

-----------------------------------------------------------------------------
(* runHttp and httpOnce. *)

\* Mutant: every redirect gets the whole time again.
WholeTimeout == Timeout

Remaining == Longer(LegFloor, Timeout - moment)

Explicit(e) == e.form # "unset"

\* An answer with somewhere to go is followed, unless it is what was wanted.
HttpAnswers(status, location) ==
    /\ check.at = "request"
    /\ IF /\ status \in 300..399
          /\ location # "none"
          /\ ~(Explicit(check.expects) /\ Matches(status, check.expects))
       THEN IF check.hops = MaxRedirects \/ location = "elsewhere" THEN Settles("down")
            ELSE GoesOn([Leg("request", Remaining) EXCEPT !.hops = @ + 1])
       ELSE Settles(IF Matches(status, check.expects) THEN "up" ELSE "down")
    /\ UNCHANGED moment

-----------------------------------------------------------------------------
(* runTcp, runDnsLookup, runDnsQuery, runPing: connected, resolved to what  *)
(* was expected, or replied; or not.                                        *)

AnswerComes(good) ==
    /\ check.at = "answer"
    /\ Settles(IF good THEN "up" ELSE "down")
    /\ UNCHANGED moment

\* An error of the connection, in any check that fails by it.
ConnectionFails ==
    /\ check.at \in {"lookup", "request", "handshake"}
    /\ Settles("down")
    /\ UNCHANGED moment

\* The timer of runTcp's socket counts silence: it starts again when the name
\* has been looked up, which an address needs no time for.
NameFound ==
    /\ check.at = "lookup"
    /\ GoesOn(Leg("answer", Timeout))
    /\ UNCHANGED moment

TimeIsUp == check.at \notin {"none", "over"} /\ moment = check.since + check.allowed

DeadlinePasses ==
    /\ TimeIsUp
    /\ check.at \in {"lookup", "request", "answer", "handshake"}
    /\ Settles("down")
    /\ UNCHANGED moment

-----------------------------------------------------------------------------
(* runTls: the socket's timer starts again whenever something arrives. *)

BytesArrive ==
    /\ check.at = "handshake"
    /\ GoesOn(Leg("handshake", Timeout))
    /\ UNCHANGED moment

CertificateVerdict(days, trusted, selfSigned, insecure) ==
    CASE days < 0                                  -> "down"
      [] ~trusted /\ ~selfSigned /\ ~insecure      -> "down"
      [] days <= WarnDays                          -> "degraded"
      [] OTHER                                     -> "up"

CertificateRead(days) ==
    /\ check.at = "handshake"
    /\ \E trusted, selfSigned, insecure \in BOOLEAN :
          Settles(CertificateVerdict(days, trusted, selfSigned, insecure))
    /\ UNCHANGED moment

NoCertificate ==
    /\ check.at = "handshake"
    /\ Settles("down")
    /\ UNCHANGED moment

-----------------------------------------------------------------------------
(* runSpeed: samples one after the other, then down, then up. *)

\* A lost sample is no failure: it too makes way for the next.
SampleEnds ==
    /\ check.at = "sample"
    /\ GoesOn([Leg(IF check.samples + 1 = Samples THEN "download" ELSE "sample", check.allowed)
                  EXCEPT !.samples = @ + 1])
    /\ UNCHANGED moment

DownloadFails ==
    /\ check.at = "download"
    /\ Settles("down")
    /\ UNCHANGED moment

\* Only a line below its floor is degraded; the upload is not judged.
Speed == {"up", "degraded"}

DownloadEnds(v, skipUpload) ==
    /\ check.at = "download" /\ moment < check.since + check.allowed
    /\ v \in Speed
    /\ IF skipUpload THEN Settles(v) ELSE GoesOn([Leg("upload", check.allowed) EXCEPT !.found = v])
    /\ UNCHANGED moment

UploadEnds ==
    /\ check.at = "upload"
    /\ Settles(check.found)
    /\ UNCHANGED moment

ChecksNext ==
    \/ RefuseCheck \/ MomentPasses \/ NameFound \/ ConnectionFails \/ DeadlinePasses
    \/ \E kind \in Kind, e \in Expectation : StartCheck(kind, e)
    \/ \E status \in Status, location \in {"none", "web", "elsewhere"} : HttpAnswers(status, location)
    \/ \E good \in BOOLEAN : AnswerComes(good)
    \/ BytesArrive \/ NoCertificate \/ SampleEnds \/ DownloadFails
    \/ \E days \in DaysLeft : CertificateRead(days)
    \/ UploadEnds
    \/ \E v \in Speed, skip \in BOOLEAN : DownloadEnds(v, skip)

ChecksSpec == ChecksInit /\ [][ChecksNext]_checkVars

-----------------------------------------------------------------------------
(***************************************************************************)
(* A check is over in bounded time, or it would hold up the pass that waits*)
(* for it: redirects share one timeout, with the floor of each hop on top; *)
(* a speed test takes no longer than its legs together; a connection by    *)
(* name may take its timeout twice, once for the name.  A TLS handshake    *)
(* has no such bound, because its timer counts silence only.               *)
(***************************************************************************)
Allowance(kind) ==
    CASE kind = "http"  -> Timeout + MaxRedirects * LegFloor
      [] kind = "tcp"   -> 2 * Timeout
      [] kind = "speed" -> (Samples + 2) * Longer(Timeout, SpeedTimeout)
      [] OTHER          -> Timeout

ChecksEndInTime ==
    check.at \notin {"none", "over"} /\ check.kind # "tls" => moment <= Allowance(check.kind)
=============================================================================
