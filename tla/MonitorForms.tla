---------------------------- MODULE MonitorForms ----------------------------
(***************************************************************************)
(* What administrators fill in for the health monitor, and what becomes of *)
(* it: the form of a check as ui/check-form.tsx shows it, lib/forms.ts     *)
(* reads it and actions.ts stores it; the documents lib/config.ts takes;   *)
(* the channels lib/notify.ts can send to; and the settings.  Texts are    *)
(* kept as far as the code looks into them.  Pure functions.               *)
(***************************************************************************)
EXTENDS Integers, FiniteSets, TLC

Blank == -1                      \* null, or a number box left empty
Within(n, low, high) == low <= n /\ n <= high
BlankOr(n, low, high) == n = Blank \/ Within(n, low, high)

MinInterval == 10
MaxInterval == 604800
IntervalChoices == {30, 60, 300, 900, 1800, 3600, 10800, 21600, 43200, 86400, 172800, 259200, 604800}

\* KIND_CHOICES: what the form of each kind asks for
Kinds == {"http", "ping", "tcp", "dns", "tls", "speed"}
AsksPort(k) == k \in {"tcp", "tls"}
DefaultInterval(k) == IF k = "speed" THEN 21600 ELSE 60

\* The keys of the config column that the form of a kind covers
KeysOf(k) ==
    CASE k = "http"  -> {"expectStatus", "insecureTls"}
      [] k = "tls"   -> {"insecureTls"}
      [] k = "speed" -> {"skipUpload", "minMbps", "payloadMb"}
      [] OTHER       -> {}

ConfigKeys == KeysOf("http") \cup KeysOf("speed")

\* A box left alone, or a tick not set
NothingIn == [expectStatus |-> "", insecureTls |-> FALSE, skipUpload |-> FALSE, minMbps |-> Blank, payloadMb |-> Blank]
Given(f, key) == f[key] # NothingIn[key] /\ ~(key = "minMbps" /\ f[key] = 0)

-----------------------------------------------------------------------------
(* parseMonitorForm.  A target is "", a web address, one that does not     *)
(* parse, one of another scheme, or a bare host.                           *)

TargetFits(k, target) ==
    CASE k = "speed" -> target \in {"", "url", "badurl"}
      [] k = "http"  -> target = "url"
      [] OTHER       -> target = "host"

NumbersFit(f) ==
    /\ BlankOr(f.port, 1, 65535)
    /\ BlankOr(f.intervalSec, MinInterval, MaxInterval)
    /\ BlankOr(f.timeoutMs, 500, 120000)
    /\ BlankOr(f.retries, 1, 10)
    /\ BlankOr(f.degradedMs, 1, 120000)
    /\ BlankOr(f.minMbps, 0, 100000)
    /\ BlankOr(f.payloadMb, 1, 100)

Accepts(f) ==
    /\ f.name # ""
    /\ f.kind \in Kinds
    /\ TargetFits(f.kind, f.target)
    /\ f.kind = "tcp" => f.port # Blank
    /\ NumbersFit(f)

\* monitorConfigFrom
ConfigFrom(f) == [key \in {x \in KeysOf(f.kind) : Given(f, x)} |-> f[key]]

\* { ...under, ...over }
Spread(under, over) ==
    [key \in DOMAIN under \cup DOMAIN over |-> IF key \in DOMAIN over THEN over[key] ELSE under[key]]

NoMonitor == [id |-> ""]
Without(config, keys) == [key \in DOMAIN config \ keys |-> config[key]]

\* saveMonitorAction: keys the form does not cover are kept, then the form is applied.
MergedConfig(previous, f) ==
    Without(Spread(previous, ConfigFrom(f)),
            (IF f.insecureTls THEN {} ELSE {"insecureTls"}) \cup
            (IF f.kind = "http" /\ f.expectStatus = "" THEN {"expectStatus"} ELSE {}))

Saved(row, id, f) ==
    [id |-> id, name |-> f.name, kind |-> f.kind, target |-> f.target,
     port |-> IF f.kind = "tls" /\ f.port = Blank THEN 443 ELSE f.port,
     intervalSec |-> f.intervalSec, timeoutMs |-> f.timeoutMs, retries |-> f.retries, degradedMs |-> f.degradedMs,
     parentId |-> IF f.parentId = id THEN "" ELSE f.parentId,
     enabled |-> f.enabled, routes |-> f.routes,
     config |-> MergedConfig(IF row = NoMonitor THEN <<>> ELSE row.config, f)]

-----------------------------------------------------------------------------
(* CheckForm: what is shown of a monitor, and sent back.  Boxes that the   *)
(* kind does not have are not there, and send nothing.                     *)

HideOthers(f) ==
    [x \in DOMAIN f |-> IF x \in ConfigKeys \ KeysOf(f.kind) THEN NothingIn[x]
                        ELSE IF x = "port" /\ ~AsksPort(f.kind) THEN Blank ELSE f[x]]

EmptyForm ==
    Spread(NothingIn,
        [name |-> "", kind |-> "http", target |-> "", port |-> Blank, intervalSec |-> DefaultInterval("http"),
         timeoutMs |-> Blank, retries |-> Blank, degradedMs |-> Blank, parentId |-> "", enabled |-> TRUE, routes |-> {}])

\* An interval that the list does not offer shows as what suits the kind.
ShownInterval(row, k) ==
    IF row # NoMonitor /\ row.intervalSec \in IntervalChoices THEN row.intervalSec ELSE DefaultInterval(k)

StoredBoxes(row) ==
    [key \in ConfigKeys |-> IF row # NoMonitor /\ key \in DOMAIN row.config THEN row.config[key] ELSE NothingIn[key]]

\* others are the monitors it may depend on: one that is gone shows as Nothing.
Shown(row, others, channels) ==
    HideOthers(Spread(StoredBoxes(row),
        [name |-> row.name, kind |-> row.kind, target |-> row.target, port |-> row.port,
         intervalSec |-> ShownInterval(row, row.kind),
         timeoutMs |-> row.timeoutMs, retries |-> row.retries, degradedMs |-> row.degradedMs,
         parentId |-> IF row.parentId \in others THEN row.parentId ELSE "",
         enabled |-> row.enabled, routes |-> row.routes \cap channels]))

\* Another kind is chosen: boxes that appear, and the gap, start from what is stored.
WithKind(row, f, k) ==
    HideOthers([x \in DOMAIN f |->
        CASE x = "kind" -> k
          [] x = "intervalSec" -> ShownInterval(row, k)
          [] x \in KeysOf(k) \ KeysOf(f.kind) -> StoredBoxes(row)[x]
          [] x = "port" /\ AsksPort(k) /\ ~AsksPort(f.kind) -> IF row = NoMonitor THEN Blank ELSE row.port
          [] OTHER -> f[x]])

-----------------------------------------------------------------------------
(* monitorSchema: what an import accepts, and what it keeps of the config. *)

ImportKeys == {"expectStatus", "insecureTls", "method"}

ImportNumbersFit(d) ==
    /\ BlankOr(d.port, 1, 65535)
    /\ BlankOr(d.intervalSec, MinInterval, MaxInterval)
    /\ BlankOr(d.timeoutMs, 500, 120000)
    /\ BlankOr(d.retries, 0, 10)
    /\ BlankOr(d.degradedMs, 1, 120000)

ImportAccepts(d) ==
    /\ d.name # "" /\ d.target # ""
    /\ d.kind \in Kinds
    /\ ImportNumbersFit(d)

Imported(d) == [d EXCEPT !.config = Without(@, DOMAIN @ \ ImportKeys)]

-----------------------------------------------------------------------------
(* Channels: parseChannelForm, and what sendAlert asks of what it finds.   *)
(* A url is "", "url" or "host"; recipients none, "addresses" or "words".  *)

ChannelKinds == {"email", "webhook", "discord", "slack", "telegram", "ntfy", "gotify", "homeassistant"}

ChannelAccepts(f) ==
    /\ f.kind \in {"webhook", "discord", "slack", "gotify", "homeassistant"} => f.url # ""
    /\ f.url # "host"
    /\ f.kind = "telegram" => f.secret # "" /\ f.topic # ""
    /\ f.kind = "ntfy" => f.topic # ""
    /\ f.kind = "gotify" => f.secret # ""
    /\ f.kind = "email" => f.recipients # "words"

\* The config column; boxes that the kind does not use are dropped.
ChannelConfig(f) ==
    LET all == CASE f.kind = "email"    -> [to |-> f.recipients]
                 [] f.kind = "telegram" -> [botToken |-> f.secret, chatId |-> f.topic]
                 [] f.kind = "ntfy"     -> [topic |-> f.topic, url |-> f.url, token |-> f.secret]
                 [] f.kind = "gotify"   -> [url |-> f.url, token |-> f.secret]
                 [] OTHER               -> [url |-> f.url, secret |-> f.secret]
    IN  [key \in {x \in DOMAIN all : all[x] # ""} |-> all[key]]

Text(config, key) == IF key \in DOMAIN config THEN config[key] ELSE ""

\* post: only http addresses
Sends(kind, config, fallback) ==
    CASE kind = "email"    -> Text(config, "to") # "" \/ fallback # {}
      [] kind = "telegram" -> Text(config, "botToken") # "" /\ Text(config, "chatId") # ""
      [] kind = "ntfy"     -> Text(config, "topic") # "" /\ Text(config, "url") \in {"", "url"}
      [] kind = "gotify"   -> Text(config, "token") # "" /\ Text(config, "url") = "url"
      [] OTHER             -> Text(config, "url") = "url"

-----------------------------------------------------------------------------
(* SETTING_FIELDS and readSettings: default, least and greatest.           *)

NumberSettings ==
    [defaultIntervalSec   |-> <<60, MinInterval, MaxInterval>>,
     defaultTimeoutMs     |-> <<10000, 500, 120000>>,
     defaultRetries       |-> <<2, 0, 10>>,
     degradedMs           |-> <<2000, 1, 120000>>,
     maxConcurrent        |-> <<4, 1, 32>>,
     rollupAfterDays      |-> <<2, 1, 365>>,
     retentionDays        |-> <<30, 1, 3650>>,
     quietAfterRestartMin |-> <<3, 0, 120>>,
     renotifyMin          |-> <<30, 0, 10080>>,
     maxAlertsPerHour     |-> <<12, 1, 500>>]

NotANumber == -1000000           \* a value that is not there, or not a number

Clamp2(n, least, most) == IF n < least THEN least ELSE IF n > most THEN most ELSE n
ReadSetting(key, stored) ==
    LET s == NumberSettings[key] IN IF stored = NotANumber THEN s[1] ELSE Clamp2(stored, s[2], s[3])

\* saveSettingsAction: a box that is empty or not a number leaves what is stored.
SaveSetting(stored, typed) == IF typed = NotANumber THEN stored ELSE typed

\* intervalFor: what the monitor chose, or the default
IntervalOf(row, stored) ==
    IF row.intervalSec # Blank THEN row.intervalSec ELSE ReadSetting("defaultIntervalSec", stored)

-----------------------------------------------------------------------------
\* What the page can send: hidden boxes send nothing, and the gap is one of the list.
FromPage(f) == HideOthers(f) = f /\ f.intervalSec \in IntervalChoices

(* A monitor saved from the form, shown again and saved as it stands is    *)
(* the same row: the form neither loses nor adds anything by itself, as    *)
(* long as the monitor it depends on and its channels are there.           *)
UnchangedIsUnchanged(f, others, channels) ==
    (FromPage(f) /\ Accepts(f)) =>
        LET row == Saved(NoMonitor, "web", f)
            shown == Shown(row, others, channels)
        IN  Accepts(shown) /\ Saved(row, "web", shown) = row

(* What is saved over an earlier form of the same kind is what the form    *)
(* shows afterwards, for every kind but the speed test.                    *)
LastFormWins(earlier, f, others, channels) ==
    (/\ FromPage(earlier) /\ FromPage(f) /\ Accepts(earlier) /\ Accepts(f)
     /\ earlier.kind = f.kind /\ f.kind # "speed") =>
        Shown(Saved(Saved(NoMonitor, "web", earlier), "web", f), others, channels) =
            [f EXCEPT !.port = IF f.kind = "tls" /\ @ = Blank THEN 443 ELSE @]

(* "Raising one alone means a value the form accepts is refused on import" *)
(* (types.ts:51): a monitor that the form accepts is one that an import    *)
(* takes, except that an import wants an address for the speed test too.   *)
FormFitsImport(f) ==
    (Accepts(f) /\ f.target # "") => ImportAccepts(Saved(NoMonitor, "web", f))

(* A channel that the form accepts has what sending to it takes, but for   *)
(* mail without recipients when the module has none either.                *)
ChannelsAreUsable(f, fallback) ==
    (ChannelAccepts(f) /\ (f.kind = "email" => f.recipients # "" \/ fallback # {})) =>
        Sends(f.kind, ChannelConfig(f), fallback)

(* "a nonsense interval would otherwise turn the scheduler into a busy     *)
(* loop" (settings.ts:8): whatever is stored, and whatever form was        *)
(* accepted, no monitor is checked more often than the least interval.     *)
NoBusyLoop(f, stored) ==
    /\ \A key \in DOMAIN NumberSettings :
          LET s == NumberSettings[key] IN Within(s[1], s[2], s[3]) /\ Within(ReadSetting(key, stored), s[2], s[3])
    /\ Accepts(f) => Within(IntervalOf(Saved(NoMonitor, "web", f), stored), MinInterval, MaxInterval)
=============================================================================
