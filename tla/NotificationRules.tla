------------------------- MODULE NotificationRules -------------------------
(***************************************************************************)
(* The rules of src/notifications that keep no state: which channels a     *)
(* notice goes to, when quiet hours hold it back, and what the answer of a  *)
(* provider means.  Minutes are those of a day of DayLength minutes.       *)
(***************************************************************************)
EXTENDS Integers, FiniteSets

Channels   == {"dashboard", "pwa", "email", "telegram", "webhook"}
Internal   == {"dashboard", "pwa"}
Severities == {"info", "warning", "critical"}

Rank(severity) ==
    CASE severity = "info" -> 0 [] severity = "warning" -> 1 [] OTHER -> 2

(* Families of notification types, by the preference that switches each    *)
(* off; "other" types (tests, reports, reminders) have no switch.          *)
Families == {"approval_required", "task_completed", "task_failed", "schedule",
             "recovery", "update", "dr", "other"}

(* Preferences: the channels switched on, the threshold, the families      *)
(* switched off.                                                           *)
Preference == [enabled : SUBSET Channels, threshold : Severities,
               muted : SUBSET (Families \ {"other"})]

(* recipientChannels.                                                      *)
RecipientChannels(severity, family, prefs) ==
    IF Rank(severity) < Rank(prefs.threshold) \/ family \in prefs.muted
    THEN {"dashboard"}
    ELSE prefs.enabled

(* checkQuietHours: a window that wraps around midnight, and an empty one  *)
(* when it starts where it ends.                                           *)
InQuietHours(start, end, minute) ==
    IF start <= end THEN minute >= start /\ minute < end
                    ELSE minute >= start \/ minute < end

(* shouldSuppress, and emit's exception for the dashboard.                 *)
Suppressed(severity, quiet, channel) ==
    quiet /\ severity # "critical" /\ channel # "dashboard"

-----------------------------------------------------------------------------
(* What can come back from a provider.  "aborted" is the adapter's own     *)
(* timer: the error says "aborted", which no class of classifyError knows. *)
Answers == {"2xx", "3xx", "400", "401", "403", "404", "429", "5xx", "aborted",
            "timeout", "network", "auth", "not_configured", "no_mailer",
            "bad_recipient", "not_allowed"}

(* classifyError, on the errors that a send can throw.                     *)
Classify(answer) ==
    CASE answer = "timeout"       -> "provider_timeout"
      [] answer = "network"       -> "temporary_network"
      [] answer = "5xx"           -> "provider_5xx"
      [] answer = "429"           -> "rate_limited"
      [] answer = "auth"          -> "invalid_credentials"
      [] answer = "403"           -> "forbidden"
      [] answer = "bad_recipient" -> "invalid_recipient"
      [] answer = "not_allowed"   -> "forbidden"
      [] OTHER                    -> "unknown"

(* The error category of each adapter's send; "none" is success.           *)
EmailCategory(answer) ==
    CASE answer = "2xx"            -> "none"
      [] answer = "no_mailer"      -> "missing_dependency"
      [] answer = "not_configured" -> "not_configured"
      [] OTHER                     -> Classify(answer)

TelegramCategory(answer) ==
    CASE answer = "2xx"            -> "none"
      [] answer \in {"401", "403"} -> "invalid_credentials"
      [] answer = "400"            -> "payload_rejected"
      [] answer = "429"            -> "rate_limited"
      [] answer = "5xx"            -> "provider_5xx"
      [] answer = "not_configured" -> "not_configured"
      [] OTHER                     -> Classify(answer)

WebhookCategory(answer) ==
    CASE answer = "2xx"                   -> "none"
      [] answer \in {"3xx", "401", "403"} -> "forbidden"
      [] answer = "5xx"                   -> "provider_5xx"
      [] answer = "429"                   -> "rate_limited"
      [] answer \in {"400", "404"}        -> "payload_rejected"
      [] answer = "not_configured"        -> "not_configured"
      [] OTHER                            -> Classify(answer)

Category(channel, answer) ==
    CASE channel = "email"    -> EmailCategory(answer)
      [] channel = "telegram" -> TelegramCategory(answer)
      [] channel = "webhook"  -> WebhookCategory(answer)
      [] OTHER                -> "none"

Retryable == {"temporary_network", "provider_timeout", "provider_5xx", "rate_limited"}

(* How a send can end: acknowledged, to be tried again, or given up.       *)
Outcome(channel, answer) ==
    LET c == Category(channel, answer)
    IN  IF c = "none" THEN "ok" ELSE IF c \in Retryable THEN "again" ELSE "fatal"
=============================================================================
