-------------------------- MODULE MCNotifications --------------------------
(***************************************************************************)
(* Two notices: one event over an internal and an external channel, and a  *)
(* mutable stream of emits below and above the threshold.                  *)
(***************************************************************************)
EXTENDS NotificationsProperties, TLC

CONSTANTS k1, k2

(* Preferences that mute a family leave its notices to the dashboard, and   *)
(* quiet hours hold a warning back from every other channel.               *)
Enabled(channels) == [enabled |-> channels, threshold |-> "warning", muted |-> {"schedule"}]

TwoEvents ==
    (k1 :> {[severity |-> "critical", family |-> "update", prefs |-> Enabled({"webhook"})]}) @@
    (k2 :> {[severity |-> "warning", family |-> "recovery", prefs |-> Enabled({"webhook"})],
            [severity |-> "info", family |-> "recovery", prefs |-> Enabled({"webhook"})]})
=============================================================================
