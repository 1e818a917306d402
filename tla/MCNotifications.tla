-------------------------- MODULE MCNotifications --------------------------
EXTENDS Notifications, TLC

\* Subscribe's default preferences (preferences == nil): stream start only.
MCPrefs == {[start |-> TRUE, end |-> FALSE]}
=============================================================================
