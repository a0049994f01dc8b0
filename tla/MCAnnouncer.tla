----------------------------- MODULE MCAnnouncer -----------------------------
\* The announcer with small times: see the bounds of the configuration.
EXTENDS Announcer
=============================================================================
