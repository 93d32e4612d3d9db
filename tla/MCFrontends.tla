---------------------------- MODULE MCFrontends -----------------------------
EXTENDS Frontends, TLC

CONSTANTS db, web

\* Both names start their scan at the same port, so that they collide.
MCHash == db :> 5 @@ web :> 5

=============================================================================
