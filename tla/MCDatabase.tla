----------------------------- MODULE MCDatabase -----------------------------
EXTENDS Database, TLC

CONSTANTS r1, r2

\* One request asks for anything while another writes, dumps, imports or ranks.
MCServes ==
  (r1 :> DOMAIN Handlers) @@
  (r2 :> {"vote", "whitelistHandler", "finalize", "dumpDB", "importDB", "rankingByReputation"})
=============================================================================
