----------------------------- MODULE MCProcess -----------------------------
EXTENDS Process
MCRuns == {"a", "b"}
MCMaxOut == [r \in MCRuns |-> IF r = "a" THEN 2 ELSE 0]
MCMachines == {"binary", "oracle"}
=============================================================================
