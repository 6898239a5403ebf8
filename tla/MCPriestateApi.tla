---------------------------- MODULE MCPriestateApi ----------------------------
EXTENDS PriestateApi, TLC

Interchangeable ==
    Permutations(Browsers) \cup Permutations(Txs) \cup Permutations(Applications)
===============================================================================
