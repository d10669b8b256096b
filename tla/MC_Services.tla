----------------------------- MODULE MC_Services -----------------------------
EXTENDS Services

\* Clamps 2..4, quotes below and above them, two updates that are valid one
\* by one but not together, and one whose ceiling is stored as null.
DefaultClamps == [floor |-> 2, ceiling |-> 4]
OneSided == {[floor |-> 3, ceiling |-> None], [floor |-> None, ceiling |-> 3],
             [floor |-> None, ceiling |-> Infinity]}

Posts ==
    {[endpoint |-> "relay", token |-> "STX", success |-> TRUE, clientError |-> FALSE, fee |-> 3],
     [endpoint |-> "settle", token |-> "sBTC", success |-> TRUE, clientError |-> FALSE, fee |-> 1],
     [endpoint |-> "verify", token |-> "STX", success |-> TRUE, clientError |-> FALSE, fee |-> None],
     [endpoint |-> "settle", token |-> "sBTC", success |-> FALSE, clientError |-> TRUE, fee |-> None],
     [endpoint |-> "relay", token |-> "STX", success |-> FALSE, clientError |-> FALSE, fee |-> None]}
=============================================================================
