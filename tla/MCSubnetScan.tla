---------------------------- MODULE MCSubnetScan ----------------------------
EXTENDS SubnetScan

CONSTANTS a, b, c, d

MCHosts == {a, b, c, d}
MCListings == {<<>>, <<Blank, Blank>>, <<b, Blank, a, b, c, a, d>>, <<c, c>>}
MCConcurrencies == {0, 1, 2, 5}

MCVendorOf ==
    [w \in {"dell", "emc", "hpe", "hp", "supermicro"} |->
        CASE w \in {"dell", "emc"} -> "dell"
          [] w \in {"hpe", "hp"} -> "hpe"
          [] w = "supermicro" -> "supermicro"]

MCTextWords == <<"dell", "hewlett packard", "hpe", "hp", "supermicro">>

MCTextVendorOf ==
    [w \in TextTokens |-> IF w = "hewlett packard" THEN "hpe" ELSE MCVendorOf[w]]

MCRoots ==
    {[oem |-> <<"contoso", "hp">>, type |-> "dell", text |-> {"supermicro"}],
     [oem |-> <<>>, type |-> "dell", text |-> {"hewlett packard", "hp"}],
     [oem |-> <<"contoso">>, type |-> "serviceroot", text |-> {}]}

MCMute == {c}
=============================================================================
