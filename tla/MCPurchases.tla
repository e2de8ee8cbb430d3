---------------------------- MODULE MCPurchases ----------------------------
(* One purchase of Noin with points, spending and a correction beside it; a *)
(* Google subscription and its replacement; a subscription of Apple.        *)
EXTENDS Purchases, TLC

CONSTANTS coins, monthly, yearly, apple

MCProduct == coins :> "noin" @@ monthly :> "premium" @@ yearly :> "premium" @@ apple :> "premium"
MCPlatform == coins :> "google" @@ monthly :> "google" @@ yearly :> "google" @@ apple :> "apple"
MCReplaces == coins :> coins @@ monthly :> monthly @@ yearly :> monthly @@ apple :> apple
MCPlans ==
    {[items |-> {coins}, points |-> 1, orders |-> {"o1", "o2"}, deletes |-> FALSE, fails |-> FALSE,
      end |-> 0, rows |-> 4, asks |-> 3],
     [items |-> {coins}, points |-> 0, orders |-> {}, deletes |-> TRUE, fails |-> TRUE,
      end |-> 1, rows |-> 2, asks |-> 3],
     [items |-> {monthly, yearly}, points |-> 0, orders |-> {}, deletes |-> FALSE, fails |-> FALSE,
      end |-> 1, rows |-> 0, asks |-> 3],
     [items |-> {apple}, points |-> 0, orders |-> {}, deletes |-> FALSE, fails |-> FALSE,
      end |-> 2, rows |-> 0, asks |-> 3]}
=============================================================================
