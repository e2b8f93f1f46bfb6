---------------------------- MODULE MCRetrieval ----------------------------
(* Four chunks of two companies and two years in batches of one and two;   *)
(* "tax" stands in few of them, "revenue" in most.                         *)
EXTENDS Retrieval

MCMeta ==
  [a |-> [ticker |-> "AAPL", year |-> 2023],
   b |-> [ticker |-> "AAPL", year |-> 2024],
   c |-> [ticker |-> "MSFT", year |-> 2023],
   d |-> [ticker |-> "MSFT", year |-> 2024]]

MCTerms ==
  [a |-> {"revenue", "tax"}, b |-> {"revenue"}, c |-> {"revenue", "segment"},
   d |-> {"segment", "lease"}]

MCBatches == {<<"a", "b">>, <<"c">>, <<"d">>}

Everywhere == [ticker |-> {}, year |-> {}]

MCFilters ==
  {Everywhere, [ticker |-> {"AAPL"}, year |-> {}],
   [ticker |-> {"AAPL", "MSFT"}, year |-> {2023}]}

MCQueries == {{"tax"}, {"tax", "revenue"}, {"segment", "lease"}}
=============================================================================
