----------------------------- MODULE MCTradeBox -----------------------------
(* TradeBox on small instances: model values for users, boxes, entries and *)
(* streams; entries are interchangeable, and so are streams and users.     *)
EXTENDS TradeBox, TLC

ExchangeSymmetry == Permutations(Owner) \cup Permutations(BoxId) \cup Permutations(Entry)
StreamSymmetry == Permutations(Entry) \cup Permutations(Stream)
=============================================================================
