----------------------------- MODULE MCExchange -----------------------------
(* The instances of Exchange that TLC checks.  Client ids and symbols are  *)
(* interchangeable and only safety is checked, so the symmetry is sound.   *)
EXTENDS Exchange, TLC

Symmetry == Permutations(Clients) \cup Permutations(Symbols)

(* Two ranges of states are explored: orders of every kind, of one size at *)
(* one price and under two client ids; and fills alone, of every size at   *)
(* every price.                                                            *)
OneSize ==
    /\ \A i \in DOMAIN orders : orders[i].qty = 1
    /\ \A s \in Symbols : mark[s] = StartPrice
    /\ Cardinality({orders[i].client : i \in DOMAIN orders}) <= 2

FillsOnly ==
    ~connected /\ \A i \in DOMAIN orders : orders[i].status = "FILLED"

Explored == OneSize \/ FillsOnly
=============================================================================
