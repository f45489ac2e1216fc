-------------------------- MODULE MCKitchenDisplays ----------------------------
(* Two orders, one that phase 9 can show, two screens, a socket and a request.*)
EXTENDS KitchenDisplays, FiniteSetsExt, TLC

MCRoom == {"kds", "kds_branch", "driver", "fleet", "merchant", "order"}

MCFilters == {{}, {"preparing"}, {"delayed"}}

Symmetry == Permutations(Screen)

Changes(o) == Cardinality(passed[o]) + MapThenSumSet(LAMBDA c : Len(path[c][o]), Client)

Busy == {c \in Client : pc[c] # "closed"}

(* Bounds: two clients at a time; sockets that are no kitchen display come and*)
(* go before there are orders (the manager treats all alike).                 *)
Two ==
    /\ Cardinality(Busy) <= 2
    /\ (\E c \in Socket : subscribed[c] \cap (Room \ {"kds"}) # {}) =>
           \A o \in Order : ~ Exists(o)
    /\ \A o \in Numbered : Exists(o) => \A p \in Order \ Numbered : Exists(p)
    /\ MapThenSumSet(Changes, Order) <= IF Busy \subseteq Screen THEN 6 ELSE 4
================================================================================
