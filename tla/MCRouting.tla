----------------------------- MODULE MCRouting -----------------------------
(* Instances of Routing for TLC. *)
EXTENDS Routing

(* Every word of the tables, so that each type of the mapping is there,    *)
(* next to all the types one word off.                                     *)
TableWords ==
    UNION {{t[i] : i \in DOMAIN t} : t \in Supported}
        \cup UNION {{HandlerMap[i].prefix[j] : j \in DOMAIN HandlerMap[i].prefix} :
                       i \in DOMAIN HandlerMap}
        \cup {"other"}

(* One type for each handler, the base handler included. *)
OneTypeEach == Supported \cup {<<"other">>}
=============================================================================
