------------------------------ MODULE DexRouter -----------------------------
(***************************************************************************)
(* frame/dex-router over Uniswap (ConstantProductDex) and CurveAmm         *)
(* (StableSwapDex): a stored list of pools per pair of assets, and trades  *)
(* along it, where each pool's base is traded for the next pool's quote.   *)
(* Nothing is transactional here and the pallet has no calls of its own: a *)
(* trade that fails half way leaves the hops before it done, unless the    *)
(* caller rolls them back, which is a stuttering step.                     *)
(***************************************************************************)
EXTENDS Uniswap, CurveAmm, SequencesExt

CONSTANTS
    MaxHopsInRoute,
    RoutedPairs,     \* the pairs routes are stored for
    RouteInputs,     \* lists of [dex, pool]
    RoutedAmounts,   \* dx and amount
    NoRoute

ASSUME RouterTypes ==
    /\ MaxHopsInRoute \in Nat
    /\ \A r \in RouteInputs :
          /\ Len(r) <= MaxHopsInRoute
          /\ \A i \in DOMAIN r : r[i].dex \in {"Curve", "Uniswap"} /\ r[i].pool \in Nat
    /\ RoutedAmounts \subseteq Nat

VARIABLE dex_routes

NodeExists(node) ==
    IF node.dex = "Curve" THEN CurveExists(node.pool) ELSE PoolExists(node.pool)

\* update_route with a route: do_update_route
UpdateRoute(pair, route) ==
    /\ \A i \in DOMAIN route : NodeExists(route[i])
    /\ dex_routes' = [dex_routes EXCEPT ![pair] = route]
    /\ UNCHANGED <<now, ledger, poolVars, curveVars, factoryVars>>

\* update_route without one: do_delete_route
DeleteRoute(pair) ==
    /\ dex_routes' = [dex_routes EXCEPT ![pair] = NoRoute]
    /\ UNCHANGED <<now, ledger, poolVars, curveVars, factoryVars>>

-----------------------------------------------------------------------------

(* One hop: the pool's own pair, no minimum, the payer kept alive.         *)
HopOutcomes(l, who, node, dx) ==
    IF node.dex = "Curve"
    THEN CurveOutcomes(l, who, node.pool, curve_pools[node.pool].pair, dx, 0, TRUE)
    ELSE SwapOutcomes(l, who, node.pool, pools[node.pool].pair, dx, 0, TRUE)

(* The ledgers in which a trade of dx along the route may end.  `going' is *)
(* false from the hop on that failed.                                      *)
RoutedLedgers(who, route, dx) ==
    LET Hop(run, node) ==
            LET outcomes == HopOutcomes(run.ledger, who, node, run.dx) IN
            IF ~run.going \/ outcomes = {} THEN {[run EXCEPT !.going = FALSE]}
            ELSE {IF o.allowed
                  THEN [ledger |-> o.ledger, dx |-> o.out, going |-> TRUE]
                  ELSE [run EXCEPT !.going = FALSE] : o \in outcomes}
        runs == FoldLeft(LAMBDA rs, node : UNION {Hop(run, node) : run \in rs},
                         {[ledger |-> ledger, dx |-> dx, going |-> TRUE]}, route)
    IN {run.ledger : run \in runs}

\* exchange, and sell, which is the same
RouteExchange(who, pair, dx) ==
    /\ dex_routes[pair] # NoRoute
    /\ ledger' \in RoutedLedgers(who, dex_routes[pair], dx)
    /\ UNCHANGED <<now, dex_routes, poolVars, curveVars, factoryVars>>

\* buy, first loop: what to pay, from the last pool back, by the present reserves
RouteCosts(route, amount) ==
    FoldLeft(LAMBDA costs, node :
                UNION {IF node.dex = "Curve"
                       THEN CurveValue(ledger, node.pool,
                                       curve_pools[node.pool].pair.base, dy)
                       ELSE ExchangeValue(node.pool, pools[node.pool].pair.base, dy) :
                       dy \in costs},
             {amount}, Reverse(route))

\* an empty route is bought for nothing: dx stays zero, and nothing is traded
RouteBuy(who, pair, amount) ==
    /\ dex_routes[pair] \notin {NoRoute, <<>>}
    /\ \E dx \in RouteCosts(dex_routes[pair], amount) :
          ledger' \in RoutedLedgers(who, dex_routes[pair], dx)
    /\ UNCHANGED <<now, dex_routes, poolVars, curveVars, factoryVars>>

RouterInit == dex_routes = [pair \in RoutedPairs |-> NoRoute]

RouterNext ==
    \/ \E pair \in RoutedPairs, route \in RouteInputs : UpdateRoute(pair, route)
    \/ \E pair \in RoutedPairs : DeleteRoute(pair)
    \/ \E who \in Users, pair \in RoutedPairs, amount \in RoutedAmounts :
          RouteExchange(who, pair, amount) \/ RouteBuy(who, pair, amount)

-----------------------------------------------------------------------------

(* Trading takes no value from the shareholders of a pool, and whoever     *)
(* leaves takes no more than the share: an exchange, direct or along a     *)
(* route that fails half way or visits a pool again, with or without fees, *)
(* never lowers the product of a constant-product pool's reserves, and a   *)
(* removal from a pool of either kind never lowers the reserves behind     *)
(* each remaining share, whatever is rounded (exchange, do_compute_swap    *)
(* and remove_liquidity of both pallets).                                  *)
PoolsKeepValue ==
    [][ProductKept /\ ReservesKept /\ CurveReservesKept]_<<ledger, poolVars, curveVars>>
=============================================================================
