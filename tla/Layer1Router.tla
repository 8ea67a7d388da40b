---------------------------- MODULE Layer1Router ----------------------------
(***************************************************************************)
(* The frontend's table of the backend each chat is bound to: /backend use *)
(* sets a route, a message or an overview card refreshes it, the sweeper   *)
(* removes the idle ones, and every change is written to routing.json.     *)
(* A save copies the table under mu and writes the copy under saveMu, two  *)
(* steps with other goroutines in between.                                 *)
(***************************************************************************)
EXTENDS Integers

CONSTANTS Chats, Backends, Savers, NoRoute,
          TTL,           \* how long an idle route lives
          MaxClock,        \* bound on the clock
          MaxRestarts    \* bound on restarts of the frontend

Route == [backend: Backends, updated: Nat, access: Nat]

ASSUME RouteAssumption == TTL \in Nat \ {0} /\ NoRoute \notin Route

VARIABLES
  routes,     \* chat -> NoRoute, or its backend, when it was set and last used
  disk,       \* routing.json: the same without the last use
  saving,     \* worker -> the save it is in: its step and its copy of the table
  clock, restarts,
  used        \* history: when, since the start, the chat last sent a message or was
              \* sent an overview card
routeVars == <<routes, disk, saving, clock, restarts, used>>

NoRoutes == [c \in Chats |-> NoRoute]
Never == -1
Resting == [pc |-> "none", copy |-> NoRoutes]

(* The last use is not persisted.                                          *)
Persisted(t) == [c \in Chats |-> IF t[c] = NoRoute THEN NoRoute
                                 ELSE [backend |-> t[c].backend, updated |-> t[c].updated]]

RouteInit ==
  /\ routes = NoRoutes /\ disk = NoRoutes /\ clock = 0 /\ restarts = 0
  /\ saving = [w \in Savers |-> Resting]
  /\ used = [c \in Chats |-> Never]

Set(w, c, b) ==
  /\ saving[w].pc = "none"
  /\ routes' = [routes EXCEPT ![c] = [backend |-> b, updated |-> clock, access |-> clock]]
  /\ saving' = [saving EXCEPT ![w].pc = "copy"]
  /\ UNCHANGED <<disk, clock, restarts, used>>

(* Fault: the last use is left alone.                                      *)
RefreshNothing(c) == routes[c] # NoRoute /\ used' = [used EXCEPT ![c] = clock]
                     /\ UNCHANGED <<routes, disk, saving, clock, restarts>>

(* Resolve and Touch: a route in use stays.                                *)
Refresh(c) ==
  /\ routes[c] # NoRoute
  /\ routes' = [routes EXCEPT ![c].access = clock]
  /\ used' = [used EXCEPT ![c] = clock]
  /\ UNCHANGED <<disk, saving, clock, restarts>>

Stale(c) == routes[c] # NoRoute /\ routes[c].access + TTL < clock

Prune(w) ==
  /\ saving[w].pc = "none" /\ \E c \in Chats : Stale(c)
  /\ routes' = [c \in Chats |-> IF Stale(c) THEN NoRoute ELSE routes[c]]
  /\ saving' = [saving EXCEPT ![w].pc = "copy"]
  /\ UNCHANGED <<disk, clock, restarts, used>>

Copy(w) ==
  /\ saving[w].pc = "copy"
  /\ saving' = [saving EXCEPT ![w] = [pc |-> "write", copy |-> routes]]
  /\ UNCHANGED <<routes, disk, clock, restarts, used>>

(* The atomic write, or its failure: Set reports it, Prune does not.       *)
Persist(w) ==
  /\ saving[w].pc = "write"
  /\ disk' \in {Persisted(saving[w].copy), disk}
  /\ saving' = [saving EXCEPT ![w] = Resting]
  /\ UNCHANGED <<routes, clock, restarts, used>>

(* The frontend is stopped and started: Load takes the last use from the   *)
(* moment the route was set.                                               *)
Reload ==
  /\ restarts < MaxRestarts
  /\ restarts' = restarts + 1
  /\ routes' = [c \in Chats |->
       IF disk[c] = NoRoute THEN NoRoute
       ELSE [backend |-> disk[c].backend, updated |-> disk[c].updated, access |-> disk[c].updated]]
  /\ saving' = [w \in Savers |-> Resting]
  /\ used' = [c \in Chats |-> Never]
  /\ UNCHANGED <<disk, clock>>

ClockStep == clock < MaxClock /\ clock' = clock + 1 /\ UNCHANGED <<routes, disk, saving, restarts, used>>

RouteNext ==
  \/ \E w \in Savers : \/ \E c \in Chats, b \in Backends : Set(w, c, b)
                        \/ Prune(w) \/ Copy(w) \/ Persist(w)
  \/ \E c \in Chats : Refresh(c)
  \/ Reload \/ ClockStep

RouteSpec == RouteInit /\ [][RouteNext]_routeVars

-----------------------------------------------------------------------------
(* A chat that uses its route, by a message or by the overview card it is  *)
(* sent, is never pruned within the window of that use, whatever the saves *)
(* and the sweeper do; only a restart may lose or age a route (Load knows  *)
(* nothing of the uses before it).                                         *)
ActiveRouteStays ==
  [][\A c \in Chats :
       /\ routes[c] # NoRoute /\ used[c] # Never /\ clock <= used[c] + TTL
       /\ restarts' = restarts
       => routes'[c] # NoRoute]_routeVars
=============================================================================
