------------------------------- MODULE Leaks -------------------------------
(* The leaks commands and EmployLeaks, its cache of the table by uuid: an  *)
(* administrator puts hints up for sale, a user pays with rating.          *)
(*                                                                         *)
(* One thread runs the handlers; one with several statements takes the     *)
(* number done before one is refused.  Neither leaks nor users_leaks has   *)
(* an index but for its id, and nothing asks who bought a leak.  The game  *)
(* of a leak, found in the cache of EmployGames, its name, content and     *)
(* files are left out; of users.rating there is what leaks.buy has taken   *)
(* off the sum over the solved quests, which the task UpdateUserRating     *)
(* alone writes back.  A number is given once (the database server is not  *)
(* restarted).                                                             *)
EXTENDS Integers

CONSTANTS
  Buyers, LeakUuids,
  Prices,           \* numbers the commands may give for a score
  MaxLeaks,         \* bound: leaks ever inserted
  MaxLeakRequests   \* bound: commands and restarts

LeakIds == 1..MaxLeaks
NoLeak == "none"    \* in place of the uuid: there is no such row

ASSUME LeaksAssumption ==
  Prices \subseteq Int /\ NoLeak \notin LeakUuids /\ MaxLeaks \in Nat /\ MaxLeakRequests \in Nat

VARIABLES
  leak_uuid, score, sold,   \* the columns of leaks
  next_leak,                \* its auto_increment
  users_leaks,              \* how many rows of users_leaks each leak has
  taken,                    \* of each rating, since it was last recalculated
  cached_leaks,             \* the keys of m_mapCacheLeaks
  leaks_pc,                 \* "down" or "up"
  leak_requests,
  sold_before,              \* auxiliary: sold as leaks.add was given it
  unsold,                   \* auxiliary: leaks a purchase or deletion of which was refused half-way
  cheap                     \* auxiliary: leaks that were given a score not above 0

leakTable == <<leak_uuid, score, sold, next_leak, sold_before>>
leaksVars == <<leakTable, users_leaks, taken, cached_leaks, leaks_pc, leak_requests, unsold, cheap>>

LeaksInit ==
  /\ leak_uuid = [l \in LeakIds |-> NoLeak] /\ next_leak = 1
  /\ score = [l \in LeakIds |-> 0] /\ sold = [l \in LeakIds |-> 0] /\ sold_before = sold
  /\ users_leaks = [l \in LeakIds |-> 0]
  /\ taken = [u \in Buyers |-> 0]
  /\ cached_leaks = {} /\ leaks_pc = "down" /\ leak_requests = 0 /\ unsold = {} /\ cheap = {}

IsLeak(l) == leak_uuid[l] # NoLeak
LeakUuidsStored == {leak_uuid[l] : l \in {k \in LeakIds : IsLeak(k)}}
LeakRequest == leak_requests < MaxLeakRequests /\ leak_requests' = leak_requests + 1
LeakServing == leaks_pc = "up" /\ LeakRequest
-----------------------------------------------------------------------------
(* EmployLeaks::init, and the end of the process, which may come between   *)
(* any two handlers.                                                       *)
LeaksStart ==
  /\ leaks_pc = "down" /\ leaks_pc' = "up"
  /\ cached_leaks' = LeakUuidsStored
  /\ UNCHANGED <<leakTable, users_leaks, taken, leak_requests, unsold, cheap>>

LeaksStop ==
  /\ LeakServing /\ leaks_pc' = "down" /\ cached_leaks' = {}
  /\ UNCHANGED <<leakTable, users_leaks, taken, unsold, cheap>>
-----------------------------------------------------------------------------
(* leaks.add: addLeak, with a score above 0 and sold as the request says.  *)
(* Nothing comes between the INSERT and the cache but the end of the       *)
(* process, which leaves what it leaves after both.                        *)
IsNewLeakAlways(u) == TRUE

IsNewLeak(u) == u \notin cached_leaks

LeakAdd(u, price, n) ==
  /\ LeakServing /\ next_leak <= MaxLeaks
  /\ price > 0 /\ IsNewLeak(u)
  /\ leak_uuid' = [leak_uuid EXCEPT ![next_leak] = u]
  /\ score' = [score EXCEPT ![next_leak] = price]
  /\ sold' = [sold EXCEPT ![next_leak] = n] /\ sold_before' = [sold_before EXCEPT ![next_leak] = n]
  /\ next_leak' = next_leak + 1
  /\ cached_leaks' = cached_leaks \cup {u}
  /\ UNCHANGED <<users_leaks, taken, leaks_pc, unsold, cheap>>

(* leaks.update: any score.                                                *)
LeakUpdate(l, price) ==
  /\ LeakServing /\ IsLeak(l)
  /\ score' = [score EXCEPT ![l] = price]
  /\ cheap' = IF price > 0 THEN cheap ELSE cheap \cup {l}
  /\ UNCHANGED <<leak_uuid, sold, next_leak, sold_before, users_leaks, taken, cached_leaks, leaks_pc, unsold>>

(* leaks.delete: its rows in users_leaks and leaks_files, then the leak;   *)
(* the cache keeps the uuid, and the users what they have paid.            *)
LeakDelete(l, done) ==
  /\ LeakServing /\ IsLeak(l)
  /\ users_leaks' = [users_leaks EXCEPT ![l] = 0]
  /\ leak_uuid' = IF done = 3 THEN [leak_uuid EXCEPT ![l] = NoLeak] ELSE leak_uuid
  /\ unsold' = IF done = 3 THEN unsold \ {l} ELSE unsold \cup {l}
  /\ UNCHANGED <<score, sold, next_leak, sold_before, taken, cached_leaks, leaks_pc, cheap>>

(* leaks.buy: the rating, the row in users_leaks, the column sold.  Not    *)
(* asked: whether the user has it already, or the rating to pay with.      *)
LeakBuy(l, u, done) ==
  /\ LeakServing /\ IsLeak(l)
  /\ taken' = [taken EXCEPT ![u] = taken[u] + score[l]]
  /\ users_leaks' = IF done >= 2 THEN [users_leaks EXCEPT ![l] = users_leaks[l] + 1] ELSE users_leaks
  /\ sold' = IF done = 3 THEN [sold EXCEPT ![l] = sold[l] + 1] ELSE sold
  /\ unsold' = IF done = 2 THEN unsold \cup {l} ELSE unsold
  /\ UNCHANGED <<leak_uuid, score, next_leak, sold_before, cached_leaks, leaks_pc, cheap>>

(* UpdateUserRating, after the user has solved a quest: the rating is the  *)
(* sum over the solved quests again.                                       *)
RatingRecalculated(u) ==
  /\ LeakServing /\ taken[u] # 0
  /\ taken' = [taken EXCEPT ![u] = 0]
  /\ UNCHANGED <<leakTable, users_leaks, cached_leaks, leaks_pc, unsold, cheap>>
-----------------------------------------------------------------------------
LeaksNext ==
  \/ LeaksStart \/ LeaksStop
  \/ \E u \in LeakUuids, price \in Prices, n \in 0..1 : LeakAdd(u, price, n)
  \/ \E l \in LeakIds, price \in Prices : LeakUpdate(l, price)
  \/ \E l \in LeakIds, done \in 1..3 : LeakDelete(l, done) \/ \E u \in Buyers : LeakBuy(l, u, done)
  \/ \E u \in Buyers : RatingRecalculated(u)

LeaksSpec == LeaksInit /\ [][LeaksNext]_leaksVars
-----------------------------------------------------------------------------
LeaksTypeOK ==
  /\ leak_uuid \in [LeakIds -> LeakUuids \cup {NoLeak}] /\ next_leak \in 1..(MaxLeaks + 1)
  /\ score \in [LeakIds -> Int] /\ sold \in [LeakIds -> Nat] /\ sold_before \in [LeakIds -> Nat]
  /\ users_leaks \in [LeakIds -> Nat] /\ taken \in [Buyers -> Int]
  /\ cached_leaks \subseteq LeakUuids /\ leaks_pc \in {"down", "up"} /\ leak_requests \in 0..MaxLeakRequests
  /\ unsold \subseteq LeakIds /\ cheap \subseteq LeakIds

(* No two leaks have one uuid: only the cache, which outlives the rows it  *)
(* is made of, keeps leaks.add from storing a second one.                  *)
LeakUuidsDistinct ==
  /\ \A k, l \in LeakIds : IsLeak(k) /\ leak_uuid[k] = leak_uuid[l] => k = l
  /\ leaks_pc = "up" => LeakUuidsStored \subseteq cached_leaks

(* A leak is sold as often as users_leaks says, on top of what it was      *)
(* added with, but for one refused half-way through.                       *)
SoldIsBought ==
  \A l \in LeakIds : IsLeak(l) => sold[l] = sold_before[l] + users_leaks[l] \/ l \in unsold

(* Buying never raises a rating while no leak was updated to a score that  *)
(* leaks.add refuses.                                                      *)
PricesArePaid == cheap = {} => \A u \in Buyers : taken[u] >= 0

(* The shop's books: uuids, sales and prices agree after any commands,     *)
(* refusals and restarts.                                                  *)
LeaksBooksTrue == LeakUuidsDistinct /\ SoldIsBought /\ PricesArePaid
=============================================================================
