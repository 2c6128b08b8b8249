--------------------------- MODULE PlacementGroups ---------------------------
(***************************************************************************)
(* How many placement groups a new pool gets: get_pgs of the pool classes, *)
(* what _create makes of it, and the cap in handle_replicated_pool.        *)
(*                                                                         *)
(* These are functions of a request and of the cluster at one moment, or   *)
(* at two: the handler and the pool class each ask for the list of OSDs.   *)
(* What their comments promise is stated with ASSUME at the end, for all   *)
(* inputs within the bounds given there, and TLC evaluates it.             *)
(*                                                                         *)
(* Weights are in tenths of a percent, and 0 stands for a parameter or an  *)
(* option that is not set, as in the code ("or").  The code multiplies     *)
(* floating point numbers: a product that should be a whole multiple of    *)
(* the pool's size may come out just below it, and is then rounded down.   *)
(* Functions have one result for each way this may go.  No caller of the   *)
(* charm gives a device class.                                             *)
(***************************************************************************)
EXTENDS Integers

LegacyPgCount == 200
DefaultPgsPerOsdTarget == 100
DefaultPoolWeight == 100
AllData == 1000
DefaultMinimumPgs == 2

Or(value, default) == IF value = 0 THEN default ELSE value
Least(a, b) == IF a < b THEN a ELSE b
Most(a, b) == IF a > b THEN a ELSE b

\* The nearest power of 2 below n, or the next one if that is more than 25%
\* below.
NearestPower(n) ==
  LET exponent == CHOOSE e \in 0 .. n : 2^e <= n /\ n < 2^(e + 1)
      nearest == 2^exponent
  IN IF 4 * (n - nearest) > n THEN 2 * nearest ELSE nearest

\* a // b for a product a that may be rounded.
FloorDivisions(a, b) == {a \div b} \union {q \in {a \div b - 1} : a % b = 0 /\ q >= 0}

\* settings has expected-osd-count and pgs-per-osd.
GetPgs(poolSize, weight, osds, settings) ==
  LET osdCount == Most(settings.expected, osds)
      target == Or(settings.pgsPerOsd, DefaultPgsPerOsdTarget)
  IN IF osdCount = 0
     THEN {LegacyPgCount}
     ELSE {NearestPower(Most(n, DefaultMinimumPgs)) :
             n \in FloorDivisions(target * osdCount * weight, AllData * poolSize)}

\* handle_replicated_pool, before anything is created.  A cap of 0 looks like
\* a number that was not asked for.
CapPgNum(request, osds) ==
  IF request.pgNum # 0 /\ osds # 0
  THEN Least(request.pgNum, (osds * 100) \div request.replicas)
  ELSE request.pgNum

\* ReplicatedPool._create
ReplicatedPgs(request, pgNum, osds, settings) ==
  IF pgNum # 0
  THEN {Least(pgNum, max) : max \in GetPgs(request.replicas, AllData, osds, settings)}
  ELSE GetPgs(request.replicas, Or(request.weight, DefaultPoolWeight), osds, settings)

\* ErasurePool._create
ErasurePgs(k, m, weight, osds, settings) ==
  GetPgs(k + m, Or(weight, DefaultPoolWeight), osds, settings)

-----------------------------------------------------------------------------
(* The comments, for small inputs.                                          *)

MaxPgs == 2000
OsdCounts == {0, 1, 3, 5, 16, 30}
PoolSizes == 1 .. 7
Weights == {0, 1, 14, 100, 333, 1000}
PgNums == {0, 1, 8, 50, 600}
AllSettings == [expected : {0, 4}, pgsPerOsd : {0, 200}]
PoolRequests == [pgNum : PgNums, replicas : PoolSizes, weight : Weights]

Powers == {2^e : e \in 0 .. 11}

\* "If the nearest power of 2 is more than 25% below the original value, the
\* next highest value is used": the result is the least power of 2 that is not
\* more than 25% below.
ASSUME NearestPowerIsRight ==
  \A n \in DefaultMinimumPgs .. MaxPgs :
    /\ NearestPower(n) \in Powers
    /\ 4 * NearestPower(n) >= 3 * n
    /\ \A p \in Powers : 4 * p >= 3 * n => NearestPower(n) <= p

\* A pool that is sized by its weight gets at most half as much again as its
\* share of the placement groups of all OSDs, or the minimum, and no less than
\* three quarters of the share, one group for the rounding excepted.
ASSUME ShareIsKept ==
  \A s \in PoolSizes, w \in Weights \ {0}, o \in OsdCounts \ {0}, c \in AllSettings :
    LET share == Or(c.pgsPerOsd, DefaultPgsPerOsdTarget) * Most(c.expected, o) * w
    IN \A pgs \in GetPgs(s, w, o, c) :
         /\ pgs = DefaultMinimumPgs \/ 2 * pgs * s * AllData <= 3 * share
         /\ 4 * pgs >= 3 * (share \div (AllData * s) - 1)

\* "Since the number of placement groups were specified, ensure that there
\* aren't too many created": a pool never gets more than were asked for, nor
\* more than 100 for each OSD of the first look, whichever OSDs come and go
\* before the second one.
ASSUME NotTooManyCreated ==
  \A r \in PoolRequests, o1, o2 \in OsdCounts, c \in AllSettings :
    LET pgNum == CapPgNum(r, o1)
    IN pgNum # 0 => \A pgs \in ReplicatedPgs(r, pgNum, o2, c) :
         /\ pgs <= r.pgNum
         /\ o1 # 0 => pgs * r.replicas <= 100 * o1
=============================================================================
