----------------------------- MODULE RateLimiter -----------------------------
(***************************************************************************)
(* The rate limiter of the two endpoints that send mail                    *)
(* (internal/common/middleware/rate_limit.go): one token bucket per client *)
(* address in a map under a mutex, and a goroutine that replaces the whole *)
(* map every hour.  A request fetches its bucket, releases the mutex and   *)
(* then asks the bucket, which may by then belong to a replaced map.       *)
(***************************************************************************)
EXTENDS Integers, FiniteSets, FiniteSetsExt

CONSTANTS
  Clients, Requests,
  NoBucket, Idle,
  Burst,      \* five
  Refill,     \* tokens a bucket gains per unit of time
  MaxTime,    \* bound on the clock
  MaxResets   \* bound on the resets of the map

(* What the constants are; an instance of the module assumes it. *)
LimiterAssumption ==
  /\ Burst \in Nat /\ Refill \in Nat /\ MaxTime \in Nat /\ MaxResets \in Nat
  /\ NoBucket \notin 0..Burst

VARIABLES
  generation,  \* maps replaced so far
  bucket,      \* bucket[g][c]: tokens of client c in the g-th map
  fetched,     \* fetched[r]: the bucket a request holds, or Idle
  clock,
  allowed      \* history: requests of the client that were let through

lvars == <<generation, bucket, fetched, clock, allowed>>

Generations == 0..MaxResets

\* Mutant: every request gets a new bucket.
NewLimiter(r, c) ==
  /\ fetched[r] = Idle
  /\ fetched' = [fetched EXCEPT ![r] = [gen |-> generation, client |-> c]]
  /\ bucket' = [bucket EXCEPT ![generation][c] = Burst]
  /\ UNCHANGED <<generation, clock, allowed>>
(* getLimiter creates a full bucket for a client it does not know. *)
GetLimiter(r, c) ==
  /\ fetched[r] = Idle
  /\ fetched' = [fetched EXCEPT ![r] = [gen |-> generation, client |-> c]]
  /\ bucket' = IF bucket[generation][c] = NoBucket
               THEN [bucket EXCEPT ![generation][c] = Burst] ELSE bucket
  /\ UNCHANGED <<generation, clock, allowed>>

(* rate.Limiter.Allow takes a token or refuses. *)
Allow(r) ==
  /\ fetched[r] # Idle
  /\ LET g == fetched[r].gen
         c == fetched[r].client
     IN /\ bucket[g][c] > 0
        /\ bucket' = [bucket EXCEPT ![g][c] = @ - 1]
        /\ allowed' = [allowed EXCEPT ![c] = @ + 1]
  /\ fetched' = [fetched EXCEPT ![r] = Idle]
  /\ UNCHANGED <<generation, clock>>

(* 429 Too Many Requests; the handler does not run. *)
Refuse(r) ==
  /\ fetched[r] # Idle
  /\ bucket[fetched[r].gen][fetched[r].client] = 0
  /\ fetched' = [fetched EXCEPT ![r] = Idle]
  /\ UNCHANGED <<generation, bucket, clock, allowed>>

(* The hourly goroutine. *)
Cleanup ==
  /\ generation < MaxResets
  /\ generation' = generation + 1
  /\ UNCHANGED <<bucket, fetched, clock, allowed>>

Elapse ==
  /\ clock < MaxTime
  /\ clock' = clock + 1
  /\ bucket' = [g \in Generations |-> [c \in Clients |->
                  IF bucket[g][c] = NoBucket THEN NoBucket
                  ELSE Min({Burst, bucket[g][c] + Refill})]]
  /\ UNCHANGED <<generation, fetched, allowed>>

LimiterInit ==
  /\ generation = 0
  /\ bucket = [g \in Generations |-> [c \in Clients |-> NoBucket]]
  /\ fetched = [r \in Requests |-> Idle]
  /\ clock = 0
  /\ allowed = [c \in Clients |-> 0]

LimiterNext ==
  \/ \E r \in Requests : \/ \E c \in Clients : GetLimiter(r, c)
                         \/ Allow(r)
                         \/ Refuse(r)
  \/ Cleanup
  \/ Elapse

LimiterSpec == LimiterInit /\ [][LimiterNext]_lvars

-----------------------------------------------------------------------------
(* Concurrent first requests of a client and requests that still hold the  *)
(* bucket of a replaced map included, a client gets at most one burst per  *)
(* map, and what its buckets regain as time passes.                        *)
MailsBounded ==
  \A c \in Clients :
    allowed[c] <= (generation + 1) * (Burst + Refill * clock)
=============================================================================
