---------------------------- MODULE Recommendations ----------------------------
(***************************************************************************)
(* The cache in front of opportunity recommendations                       *)
(* (services/recommendation_service.py) and the opportunities it reads     *)
(* (services/sales_service.py).  What is recommended depends on the        *)
(* customer of the opportunity only, and stands for it here.               *)
(*                                                                         *)
(* One process, one event loop: a request gives way while it waits for the *)
(* database, which may have read the row a while before the answer comes.  *)
(* Nothing in the application calls invalidate_cache.                      *)
(***************************************************************************)
EXTENDS Integers, Sequences

CONSTANTS
    Opportunities,      \* each created at most once; none is ever deleted
    Customers,
    AdviceRequests,     \* slots for requests in flight
    CacheTTL,           \* ticks an entry is served
    CacheMax,           \* entries the cache holds
    MaxMoment           \* bound: the clock

ASSUME CacheAssumption ==
    /\ CacheTTL \in Nat \ {0}
    /\ CacheMax \in Nat \ {0}
    /\ MaxMoment \in Nat

VARIABLES
    customerOf,     \* the customer of each opportunity in the database
    cache,          \* the entries, least recently used first
    asking,         \* for each slot: the opportunity, what was read of it and when
    moment,
    held            \* history: when the opportunity last had the customer

adviceVars == <<customerOf, cache, asking, moment, held>>

(* waited is history: how long the answer of the database took to arrive   *)
Entry == [key : Opportunities, time : 0..MaxMoment, value : Customers, waited : 0..MaxMoment]
NoCustomer == "no customer"
NoOpportunity == "no opportunity"
NotAsking == [step |-> "idle", key |-> NoOpportunity, value |-> NoCustomer, since |-> 0]
Ask(q, step, o, c, since) ==
    asking' = [asking EXCEPT ![q] = [step |-> step, key |-> o, value |-> c, since |-> since]]

Positions(o) == {i \in DOMAIN cache : cache[i].key = o}
RemoveEntry(i) == SubSeq(cache, 1, i - 1) \o SubSeq(cache, i + 1, Len(cache))
Without(o) == IF Positions(o) = {} THEN cache ELSE RemoveEntry(CHOOSE i \in Positions(o) : TRUE)
Served(e) == moment - e.time < CacheTTL

LastHeld(o, c) == IF customerOf[o] = c THEN moment ELSE held[o][c]

-----------------------------------------------------------------------------

(* create_opportunity and update_opportunity                               *)
SetCustomer(o, c) ==
    /\ customerOf[o] # c
    /\ customerOf' = [customerOf EXCEPT ![o] = c]
    /\ held' = [held EXCEPT ![o] = [x \in Customers |-> LastHeld(o, x)]]
    /\ UNCHANGED <<cache, asking, moment>>

(* a mutated form of Touched: a hit makes the entry young again            *)
TouchedNow(e) == Append(Without(e.key), [e EXCEPT !.time = moment])

(* a hit becomes the most recently used entry and keeps its time           *)
Touched(e) == Append(Without(e.key), e)
CacheHit(o) ==
    /\ \E i \in Positions(o) : Served(cache[i]) /\ cache' = Touched(cache[i])
    /\ UNCHANGED <<customerOf, asking, moment, held>>

(* an entry past its time is dropped on the way                            *)
CacheMiss(q, o) ==
    /\ asking[q].step = "idle"
    /\ \A i \in Positions(o) : ~Served(cache[i])
    /\ cache' = Without(o)
    /\ Ask(q, "missed", o, NoCustomer, 0)
    /\ UNCHANGED <<customerOf, moment, held>>

ReadOpportunity(q) ==
    LET o == asking[q].key IN
    /\ asking[q].step = "missed"
    /\ IF customerOf[o] = NoCustomer
       THEN asking' = [asking EXCEPT ![q] = NotAsking]      \* 404
       ELSE Ask(q, "read", o, customerOf[o], moment)
    /\ UNCHANGED <<customerOf, cache, moment, held>>

(* a mutated form of Stored: nothing is evicted                            *)
StoredUnbounded(entry) == Append(Without(entry.key), entry)

(* the entry is written to the end; over the limit the first one goes      *)
Stored(entry) ==
    LET entries == Append(Without(entry.key), entry) IN
    IF Len(entries) > CacheMax THEN Tail(entries) ELSE entries

(* the entry is stamped when it is stored, not when the database was read  *)
FillCache(q) ==
    /\ asking[q].step = "read"
    /\ cache' = Stored([key |-> asking[q].key, time |-> moment, value |-> asking[q].value,
                         waited |-> moment - asking[q].since])
    /\ asking' = [asking EXCEPT ![q] = NotAsking]
    /\ UNCHANGED <<customerOf, moment, held>>

MomentPasses ==
    /\ moment < MaxMoment
    /\ moment' = moment + 1
    /\ UNCHANGED <<customerOf, cache, asking, held>>

(* a restart of the process empties the cache                              *)
RestartApp ==
    /\ cache' = <<>>
    /\ asking' = [q \in AdviceRequests |-> NotAsking]
    /\ UNCHANGED <<customerOf, moment, held>>

AdviceInit ==
    /\ customerOf = [o \in Opportunities |-> NoCustomer]
    /\ cache = <<>>
    /\ asking = [q \in AdviceRequests |-> NotAsking]
    /\ moment = 0
    /\ held = [o \in Opportunities |-> [c \in Customers |-> 0]]

AdviceNext ==
    \/ \E o \in Opportunities :
          \/ CacheHit(o)
          \/ \E c \in Customers : SetCustomer(o, c)
          \/ \E q \in AdviceRequests : CacheMiss(q, o)
    \/ \E q \in AdviceRequests : ReadOpportunity(q) \/ FillCache(q)
    \/ MomentPasses
    \/ RestartApp

AdviceSpec == AdviceInit /\ [][AdviceNext]_adviceVars

-----------------------------------------------------------------------------

AdviceTypeOK ==
    /\ customerOf \in [Opportunities -> Customers \cup {NoCustomer}]
    /\ cache \in Seq(Entry)
    /\ Len(cache) <= CacheMax
    /\ asking \in [AdviceRequests ->
           [step : {"idle", "missed", "read"}, key : Opportunities \cup {NoOpportunity},
            value : Customers \cup {NoCustomer}, since : 0..MaxMoment]]
    /\ moment \in 0..MaxMoment
    /\ held \in [Opportunities -> [Customers -> 0..MaxMoment]]

(* An answer from the cache was right less than the TTL ago, or the TTL    *)
(* and as long as the database's answer to the request that stored it took *)
(* to arrive, whoever else read and stored meanwhile: an entry does not    *)
(* live longer for being asked for, nor for being filled by two requests   *)
(* at once ("for up to 3600s", recommendation_service.py:4).  And an       *)
(* opportunity has one entry.                                              *)
AnswersAreFresh ==
    /\ \A i \in DOMAIN cache :
          LET e == cache[i] IN
          Served(e) => moment - LastHeld(e.key, e.value) < CacheTTL + e.waited
    /\ \A i, j \in DOMAIN cache : cache[i].key = cache[j].key => i = j
=============================================================================
