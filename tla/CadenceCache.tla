---------------------------- MODULE CadenceCache ----------------------------
(***************************************************************************)
(* CadenceCache over InMemoryCacheBackend.  A value is named by its issue  *)
(* time: two issues are two values.  Nothing in src/ calls the cache yet,  *)
(* so any caller may do any operation at any time.                         *)
(***************************************************************************)
EXTENDS Naturals

CONSTANTS
    Keys,
    Cadences,        \* the deadlines of the sources behind the values
    NoEntry,
    CacheClockBound, \* bound on the clock
    GetBound         \* bound on the counters

VARIABLES
    cacheClock, entries, hits, misses, staleRejections,
    served,          \* what the last get returned and when, NoEntry for None
    everPut, dropped \* history: the keys ever put, those a caller evicted

cacheVars == <<cacheClock, entries, hits, misses, staleRejections, served, everPut, dropped>>

ASSUME CacheAssumption == Cadences \subseteq Nat /\ {CacheClockBound, GetBound} \subseteq Nat

Entry == [issued : Nat, stored : Nat, deadline : Nat]

MutEntryIsStaleSinceTheWrite(e, now) == now > e.stored + e.deadline

\* CacheEntry.is_stale: the age is the data's, not the write's.
EntryIsStale(e, now) == now > e.issued + e.deadline

CacheGet(k) ==
    /\ hits + misses < GetBound
    /\ IF entries[k] = NoEntry
       THEN /\ misses' = misses + 1
            /\ served' = NoEntry
            /\ UNCHANGED <<entries, hits, staleRejections>>
       ELSE IF EntryIsStale(entries[k], cacheClock)
       THEN /\ staleRejections' = staleRejections + 1
            /\ misses' = misses + 1
            /\ entries' = [entries EXCEPT ![k] = NoEntry]
            /\ served' = NoEntry
            /\ UNCHANGED hits
       ELSE /\ hits' = hits + 1
            /\ served' = [entry |-> entries[k], at |-> cacheClock]
            /\ UNCHANGED <<entries, misses, staleRejections>>
    /\ UNCHANGED <<cacheClock, everPut, dropped>>

CachePut(k) ==
    /\ \E issued \in 0..cacheClock, deadline \in Cadences :
          entries' = [entries EXCEPT ![k] =
                        [issued |-> issued, stored |-> cacheClock, deadline |-> deadline]]
    /\ everPut' = everPut \cup {k}
    /\ dropped' = dropped \ {k}
    /\ UNCHANGED <<cacheClock, hits, misses, staleRejections, served>>

CacheEvict(k) ==
    /\ entries' = [entries EXCEPT ![k] = NoEntry]
    /\ dropped' = dropped \cup {k}
    /\ UNCHANGED <<cacheClock, hits, misses, staleRejections, served, everPut>>

CacheTick ==
    /\ cacheClock < CacheClockBound
    /\ cacheClock' = cacheClock + 1
    /\ UNCHANGED <<entries, hits, misses, staleRejections, served, everPut, dropped>>

\* get_entry reads without a change of state.
GetEntry(k) == entries[k]

CacheInit ==
    /\ cacheClock = 0
    /\ entries = [k \in Keys |-> NoEntry]
    /\ hits = 0 /\ misses = 0 /\ staleRejections = 0
    /\ served = NoEntry /\ everPut = {} /\ dropped = {}

CacheNext ==
    \/ \E k \in Keys : CacheGet(k) \/ CachePut(k) \/ CacheEvict(k)
    \/ CacheTick

CacheSpec == CacheInit /\ [][CacheNext]_cacheVars

-----------------------------------------------------------------------------
\* "A stale entry is never returned as fresh" (cache.py:8), however late or
\* often it was put: what a get returned was within its cadence of its issue.
ServedWasCurrent ==
    served # NoEntry => served.at <= served.entry.issued + served.entry.deadline

\* "showing cached data with a visible data age banner is correct and showing
\* nothing is not" (cache.py:111): get_entry has something to show for every
\* key that was put and that nobody evicted by name.
DegradedPathHasSomething ==
    \A k \in everPut \ dropped : GetEntry(k) # NoEntry
=============================================================================
