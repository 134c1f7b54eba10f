---------------------------- MODULE RateLimiter -----------------------------
(***************************************************************************)
(* SlidingWindowLimiter (app/core/ratelimit.py).  A limiter is its budget, *)
(* its window and the keys it may hold; its state is, for each key it      *)
(* holds, the times of the events it let through, oldest first.  No two    *)
(* calls read the same time from the monotonic clock, so that the key just *)
(* let through is the newest.                                              *)
(***************************************************************************)
EXTENDS Integers, FiniteSetsExt, SequencesExt

NoHits == [key \in {} |-> <<>>]
HitsOf(hits, key) == IF key \in DOMAIN hits THEN hits[key] ELSE <<>>
WithHits(hits, key, stamps) ==
    [k \in DOMAIN hits \cup {key} |-> IF k = key THEN stamps ELSE hits[k]]
Without(hits, keys) == [k \in DOMAIN hits \ keys |-> hits[k]]

\* A hit exactly one window old still counts; those before the first that counts are dropped.
Counting(l, stamps, now) == {i \in 1..Len(stamps) : stamps[i] >= now - l.window}
Live(l, stamps, now) ==
    IF Counting(l, stamps, now) = {} THEN <<>>
    ELSE SubSeq(stamps, Min(Counting(l, stamps, now)), Len(stamps))

\* Keys with nothing in the window go; if every key has something, the least recent one.
Evict(l, hits, key, now) ==
    LET stale == {k \in DOMAIN hits : hits[k] = <<>> \/ Last(hits[k]) < now - l.window}
        others == DOMAIN hits \ {key}
        oldest == CHOOSE k \in others : \A j \in others : Last(hits[k]) <= Last(hits[j])
    IN  IF stale # {} THEN Without(hits, stale)
        ELSE IF others = {} THEN hits ELSE Without(hits, {oldest})

\* Mutant: what is refused counts, too.
AllowCounting(l, hits, key, now) ==
    LET kept == Live(l, HitsOf(hits, key), now)
        counted == WithHits(hits, key, Append(kept, now))
    IN  [ok |-> Len(kept) < l.limit,
         hits |-> IF Cardinality(DOMAIN counted) > l.keys THEN Evict(l, counted, key, now) ELSE counted]

\* Whether the event is within budget, and the state after it; one refused is not counted.
Allow(l, hits, key, now) ==
    LET kept == Live(l, HitsOf(hits, key), now)
        counted == WithHits(hits, key, Append(kept, now))
    IN  IF Len(kept) >= l.limit THEN [ok |-> FALSE, hits |-> WithHits(hits, key, kept)]
        ELSE [ok |-> TRUE,
              hits |-> IF Cardinality(DOMAIN counted) > l.keys THEN Evict(l, counted, key, now) ELSE counted]

Remaining(l, hits, key, now) ==
    LET live == Cardinality(Counting(l, HitsOf(hits, key), now))
    IN  IF live < l.limit THEN l.limit - live ELSE 0
=============================================================================
