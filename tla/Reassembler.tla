----------------------------- MODULE Reassembler -----------------------------
(***************************************************************************)
(* Long-SMS reassembly, pkg/smscodec/reassembler.go.  The cache maps a key *)
(* (sender and reference number) to the fragments received so far; here it *)
(* is the set of those fragments.  A fragment is a record with the fields  *)
(* key, seq (its place, from 1) and total; its text is left out.           *)
(***************************************************************************)
EXTENDS Naturals, FiniteSets

EmptyCache == {}

Fragments(cache, key) == {f \in cache : f.key = key}

(* A place already filled: the fragment is dropped. *)
IsDuplicate(cache, f) == \E g \in Fragments(cache, f.key) : g.seq = f.seq

(* The fragment makes the message whole (a message of one part is whole). *)
Completes(cache, f) ==
    /\ ~IsDuplicate(cache, f)
    /\ Cardinality(Fragments(cache, f.key)) + 1 = f.total

BugAddKeepsCompleted(cache, f) ==
    IF IsDuplicate(cache, f) THEN cache ELSE cache \cup {f}

(* What Add leaves in the cache. *)
Add(cache, f) ==
    CASE IsDuplicate(cache, f)                          -> cache
      [] Completes(cache, f)                            -> cache \ Fragments(cache, f.key)
      [] ~IsDuplicate(cache, f) /\ ~Completes(cache, f) -> cache \cup {f}

(* What Cleanup leaves when the messages in old have had no new fragment   *)
(* for ten minutes.                                                        *)
Cleanup(cache, old) == {f \in cache : f.key \notin old}
=============================================================================
