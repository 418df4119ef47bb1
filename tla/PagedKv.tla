------------------------------ MODULE PagedKv ------------------------------
(***************************************************************************)
(* The paged KV cache manager of ruLLM (src/ruLLM/src/paged_kv.rs): the     *)
(* metadata of a pool of physical pages, reference counted, shared between  *)
(* sequences through a prefix cache and appended to under a reserve/commit  *)
(* protocol.                                                                *)
(*                                                                          *)
(* The manager is one value, kv, and each of its methods an operator from   *)
(* the old value to the new one, so that a caller which calls several       *)
(* methods in one step (ContinuousBatch) composes them.  Abstractions:      *)
(*  - the chain hash of a run of blocks is the run of tokens itself, that   *)
(*    is, DefaultHasher is taken to be free of collisions;                  *)
(*  - block_index is the inverse of page_blocks, each is updated with the   *)
(*    other, so blocks (the key a page is published under) stands for both; *)
(*  - of the LRU ticks only the order is kept: they are renumbered from 1;  *)
(*  - a sequence has at most one reservation, so the reservation is part of *)
(*    the sequence (count tokens from committed on; 0 when there is none)   *)
(*    and a call with an unknown or stale reservation id, which the code    *)
(*    refuses without a change, is no step.                                 *)
(***************************************************************************)
EXTENDS Integers, Sequences, FiniteSets

CONSTANTS Requests,            \* the RequestIds
          Tokens,
          NumPages,            \* PagedKvCacheConfig
          BlockSize,
          MaxSequenceLength

\* PagedKvCacheConfig::validate.
ASSUME KvConfig ==
    /\ NumPages \in Nat \ {0}
    /\ BlockSize \in Nat \ {0}
    /\ MaxSequenceLength \in Nat \ {0}
    /\ IsFiniteSet(Requests)

VARIABLE kv

Pages == 0 .. NumPages - 1
NoBlock == <<>>                \* page_blocks[page] = None
Elements(s) == {s[i] : i \in DOMAIN s}
PagesFor(n) == (n + BlockSize - 1) \div BlockSize
Lowest(a, b) == IF a < b THEN a ELSE b

\* evictable is a set of pairs <<tick, page>>.
CachedPages(k) == {e[2] : e \in k.evictable}
Without(E, S) == {e \in E : e[2] \notin S}
Renumbered(E) == {<<Cardinality({d \in E : d[1] <= e[1]}), e[2]>> : e \in E}

AvailablePages(k) == Cardinality(k.free) + Cardinality(k.evictable)

NewManager ==
    [free |-> Pages, refs |-> [p \in Pages |-> 0], blocks |-> [p \in Pages |-> NoBlock],
     evictable |-> {}, caching |-> FALSE, seqs |-> [r \in {} |-> 0]]

\* block_index.get(key): the page published under key.
Published(k, key) == \E p \in Pages : k.blocks[p] = key
PageOf(k, key) == CHOOSE p \in Pages : k.blocks[p] = key

\* drop_cached_block of every page of S.  Mutant: the block stays published.
Unblocked_Kept(k, S) == k.blocks
Unblocked(k, S) == [p \in Pages |-> IF p \in S THEN NoBlock ELSE k.blocks[p]]

-----------------------------------------------------------------------------
(* Pages: allocation, sharing and release *)

\* Free pages go first, lowest first; then the cached page released longest ago.
AllocationOrder(k, p) ==
    IF p \in k.free THEN p ELSE NumPages + (CHOOSE e \in k.evictable : e[2] = p)[1]

\* What n calls of allocate_page return: one sequence, when n pages are available.
Allocations(k, n) ==
    LET available == k.free \cup CachedPages(k)
    IN {t \in [1 .. n -> available] :
          /\ \A i, j \in 1 .. n : i < j => AllocationOrder(k, t[i]) < AllocationOrder(k, t[j])
          /\ \A i \in 1 .. n : \A p \in available \ Elements(t) :
               AllocationOrder(k, t[i]) < AllocationOrder(k, p)}

Allocate(k, t) ==
    [k EXCEPT !.free = @ \ Elements(t),
              !.evictable = Renumbered(Without(@, Elements(t))),
              !.blocks = Unblocked(k, Elements(t) \cap CachedPages(k)),
              !.refs = [p \in Pages |-> IF p \in Elements(t) THEN 1 ELSE @[p]]]

AcquireCached(k, S) ==
    [k EXCEPT !.refs = [p \in Pages |-> IF p \in S THEN @[p] + 1 ELSE @[p]],
              !.evictable = Renumbered(Without(@, {p \in S : k.refs[p] = 0}))]

\* The pages of a table whose last reference release_page gives up.  Mutant: a page
\* others hold is among them.
Unreferenced_Any(k, pages) == Elements(pages)
Unreferenced(k, pages) == {p \in Elements(pages) : k.refs[p] = 1}

\* release_page for each of the pages, in the order given; a table holds a page once.
Release(k, pages) ==
    LET cached == {p \in Unreferenced(k, pages) : k.caching /\ k.blocks[p] # NoBlock}
        freed == Unreferenced(k, pages) \ cached
        position(p) == CHOOSE i \in DOMAIN pages : pages[i] = p
        ticks == {<<NumPages + position(p), p>> : p \in cached}
    IN [k EXCEPT !.refs = [p \in Pages |-> IF p \in Elements(pages) THEN @[p] - 1 ELSE @[p]],
                 !.free = @ \cup freed,
                 !.evictable = Renumbered(@ \cup ticks),
                 !.blocks = Unblocked(k, freed)]

-----------------------------------------------------------------------------
(* Sequences and the prefix cache *)

NewSequence(pages, committed, chain) ==
    [committed |-> committed, pages |-> pages, count |-> 0, previous |-> 0,
     registered |-> Len(pages), chain |-> chain]

WithSequence(k, r, s) ==
    [k EXCEPT !.seqs = [q \in DOMAIN @ \cup {r} |-> IF q = r THEN s ELSE @[q]]]

Prefix(tokens, blocks) == SubSeq(tokens, 1, blocks * BlockSize)

CreateSequence(k, r) == WithSequence(k, r, NewSequence(<<>>, 0, <<>>))

\* m is the number of leading blocks of tokens that create_sequence_with_prefix maps;
\* the last token is never mapped, its position has to be computed.
Matched(k, tokens, m) ==
    LET usable == IF k.caching /\ Len(tokens) > 1 THEN (Len(tokens) - 1) \div BlockSize ELSE 0
    IN /\ m \in 0 .. usable
       /\ \A i \in 1 .. m : Published(k, Prefix(tokens, i))
       /\ m < usable => ~Published(k, Prefix(tokens, m + 1))

CreateSequenceWithPrefix(k, r, tokens, m) ==
    LET pages == [i \in 1 .. m |-> PageOf(k, Prefix(tokens, i))]
    IN WithSequence(AcquireCached(k, Elements(pages)), r,
                    NewSequence(pages, m * BlockSize, Prefix(tokens, m)))

\* The blocks of r that register_prefix finds complete and not yet registered.  Mutant:
\* the block being filled counts as complete.
Complete_Rounded(k, r, tokens) ==
    k.seqs[r].registered + 1 .. Lowest(PagesFor(k.seqs[r].committed), Len(tokens) \div BlockSize)
Complete(k, r, tokens) ==
    k.seqs[r].registered + 1 .. Lowest(k.seqs[r].committed, Len(tokens)) \div BlockSize

RegisterPrefix(k, r, tokens) ==
    LET s == k.seqs[r]
        done == Complete(k, r, tokens)
        key(i) == s.chain \o SubSeq(tokens, s.registered * BlockSize + 1, i * BlockSize)
        new == {i \in done : ~Published(k, key(i)) /\ k.blocks[s.pages[i]] = NoBlock}
        last == s.registered + Cardinality(done)
    IN IF ~k.caching THEN k
       ELSE [k EXCEPT
               !.blocks = [p \in Pages |->
                            IF \E i \in new : s.pages[i] = p
                              THEN key(CHOOSE i \in new : s.pages[i] = p) ELSE @[p]],
               !.seqs[r].registered = last,
               !.seqs[r].chain = key(last)]

SetPrefixCaching(k, enabled) ==
    IF enabled THEN [k EXCEPT !.caching = TRUE]
    ELSE [k EXCEPT !.caching = FALSE,
                   !.evictable = {},
                   !.free = @ \cup CachedPages(k),
                   !.blocks = Unblocked(k, CachedPages(k))]

RemoveSequence(k, r) ==
    LET pages == k.seqs[r].pages
        backwards == [i \in DOMAIN pages |-> pages[Len(pages) + 1 - i]]
    IN [Release(k, backwards) EXCEPT !.seqs = [q \in DOMAIN @ \ {r} |-> @[q]]]

-----------------------------------------------------------------------------
(* Appends: reserve, extend, commit a prefix, cancel *)

Additional(k, r, end) ==
    LET need == PagesFor(end) - Len(k.seqs[r].pages) IN IF need > 0 THEN need ELSE 0

CanAppend(k, r, n) ==
    LET end == k.seqs[r].committed + n
    IN /\ n > 0
       /\ k.seqs[r].count = 0
       /\ end <= MaxSequenceLength
       /\ Additional(k, r, end) <= AvailablePages(k)

BeginAppend(k, r, n, t) ==
    LET s == k.seqs[r]
    IN WithSequence(Allocate(k, t), r,
                    [s EXCEPT !.pages = @ \o t, !.count = n, !.previous = Len(s.pages)])

CanExtend(k, r, extra) ==
    LET end == k.seqs[r].committed + k.seqs[r].count + extra
    IN /\ k.seqs[r].count > 0
       /\ end <= MaxSequenceLength
       /\ Additional(k, r, end) <= AvailablePages(k)

ExtendAppend(k, r, extra, t) ==
    LET s == k.seqs[r]
    IN WithSequence(Allocate(k, t), r, [s EXCEPT !.pages = @ \o t, !.count = @ + extra])

Shortened(k, r, pages, committed) ==
    WithSequence(Release(k, SubSeq(k.seqs[r].pages, pages + 1, Len(k.seqs[r].pages))), r,
                 [k.seqs[r] EXCEPT !.pages = SubSeq(@, 1, pages), !.committed = committed,
                                   !.count = 0])

\* commit_append commits the whole reservation, commit_append_partial and each row of
\* commit_append_prefixes its first n tokens; the pages past them are released.
CommitAppend(k, r, n) ==
    LET end == k.seqs[r].committed + n IN Shortened(k, r, PagesFor(end), end)

\* Mutants: the reservation stays open; it is committed.
CancelAppend_Open(k, r) == k
CancelAppend_Commits(k, r) == CommitAppend(k, r, k.seqs[r].count)
CancelAppend(k, r) == Shortened(k, r, k.seqs[r].previous, k.seqs[r].committed)

-----------------------------------------------------------------------------
(* The manager on its own: any sequence of the calls it accepts *)

Texts == UNION {[1 .. n -> Tokens] : n \in 0 .. MaxSequenceLength}

CreateStep(r, tokens) ==
    /\ r \notin DOMAIN kv.seqs
    /\ \/ kv' = CreateSequence(kv, r)
       \/ \E m \in 0 .. MaxSequenceLength :
            Matched(kv, tokens, m) /\ kv' = CreateSequenceWithPrefix(kv, r, tokens, m)

BeginStep(r, n) ==
    /\ CanAppend(kv, r, n)
    /\ \E t \in Allocations(kv, Additional(kv, r, kv.seqs[r].committed + n)) :
         kv' = BeginAppend(kv, r, n, t)

ExtendStep(r, n) ==
    /\ CanExtend(kv, r, n)
    /\ \E t \in Allocations(kv, Additional(kv, r, kv.seqs[r].committed + kv.seqs[r].count + n)) :
         kv' = ExtendAppend(kv, r, n, t)

CommitStep(r, n) == n \in 1 .. kv.seqs[r].count /\ kv' = CommitAppend(kv, r, n)
CancelStep(r) == kv.seqs[r].count > 0 /\ kv' = CancelAppend(kv, r)
RemoveStep(r) == kv.seqs[r].count = 0 /\ kv' = RemoveSequence(kv, r)

KvInit == kv = NewManager
KvNext ==
    \/ \E enabled \in BOOLEAN : kv' = SetPrefixCaching(kv, enabled)
    \/ \E r \in Requests, tokens \in Texts : CreateStep(r, tokens)
    \/ \E r \in DOMAIN kv.seqs :
         \/ \E n \in 1 .. MaxSequenceLength : BeginStep(r, n) \/ ExtendStep(r, n) \/ CommitStep(r, n)
         \/ \E tokens \in Texts : kv' = RegisterPrefix(kv, r, tokens)
         \/ CancelStep(r)
         \/ RemoveStep(r)
KvSpec == KvInit /\ [][KvNext]_kv

-----------------------------------------------------------------------------
(* What the manager promises *)

Holders(k, p) == {r \in DOMAIN k.seqs : p \in Elements(k.seqs[r].pages)}

\* Every page is free, cached without a reference, or referenced, and never two of
\* these; page_refs counts exactly the block tables that hold the page (allocate_page,
\* acquire_cached and release_page, paged_kv.rs:644-694).  A page counted too low is
\* handed to two sequences, one counted too high is never handed out again.
PagesAccounted ==
    /\ kv.free \cap CachedPages(kv) = {}
    /\ \A p \in Pages : /\ kv.refs[p] = Cardinality(Holders(kv, p))
                        /\ kv.refs[p] = 0 <=> p \in kv.free \cup CachedPages(kv)

\* "Shared pages are never written" (paged_kv.rs:115): every page a reservation may be
\* writing, from the one that holds position committed on, has no other holder and is
\* not published, so no later sequence can map it before the append is settled.
WritesArePrivate ==
    \A r \in DOMAIN kv.seqs :
      kv.seqs[r].count > 0 =>
        \A i \in kv.seqs[r].committed \div BlockSize + 1 .. Len(kv.seqs[r].pages) :
          /\ Holders(kv, kv.seqs[r].pages[i]) = {r}
          /\ kv.blocks[kv.seqs[r].pages[i]] = NoBlock
=============================================================================
