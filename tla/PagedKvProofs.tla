--------------------------- MODULE PagedKvProofs ---------------------------
(***************************************************************************)
(* The paged KV manager accounts for its pages and never lets a shared or  *)
(* published page be written, for any pool, block size, set of requests    *)
(* and any sequence of the calls it accepts.                               *)
(*                                                                         *)
(* The two properties are not inductive.  That a release frees a page      *)
(* nobody else holds needs every table to hold a page once; that a page a  *)
(* prefix maps is not a free one needs free pages to be unpublished; and   *)
(* that an append never meets a shared page needs every shared page to be  *)
(* published, and a published page to be a complete block of each of its   *)
(* holders.                                                                *)
(***************************************************************************)
EXTENDS PagedKv, FiniteSetTheorems, TLAPS

IsSequence(s) ==
    s \in [committed : Nat, pages : Seq(Pages), count : Nat, previous : Nat,
           registered : Nat, chain : {s.chain}]

IsManager(k) ==
    /\ k \in [free : SUBSET Pages, refs : [Pages -> Nat], blocks : {k.blocks},
              evictable : SUBSET (Nat \X Pages), caching : BOOLEAN, seqs : {k.seqs}]
    /\ IsFiniteSet(k.evictable)
    /\ DOMAIN k.seqs \subseteq Requests
    /\ \A r \in DOMAIN k.seqs : IsSequence(k.seqs[r])

\* page_refs, the free list and the cached pages.
Accounted(k) ==
    /\ k.free \cap CachedPages(k) = {}
    /\ \A p \in Pages : /\ k.refs[p] = Cardinality(Holders(k, p))
                        /\ k.refs[p] = 0 <=> p \in k.free \cup CachedPages(k)
                        /\ p \in k.free => k.blocks[p] = NoBlock

Once(pages) == \A i, j \in DOMAIN pages : pages[i] = pages[j] => i = j

\* A table has the pages its tokens need, and had them before the open append.
Covered(s) ==
    /\ Once(s.pages)
    /\ Len(s.pages) >= PagesFor(s.committed + s.count)
    /\ s.count > 0 => s.previous \in PagesFor(s.committed) .. Len(s.pages)

\* Published pages are complete blocks of their holders, shared pages are published.
Shared(k) ==
    /\ \A r \in DOMAIN k.seqs : \A i \in DOMAIN k.seqs[r].pages :
         k.blocks[k.seqs[r].pages[i]] # NoBlock => i <= k.seqs[r].committed \div BlockSize
    /\ \A p \in Pages : \A r, q \in Holders(k, p) : r # q => k.blocks[p] # NoBlock

KvInv(k) ==
    /\ IsManager(k)
    /\ Accounted(k)
    /\ \A r \in DOMAIN k.seqs : Covered(k.seqs[r])
    /\ Shared(k)

-----------------------------------------------------------------------------
(* Arithmetic of blocks *)

LEMMA Product ==
    ASSUME NEW a \in Nat, NEW b \in Nat, a <= b
    PROVE  a * BlockSize <= b * BlockSize /\ a * BlockSize \in Nat
    BY KvConfig

LEMMA Quotient ==
    ASSUME NEW a \in Nat
    PROVE  /\ a \div BlockSize \in Nat
           /\ (a \div BlockSize) * BlockSize <= a
           /\ a < (a \div BlockSize) * BlockSize + BlockSize
    BY KvConfig

\* A quotient is the largest number of blocks that fit.
LEMMA QuotientLargest ==
    ASSUME NEW a \in Nat, NEW q \in Nat, q * BlockSize <= a
    PROVE  q <= a \div BlockSize
<1>. SUFFICES ASSUME a \div BlockSize + 1 <= q PROVE FALSE
    BY Quotient
<1>1. (a \div BlockSize + 1) * BlockSize <= q * BlockSize
    BY Product, Quotient
<1>2. (a \div BlockSize + 1) * BlockSize = (a \div BlockSize) * BlockSize + BlockSize
    BY Quotient, KvConfig
<1>. QED
    BY <1>1, <1>2, Quotient, KvConfig

LEMMA QuotientMonotone ==
    ASSUME NEW a \in Nat, NEW b \in Nat, a <= b
    PROVE  a \div BlockSize <= b \div BlockSize
<1>1. (a \div BlockSize) * BlockSize <= b
    BY Quotient, Product, KvConfig
<1>. QED
    BY <1>1, Quotient, QuotientLargest

LEMMA QuotientOfProduct ==
    ASSUME NEW m \in Nat
    PROVE  (m * BlockSize) \div BlockSize = m
<1>. DEFINE q == (m * BlockSize) \div BlockSize
<1>1. m * BlockSize \in Nat
    BY Product
<1>2. m <= q /\ q \in Nat /\ q * BlockSize <= m * BlockSize
    BY <1>1, Quotient, QuotientLargest
<1>3. ASSUME m + 1 <= q PROVE FALSE
    <2>1. (m + 1) * BlockSize <= q * BlockSize
        BY <1>2, <1>3, Product
    <2>2. (m + 1) * BlockSize = m * BlockSize + BlockSize
        BY KvConfig
    <2>. QED
        BY <2>1, <2>2, <1>1, <1>2, KvConfig
<1>. QED
    BY <1>2, <1>3

\* What the number of pages for a run of tokens amounts to.
LEMMA PagesForFacts ==
    /\ \A a \in Nat : PagesFor(a) \in Nat /\ a \div BlockSize <= PagesFor(a)
    /\ \A a, b \in Nat : a <= b => PagesFor(a) <= PagesFor(b)
    /\ \A m \in Nat : PagesFor(m * BlockSize) = m
<1>1. \A a \in Nat : a + BlockSize - 1 \in Nat /\ a <= a + BlockSize - 1
    BY KvConfig
<1>2. ASSUME NEW a \in Nat PROVE PagesFor(a) \in Nat /\ a \div BlockSize <= PagesFor(a)
    BY <1>1, Quotient, QuotientMonotone DEF PagesFor
<1>3. ASSUME NEW a \in Nat, NEW b \in Nat, a <= b PROVE PagesFor(a) <= PagesFor(b)
    <2>1. a + BlockSize - 1 <= b + BlockSize - 1
        BY <1>3, KvConfig
    <2>. QED
        BY <2>1, <1>1, QuotientMonotone DEF PagesFor
<1>4. ASSUME NEW m \in Nat PROVE PagesFor(m * BlockSize) = m
    <2>. DEFINE n == m * BlockSize
                q == (n + BlockSize - 1) \div BlockSize
    <2>1. n \in Nat /\ n \div BlockSize = m
        BY Product, QuotientOfProduct
    <2>2. q \in Nat /\ m <= q /\ q * BlockSize <= n + BlockSize - 1
        BY <2>1, <1>1, <1>2, Quotient DEF PagesFor
    <2>3. ASSUME m + 1 <= q PROVE FALSE
        <3>1. (m + 1) * BlockSize <= q * BlockSize
            BY <2>2, <2>3, Product
        <3>2. (m + 1) * BlockSize = n + BlockSize
            BY KvConfig
        <3>. HIDE DEF n, q
        <3>. QED
            BY <3>1, <3>2, <2>1, <2>2, KvConfig, Product
    <2>. QED
        BY <2>2, <2>3 DEF PagesFor
<1>. QED
    BY <1>2, <1>3, <1>4

LEMMA PagesForNat == ASSUME NEW a \in Nat PROVE PagesFor(a) \in Nat
    BY PagesForFacts

-----------------------------------------------------------------------------
(* Pages and their holders *)

LEMMA RenumberedFacts ==
    ASSUME NEW E \in SUBSET (Nat \X Pages), IsFiniteSet(E)
    PROVE  /\ Renumbered(E) \in SUBSET (Nat \X Pages)
           /\ IsFiniteSet(Renumbered(E))
           /\ {e[2] : e \in Renumbered(E)} = {e[2] : e \in E}
<1>. DEFINE rank(e) == Cardinality({d \in E : d[1] <= e[1]})
            new(e) == <<rank(e), e[2]>>
<1>1. \A e \in E : rank(e) \in Nat
    <2>. TAKE e \in E
    <2>1. {d \in E : d[1] <= e[1]} \in SUBSET E
        OBVIOUS
    <2>2. IsFiniteSet({d \in E : d[1] <= e[1]})
        BY <2>1, FS_Subset
    <2>. QED
        BY <2>2, FS_CardinalityType
<1>2. Renumbered(E) = {new(e) : e \in E}
    BY DEF Renumbered
<1>. HIDE DEF rank
<1>. DEFINE T == {new(e) : e \in E}
            f == [e \in E |-> new(e)]
<1>3. IsFiniteSet(T)
    <2>1. f \in Surjection(E, T)
        BY Zenon DEF Surjection
    <2>. QED
        BY <2>1, FS_Surjection
<1>4. \A e \in E : e \in Nat \X Pages /\ e[2] \in Pages
    OBVIOUS
<1>5. \A e \in E : new(e) \in Nat \X Pages /\ new(e)[2] = e[2]
    BY <1>1, <1>4
<1>6. T \in SUBSET (Nat \X Pages) /\ {t[2] : t \in T} = {e[2] : e \in E}
    <2>. HIDE DEF new
    <2>. QED
        BY <1>5
<1>. QED
    BY <1>2, <1>3, <1>6

LEMMA HoldersFinite ==
    ASSUME NEW k, IsManager(k), NEW p
    PROVE  IsFiniteSet(Holders(k, p)) /\ Cardinality(Holders(k, p)) \in Nat
<1>1. Holders(k, p) \in SUBSET Requests
    BY DEF Holders, IsManager
<1>2. IsFiniteSet(Holders(k, p))
    BY <1>1, KvConfig, FS_Subset
<1>. QED
    BY <1>2, FS_CardinalityType

\* What a count of zero or one says about the holders.
LEMMA HoldersCounted ==
    ASSUME NEW k, IsManager(k), Accounted(k), NEW p \in Pages
    PROVE  /\ k.refs[p] = 0 <=> Holders(k, p) = {}
           /\ \A r \in Holders(k, p) : /\ k.refs[p] # 0
                                       /\ k.refs[p] = 1 => Holders(k, p) = {r}
<1>1. k.refs[p] = Cardinality(Holders(k, p)) /\ IsFiniteSet(Holders(k, p))
    BY HoldersFinite DEF Accounted
<1>2. k.refs[p] = 0 <=> Holders(k, p) = {}
    BY <1>1, FS_EmptySet
<1>3. k.refs[p] = 1 => \E x : Holders(k, p) = {x}
    BY <1>1, FS_Singleton, Zenon
<1>. QED
    BY <1>2, <1>3

-----------------------------------------------------------------------------
(* Appending pages *)

\* allocate_page hands out pages nobody holds, each once.
LEMMA AllocationsFacts ==
    ASSUME NEW k, IsManager(k), NEW n \in Nat, NEW t \in Allocations(k, n)
    PROVE  /\ t \in Seq(Pages) /\ Len(t) = n /\ Once(t)
           /\ \A i \in DOMAIN t : t[i] \in k.free \cup CachedPages(k)
<1>. DEFINE available == k.free \cup CachedPages(k)
<1>1. available \subseteq Pages
    BY DEF CachedPages, IsManager
<1>2. \A p \in available : AllocationOrder(k, p) \in Int
    <2>. TAKE p \in available
    <2>1. CASE p \in k.free
        BY <2>1, <1>1 DEF AllocationOrder, Pages
    <2>2. CASE p \notin k.free
        <3>. DEFINE e == CHOOSE x \in k.evictable : x[2] = p
        <3>1. e \in k.evictable
            BY <2>2 DEF CachedPages
        <3>2. e[1] \in Nat
            BY <3>1 DEF IsManager
        <3>. QED
            BY <2>2, <3>2, KvConfig DEF AllocationOrder
    <2>. QED
        BY <2>1, <2>2
<1>3. /\ t \in [1 .. n -> available]
      /\ \A i, j \in 1 .. n : i < j => AllocationOrder(k, t[i]) < AllocationOrder(k, t[j])
    BY DEF Allocations
<1>4. t \in Seq(Pages) /\ Len(t) = n /\ DOMAIN t = 1 .. n
    BY <1>1, <1>3
<1>5. ASSUME NEW i \in 1 .. n, NEW j \in 1 .. n, i < j PROVE t[i] # t[j]
    BY <1>2, <1>3, <1>5
<1>. QED
    BY <1>3, <1>4, <1>5 DEF Once

LEMMA AllocateFields ==
    ASSUME NEW k, IsManager(k), NEW t \in Seq(Pages)
    PROVE  LET a == Allocate(k, t) IN
           /\ a.free = k.free \ Elements(t)
           /\ CachedPages(a) = CachedPages(k) \ Elements(t)
           /\ a.blocks = Unblocked(k, Elements(t) \cap CachedPages(k))
           /\ a.refs = [p \in Pages |-> IF p \in Elements(t) THEN 1 ELSE k.refs[p]]
           /\ a.caching = k.caching /\ a.seqs = k.seqs
           /\ IsManager(a)
<1>. DEFINE W == Without(k.evictable, Elements(t))
            a == Allocate(k, t)
<1>1. W \in SUBSET (Nat \X Pages) /\ IsFiniteSet(W)
    <2>1. W \in SUBSET k.evictable
        BY DEF Without
    <2>. QED
        BY <2>1, FS_Subset DEF IsManager
<1>2. {e[2] : e \in W} = CachedPages(k) \ Elements(t)
    BY DEF Without, CachedPages
<1>3. /\ Renumbered(W) \in SUBSET (Nat \X Pages) /\ IsFiniteSet(Renumbered(W))
      /\ {e[2] : e \in Renumbered(W)} = CachedPages(k) \ Elements(t)
    BY <1>1, <1>2, RenumberedFacts, Zenon
<1>4. /\ a.free = k.free \ Elements(t)
      /\ a.evictable = Renumbered(W)
      /\ a.blocks = Unblocked(k, Elements(t) \cap CachedPages(k))
      /\ a.refs = [p \in Pages |-> IF p \in Elements(t) THEN 1 ELSE k.refs[p]]
      /\ a.caching = k.caching /\ a.seqs = k.seqs
      /\ DOMAIN a = {"free", "refs", "blocks", "evictable", "caching", "seqs"}
    BY DEF Allocate, IsManager
<1>5. /\ k.free \ Elements(t) \in SUBSET Pages /\ k.caching \in BOOLEAN
      /\ [p \in Pages |-> IF p \in Elements(t) THEN 1 ELSE k.refs[p]] \in [Pages -> Nat]
    BY DEF IsManager
<1>6. a \in [free : SUBSET Pages, refs : [Pages -> Nat], blocks : {a.blocks},
             evictable : SUBSET (Nat \X Pages), caching : BOOLEAN, seqs : {a.seqs}]
    <2>1. a = [k EXCEPT !.free = a.free, !.evictable = a.evictable, !.blocks = a.blocks,
                        !.refs = a.refs]
        BY <1>4 DEF Allocate, IsManager
    <2>. HIDE DEF a
    <2>. QED
        BY <2>1, <1>3, <1>4, <1>5, Zenon DEF IsManager
<1>7. IsManager(a)
    BY <1>3, <1>4, <1>6 DEF IsManager
<1>. QED
    BY <1>3, <1>4, <1>7 DEF CachedPages

LEMMA WithSequenceFields ==
    ASSUME NEW a, IsManager(a), NEW r \in Requests, NEW s, IsSequence(s)
    PROVE  LET k == WithSequence(a, r, s) IN
           /\ IsManager(k)
           /\ k.free = a.free /\ k.refs = a.refs /\ k.blocks = a.blocks
           /\ CachedPages(k) = CachedPages(a) /\ k.caching = a.caching
           /\ DOMAIN k.seqs = DOMAIN a.seqs \cup {r}
           /\ k.seqs[r] = s
           /\ \A q \in DOMAIN a.seqs \ {r} : k.seqs[q] = a.seqs[q]
<1>. DEFINE k == WithSequence(a, r, s)
            seqs == [q \in DOMAIN a.seqs \cup {r} |-> IF q = r THEN s ELSE a.seqs[q]]
<1>1. k = [a EXCEPT !.seqs = seqs]
    BY DEF WithSequence, IsManager
<1>2. /\ DOMAIN seqs = DOMAIN a.seqs \cup {r} /\ seqs[r] = s
      /\ \A q \in DOMAIN a.seqs \ {r} : seqs[q] = a.seqs[q]
    OBVIOUS
<1>. HIDE DEF seqs, k
<1>3. /\ k.free = a.free /\ k.refs = a.refs /\ k.blocks = a.blocks
      /\ k.evictable = a.evictable /\ k.caching = a.caching /\ k.seqs = seqs
      /\ k \in [free : SUBSET Pages, refs : [Pages -> Nat], blocks : {k.blocks},
                evictable : SUBSET (Nat \X Pages), caching : BOOLEAN, seqs : {k.seqs}]
    BY <1>1 DEF IsManager
<1>4. \A q \in DOMAIN seqs : IsSequence(seqs[q])
    BY <1>2 DEF IsManager
<1>5. IsManager(k)
    BY <1>2, <1>3, <1>4 DEF IsManager
<1>. QED
    BY <1>2, <1>3, <1>5 DEF CachedPages, k

LEMMA ConcatFacts ==
    ASSUME NEW u \in Seq(Pages), NEW t \in Seq(Pages)
    PROVE  /\ u \o t \in Seq(Pages)
           /\ Len(u \o t) = Len(u) + Len(t)
           /\ \A i \in DOMAIN u : i \in DOMAIN (u \o t) /\ (u \o t)[i] = u[i]
           /\ \A i \in DOMAIN t : Len(u) + i \in DOMAIN (u \o t) /\ (u \o t)[Len(u) + i] = t[i]
           /\ \A i \in DOMAIN (u \o t) : i \notin DOMAIN u =>
                i - Len(u) \in DOMAIN t /\ (u \o t)[i] = t[i - Len(u)]
           /\ Elements(u \o t) = Elements(u) \cup Elements(t)
<1>. DEFINE w == u \o t
<1>1. /\ w \in Seq(Pages) /\ Len(w) = Len(u) + Len(t)
      /\ Len(u) \in Nat /\ Len(t) \in Nat
      /\ DOMAIN u = 1 .. Len(u) /\ DOMAIN t = 1 .. Len(t) /\ DOMAIN w = 1 .. Len(u) + Len(t)
      /\ \A i \in 1 .. Len(u) + Len(t) : w[i] = IF i <= Len(u) THEN u[i] ELSE t[i - Len(u)]
    OBVIOUS
<1>. HIDE DEF w
<1>2. \A i \in DOMAIN u : i \in DOMAIN w /\ w[i] = u[i]
    BY <1>1
<1>3. \A i \in DOMAIN t : Len(u) + i \in DOMAIN w /\ w[Len(u) + i] = t[i]
    BY <1>1
<1>4. \A i \in DOMAIN w : i \notin DOMAIN u => i - Len(u) \in DOMAIN t /\ w[i] = t[i - Len(u)]
    BY <1>1
<1>5. Elements(w) = Elements(u) \cup Elements(t)
    <2>1. Elements(w) \subseteq Elements(u) \cup Elements(t)
        BY <1>2, <1>4 DEF Elements
    <2>2. Elements(u) \subseteq Elements(w) /\ Elements(t) \subseteq Elements(w)
        BY <1>2, <1>3 DEF Elements
    <2>. QED
        BY <2>1, <2>2
<1>. QED
    BY <1>1, <1>2, <1>3, <1>4, <1>5 DEF w

LEMMA ElementsFacts ==
    ASSUME NEW u \in Seq(Pages)
    PROVE  /\ Elements(u) \subseteq Pages
           /\ \A p \in Elements(u) : \E i \in DOMAIN u : u[i] = p
           /\ \A i \in DOMAIN u : u[i] \in Elements(u)
    BY DEF Elements

LEMMA OnceConcat ==
    ASSUME NEW u \in Seq(Pages), NEW t \in Seq(Pages), Once(u), Once(t),
           Elements(u) \cap Elements(t) = {}
    PROVE  Once(u \o t)
<1>. DEFINE w == u \o t
<1>1. /\ Len(u) \in Nat
      /\ \A i \in DOMAIN w : i \in Nat /\ (i \in DOMAIN u => w[i] = u[i])
      /\ \A i \in DOMAIN w : i \notin DOMAIN u =>
           i - Len(u) \in DOMAIN t /\ w[i] = t[i - Len(u)]
    BY ConcatFacts
<1>2. \A i \in DOMAIN u, j \in DOMAIN t : u[i] # t[j]
    BY DEF Elements
<1>. HIDE DEF w
<1>3. ASSUME NEW i \in DOMAIN w, NEW j \in DOMAIN w, w[i] = w[j] PROVE i = j
    <2>1. CASE i \in DOMAIN u /\ j \in DOMAIN u
        BY <1>1, <1>3, <2>1 DEF Once
    <2>2. CASE i \notin DOMAIN u /\ j \notin DOMAIN u
        <3>1. i - Len(u) = j - Len(u)
            BY <1>1, <1>3, <2>2 DEF Once
        <3>. QED
            BY <3>1, <1>1
    <2>3. CASE ~(i \in DOMAIN u <=> j \in DOMAIN u)
        BY <1>1, <1>2, <1>3, <2>3
    <2>. QED
        BY <2>1, <2>2, <2>3
<1>4. Once(w)
    BY <1>3 DEF Once
<1>. QED
    BY <1>4 DEF w

\* Pages that nobody holds are added to the table of r.
LEMMA Grown ==
    ASSUME NEW k, KvInv(k), NEW r \in DOMAIN k.seqs, NEW n \in Nat, NEW t \in Allocations(k, n),
           NEW s, IsSequence(s), s.pages = k.seqs[r].pages \o t,
           s.committed = k.seqs[r].committed,
           Len(s.pages) >= PagesFor(s.committed + s.count),
           s.count > 0 => s.previous \in PagesFor(s.committed) .. Len(s.pages)
    PROVE  KvInv(WithSequence(Allocate(k, t), r, s))
<1>. DEFINE a == Allocate(k, t)
            b == WithSequence(a, r, s)
            old == k.seqs[r].pages
            E == Elements(t)
<1>1. /\ IsManager(k) /\ Accounted(k) /\ Shared(k) /\ r \in Requests
      /\ \A q \in DOMAIN k.seqs : Covered(k.seqs[q]) /\ IsSequence(k.seqs[q])
    BY DEF KvInv, IsManager
<1>2. /\ t \in Seq(Pages) /\ Len(t) = n /\ Once(t)
      /\ \A i \in DOMAIN t : t[i] \in k.free \cup CachedPages(k)
    BY <1>1, AllocationsFacts
<1>3. /\ a.free = k.free \ E
      /\ CachedPages(a) = CachedPages(k) \ E
      /\ a.blocks = Unblocked(k, E \cap CachedPages(k))
      /\ a.refs = [p \in Pages |-> IF p \in E THEN 1 ELSE k.refs[p]]
      /\ a.seqs = k.seqs
      /\ IsManager(a)
    BY <1>1, <1>2, AllocateFields, ZenonT(30)
<1>. HIDE DEF a
<1>4a. /\ IsManager(b)
       /\ b.free = a.free /\ b.refs = a.refs /\ b.blocks = a.blocks
       /\ CachedPages(b) = CachedPages(a)
       /\ DOMAIN b.seqs = DOMAIN a.seqs \cup {r}
       /\ b.seqs[r] = s
       /\ \A q \in DOMAIN a.seqs \ {r} : b.seqs[q] = a.seqs[q]
    BY <1>1, <1>3, WithSequenceFields
<1>. HIDE DEF b
<1>4. /\ IsManager(b)
      /\ b.free = k.free \ E /\ CachedPages(b) = CachedPages(k) \ E
      /\ b.blocks = Unblocked(k, E \cap CachedPages(k))
      /\ b.refs = [p \in Pages |-> IF p \in E THEN 1 ELSE k.refs[p]]
      /\ DOMAIN b.seqs = DOMAIN k.seqs
      /\ b.seqs[r] = s
      /\ \A q \in DOMAIN k.seqs \ {r} : b.seqs[q] = k.seqs[q]
    BY <1>3, <1>4a
<1>5. E \subseteq Pages /\ \A p \in E : k.refs[p] = 0 /\ Holders(k, p) = {}
    <2>1. \A p \in E : p \in Pages /\ p \in k.free \cup CachedPages(k)
        BY <1>2 DEF Elements
    <2>2. \A p \in E : k.refs[p] = 0
        BY <2>1, <1>1 DEF Accounted
    <2>. HIDE DEF E
    <2>. QED
        BY <2>1, <2>2, <1>1, HoldersCounted
<1>6. old \in Seq(Pages)
    BY <1>1 DEF IsSequence
<1>7. Elements(s.pages) = Elements(old) \cup E
    BY <1>2, <1>6, ConcatFacts
<1>8. \A p \in Pages : Holders(b, p) = IF p \in E THEN {r} ELSE Holders(k, p)
    <2>. TAKE p \in Pages
    <2>. HIDE DEF E
    <2>1. \A q \in DOMAIN k.seqs \ {r} : q \in Holders(b, p) <=> q \in Holders(k, p)
        BY <1>4 DEF Holders
    <2>2. r \in Holders(b, p) <=> p \in E \/ r \in Holders(k, p)
        BY <1>4, <1>7, Zenon DEF Holders
    <2>3. Holders(b, p) \subseteq DOMAIN k.seqs /\ Holders(k, p) \subseteq DOMAIN k.seqs
        BY <1>4 DEF Holders
    <2>4. CASE p \in E
        BY <2>1, <2>2, <2>3, <2>4, <1>5
    <2>5. CASE p \notin E
        <3>1. \A q : q \in Holders(b, p) <=> q \in Holders(k, p)
            BY <2>1, <2>2, <2>3, <2>5
        <3>2. Holders(b, p) = Holders(k, p)
            BY <3>1, Zenon
        <3>. QED
            BY <3>2, <2>5
    <2>. QED
        BY <2>4, <2>5
<1>9. \A p \in Pages : b.blocks[p] = IF p \in E THEN NoBlock ELSE k.blocks[p]
    BY <1>1, <1>2, <1>4 DEF Unblocked, Elements, Accounted
<1>10. Accounted(b)
    <2>. HIDE DEF E
    <2>1. ASSUME NEW p \in Pages PROVE b.refs[p] = Cardinality(Holders(b, p))
        <3>1. CASE p \in E
            BY <3>1, <1>4, <1>8, FS_Singleton, Zenon
        <3>2. CASE p \notin E
            BY <3>2, <1>1, <1>4, <1>8 DEF Accounted
        <3>. QED
            BY <3>1, <3>2
    <2>2. ASSUME NEW p \in Pages PROVE b.refs[p] = 0 <=> p \in b.free \cup CachedPages(b)
        BY <1>1, <1>4 DEF Accounted
    <2>. QED
        BY <2>1, <2>2, <1>1, <1>4, <1>9, Zenon DEF Accounted
<1>11. Once(s.pages)
    <2>1. \A i \in DOMAIN old : old[i] \in Pages /\ r \in Holders(k, old[i])
        BY <1>6 DEF Holders, Elements
    <2>2. \A i \in DOMAIN old : old[i] \notin E
        BY <2>1, <1>5
    <2>3. Elements(old) \cap E = {}
        BY <2>2 DEF Elements
    <2>4. Once(old)
        BY <1>1 DEF Covered
    <2>. QED
        BY <2>3, <2>4, <1>2, <1>6, OnceConcat
<1>12. \A q \in DOMAIN b.seqs : Covered(b.seqs[q])
    BY <1>1, <1>4, <1>11, ZenonT(30) DEF Covered
<1>13. Shared(b)
    <2>. HIDE DEF E
    <2>1. ASSUME NEW q \in DOMAIN b.seqs, NEW i \in DOMAIN b.seqs[q].pages,
                 b.blocks[b.seqs[q].pages[i]] # NoBlock
          PROVE  i <= b.seqs[q].committed \div BlockSize
        <3>. SUFFICES /\ i \in DOMAIN k.seqs[q].pages /\ q \in DOMAIN k.seqs
                      /\ b.seqs[q].committed = k.seqs[q].committed
                      /\ k.blocks[k.seqs[q].pages[i]] # NoBlock
            BY <1>1 DEF Shared
        <3>1. CASE q # r
            <4>1. b.seqs[q] = k.seqs[q] /\ k.seqs[q].pages \in Seq(Pages)
                BY <1>1, <1>4, <3>1 DEF IsSequence
            <4>2. k.seqs[q].pages[i] \in Pages
                BY <4>1, SMTT(30)
            <4>. QED
                BY <4>1, <4>2, <2>1, <1>4, <1>9, Zenon
        <3>2. CASE q = r
            <4>1. /\ i \in DOMAIN (old \o t) /\ b.blocks[(old \o t)[i]] # NoBlock
                  /\ \A j \in DOMAIN t : t[j] \in E
                BY <2>1, <3>2, <1>4, Zenon DEF Elements, E
            <4>2. i \in DOMAIN old /\ (old \o t)[i] = old[i]
                <5>1. /\ \A j \in DOMAIN old : (old \o t)[j] = old[j]
                      /\ \A j \in DOMAIN (old \o t) : j \notin DOMAIN old =>
                           j - Len(old) \in DOMAIN t /\ (old \o t)[j] = t[j - Len(old)]
                    BY <1>2, <1>6, ConcatFacts, Zenon
                <5>2. (old \o t)[i] \notin E
                    BY <4>1, <1>5, <1>9, Zenon
                <5>. QED
                    BY <4>1, <5>1, <5>2, Zenon
            <4>3. old[i] \in Pages /\ old[i] \notin E
                BY <4>1, <4>2, <1>6, <1>9, SMTT(30)
            <4>4. k.blocks[old[i]] # NoBlock
                BY <4>1, <4>2, <4>3, <1>9, ZenonT(30)
            <4>. QED
                BY <4>2, <4>4, <3>2, <1>4
        <3>. QED
            BY <3>1, <3>2, SMTT(30)
    <2>2. \A p \in Pages : \A x, y \in Holders(b, p) : x # y => b.blocks[p] # NoBlock
        BY <1>1, <1>8, <1>9 DEF Shared
    <2>. QED
        BY <2>1, <2>2, SMTT(30) DEF Shared
<1>. QED
    BY <1>4, <1>10, <1>12, <1>13 DEF KvInv, b, a

\* begin_append.
LEMMA BeginKeeps ==
    ASSUME NEW k, KvInv(k), NEW r \in DOMAIN k.seqs, NEW n \in Nat, CanAppend(k, r, n),
           NEW t \in Allocations(k, Additional(k, r, k.seqs[r].committed + n))
    PROVE  KvInv(BeginAppend(k, r, n, t))
<1>. DEFINE s == k.seqs[r]
            new == [s EXCEPT !.pages = @ \o t, !.count = n, !.previous = Len(s.pages)]
            m == Additional(k, r, s.committed + n)
<1>1. IsManager(k) /\ IsSequence(s) /\ Covered(s) /\ s.count = 0
    BY DEF KvInv, IsManager, CanAppend
<1>2. s.committed \in Nat /\ s.pages \in Seq(Pages) /\ Len(s.pages) \in Nat
    BY <1>1 DEF IsSequence
<1>3. PagesFor(s.committed) \in Nat /\ PagesFor(s.committed + n) \in Nat
    <2>1. s.committed + n \in Nat
        BY <1>2
    <2>. QED
        BY <1>2, <2>1, PagesForNat, Zenon
<1>4. m \in Nat /\ Len(s.pages) + m >= PagesFor(s.committed + n)
    BY <1>2, <1>3 DEF Additional
<1>5. t \in Seq(Pages) /\ Len(t) = m
    BY <1>1, <1>4, AllocationsFacts
<1>6. /\ IsSequence(new) /\ new.pages = s.pages \o t /\ new.committed = s.committed
      /\ new.count = n /\ new.previous = Len(s.pages)
    BY <1>1, <1>2, <1>5, ConcatFacts, Zenon DEF IsSequence
<1>7. Len(new.pages) = Len(s.pages) + m
    <2>1. Len(s.pages \o t) = Len(s.pages) + Len(t)
        BY <1>2, <1>5, ConcatFacts, Zenon
    <2>. HIDE DEF new
    <2>. QED
        BY <2>1, <1>5, <1>6
<1>8. PagesFor(s.committed) <= Len(s.pages)
    BY <1>1, <1>2 DEF Covered
<1>. HIDE DEF new, m
<1>9. KvInv(WithSequence(Allocate(k, t), r, new))
    <2>1. Len(new.pages) >= PagesFor(new.committed + new.count)
        BY <1>4, <1>6, <1>7
    <2>2. new.previous \in PagesFor(new.committed) .. Len(new.pages)
        BY <1>2, <1>3, <1>4, <1>6, <1>7, <1>8
    <2>. QED
        BY <2>1, <2>2, <1>4, <1>6, Grown, Zenon DEF m
<1>. QED
    BY <1>9 DEF BeginAppend, new

\* extend_append.
LEMMA ExtendKeeps ==
    ASSUME NEW k, KvInv(k), NEW r \in DOMAIN k.seqs, NEW n \in Nat, CanExtend(k, r, n),
           NEW t \in Allocations(k, Additional(k, r, k.seqs[r].committed + k.seqs[r].count + n))
    PROVE  KvInv(ExtendAppend(k, r, n, t))
<1>. DEFINE s == k.seqs[r]
            new == [s EXCEPT !.pages = @ \o t, !.count = @ + n]
            m == Additional(k, r, s.committed + s.count + n)
<1>1. IsManager(k) /\ IsSequence(s) /\ Covered(s) /\ s.count > 0
    BY DEF KvInv, IsManager, CanExtend
<1>2. /\ s.committed \in Nat /\ s.count \in Nat /\ s.previous \in Nat
      /\ s.pages \in Seq(Pages) /\ Len(s.pages) \in Nat
    BY <1>1, SMTT(30) DEF IsSequence
<1>3. PagesFor(s.committed) \in Nat /\ PagesFor(s.committed + s.count + n) \in Nat
    <2>1. s.committed + s.count + n \in Nat
        BY <1>2, SMTT(30)
    <2>. QED
        BY <1>2, <2>1, PagesForNat
<1>4. m \in Nat /\ Len(s.pages) + m >= PagesFor(s.committed + s.count + n)
    BY <1>2, <1>3, SMTT(30) DEF Additional
<1>5. t \in Seq(Pages) /\ Len(t) = m
    BY <1>1, <1>4, AllocationsFacts, Zenon
<1>6. /\ IsSequence(new) /\ new.pages = s.pages \o t /\ new.committed = s.committed
      /\ new.count = s.count + n /\ new.previous = s.previous
    <2>1. s.pages \o t \in Seq(Pages) /\ s.count + n \in Nat
        BY <1>2, <1>5, ConcatFacts
    <2>. QED
        BY <1>1, <2>1, Zenon DEF IsSequence
<1>7. Len(new.pages) = Len(s.pages) + m
    <2>1. Len(s.pages \o t) = Len(s.pages) + Len(t)
        BY <1>2, <1>5, ConcatFacts, Zenon
    <2>. HIDE DEF new
    <2>. QED
        BY <2>1, <1>5, <1>6
<1>8. s.previous \in PagesFor(s.committed) .. Len(s.pages)
    BY <1>1 DEF Covered
<1>. HIDE DEF new, m
<1>9. KvInv(WithSequence(Allocate(k, t), r, new))
    <2>1. Len(new.pages) >= PagesFor(new.committed + new.count)
        <3>1. s.committed + (s.count + n) = s.committed + s.count + n
            BY <1>2, SMTT(30)
        <3>. QED
            BY <3>1, <1>4, <1>6, <1>7
    <2>2. new.previous \in PagesFor(new.committed) .. Len(new.pages)
        BY <1>2, <1>3, <1>4, <1>6, <1>7, <1>8, SMTT(30)
    <2>. QED
        BY <2>1, <2>2, <1>4, <1>6, Grown, Zenon DEF m
<1>. QED
    BY <1>9 DEF ExtendAppend, new

-----------------------------------------------------------------------------
(* Releasing pages *)

\* Pages that release_page keeps for the prefix cache, and those it frees.
Kept(k, R) == {p \in Unreferenced(k, R) : k.caching /\ k.blocks[p] # NoBlock}
Freed(k, R) == Unreferenced(k, R) \ Kept(k, R)
Decremented(k, R) == [p \in Pages |-> IF p \in Elements(R) THEN k.refs[p] - 1 ELSE k.refs[p]]

LEMMA ReleaseFields ==
    ASSUME NEW k, IsManager(k), NEW R \in Seq(Pages), \A p \in Elements(R) : k.refs[p] # 0
    PROVE  LET c == Release(k, R) IN
           /\ IsManager(c)
           /\ c.free = k.free \cup Freed(k, R)
           /\ CachedPages(c) = CachedPages(k) \cup Kept(k, R)
           /\ c.blocks = Unblocked(k, Freed(k, R))
           /\ c.refs = Decremented(k, R)
           /\ c.seqs = k.seqs
<1>. DEFINE c == Release(k, R)
            position(p) == CHOOSE i \in DOMAIN R : R[i] = p
            tick(p) == <<NumPages + position(p), p>>
            C == Kept(k, R)
            ticks == {tick(p) : p \in C}
            E == k.evictable \cup ticks
            refs == Decremented(k, R)
<1>1. Elements(R) \in SUBSET Pages /\ C \in SUBSET Pages /\ Freed(k, R) \in SUBSET Pages
    BY DEF Elements, Kept, Freed, Unreferenced
<1>2. \A p \in C : position(p) \in Nat
    <2>. TAKE p \in C
    <2>1. \E i \in DOMAIN R : R[i] = p
        BY DEF Kept, Unreferenced, Elements
    <2>2. position(p) \in DOMAIN R
        BY <2>1
    <2>. QED
        BY <2>2
<1>. HIDE DEF position
<1>3. \A p \in C : tick(p) \in Nat \X Pages /\ tick(p)[2] = p
    BY <1>1, <1>2, KvConfig
<1>. HIDE DEF tick
<1>4. IsFiniteSet(Pages) /\ IsFiniteSet(C)
    <2>1. IsFiniteSet(Pages)
        BY FS_Interval, KvConfig DEF Pages
    <2>. QED
        BY <1>1, <2>1, FS_Subset
<1>5. IsFiniteSet(ticks)
    <2>. DEFINE f == [p \in C |-> tick(p)]
    <2>1. f \in Surjection(C, ticks)
        BY DEF Surjection
    <2>. QED
        BY <2>1, <1>4, FS_Surjection
<1>6. E \in SUBSET (Nat \X Pages) /\ IsFiniteSet(E)
    <2>1. ticks \in SUBSET (Nat \X Pages) /\ k.evictable \in SUBSET (Nat \X Pages)
        BY <1>3 DEF IsManager
    <2>2. IsFiniteSet(k.evictable \cup ticks)
        BY <1>5, FS_Union, Zenon DEF IsManager
    <2>. QED
        BY <2>1, <2>2
<1>7. {e[2] : e \in E} = CachedPages(k) \cup C
    BY <1>3 DEF CachedPages
<1>8. /\ Renumbered(E) \in SUBSET (Nat \X Pages) /\ IsFiniteSet(Renumbered(E))
      /\ {e[2] : e \in Renumbered(E)} = CachedPages(k) \cup C
    BY <1>6, <1>7, RenumberedFacts, Zenon
<1>9. refs \in [Pages -> Nat]
    BY <1>1 DEF IsManager, Decremented
<1>10. c = [k EXCEPT !.refs = refs, !.free = @ \cup Freed(k, R),
                     !.evictable = Renumbered(E), !.blocks = Unblocked(k, Freed(k, R))]
    BY DEF Release, Kept, Freed, Decremented, tick, position, IsManager
<1>. HIDE DEF c, refs, E, C
<1>11. /\ c.free = k.free \cup Freed(k, R) /\ c.evictable = Renumbered(E)
       /\ c.blocks = Unblocked(k, Freed(k, R)) /\ c.refs = refs
       /\ c.caching = k.caching /\ c.seqs = k.seqs
       /\ c \in [free : SUBSET Pages, refs : [Pages -> Nat], blocks : {c.blocks},
                 evictable : SUBSET (Nat \X Pages), caching : BOOLEAN, seqs : {c.seqs}]
    BY <1>1, <1>8, <1>9, <1>10, Zenon DEF IsManager
<1>12. IsManager(c)
    BY <1>8, <1>11 DEF IsManager
<1>. QED
    BY <1>8, <1>11, <1>12 DEF CachedPages, c, refs, C

GivenUp(k, b, r, R) ==
    \A p \in Pages : Holders(b, p) = IF p \in Elements(R) THEN Holders(k, p) \ {r}
                                                          ELSE Holders(k, p)

\* The holder r gives up the pages of R: what is true of a manager b that results.
LEMMA ReleasedFacts ==
    ASSUME NEW k, KvInv(k), NEW r \in DOMAIN k.seqs, NEW R \in Seq(Pages),
           Elements(R) \subseteq Elements(k.seqs[r].pages),
           NEW b, b.free = k.free \cup Freed(k, R),
           CachedPages(b) = CachedPages(k) \cup Kept(k, R),
           b.blocks = Unblocked(k, Freed(k, R)),
           b.refs = Decremented(k, R),
           GivenUp(k, b, r, R)
    PROVE  /\ Accounted(b)
           /\ \A p \in Pages : b.blocks[p] = k.blocks[p] \/ Holders(b, p) = {}
           /\ \A p \in Pages : b.blocks[p] # NoBlock => k.blocks[p] # NoBlock
<1>1. IsManager(k) /\ Accounted(k)
    BY DEF KvInv
<1>2. \A p \in Elements(R) : /\ p \in Pages /\ r \in Holders(k, p) /\ k.refs[p] # 0
                             /\ k.refs[p] = 1 => Holders(k, p) = {r}
    <2>1. \A p \in Elements(R) : p \in Pages /\ r \in Holders(k, p)
        BY ElementsFacts DEF Holders
    <2>. QED
        BY <2>1, <1>1, HoldersCounted
<1>3. k.refs \in [Pages -> Nat]
    BY <1>1 DEF IsManager
<1>4. \A p \in Pages : /\ p \in Freed(k, R) <=> /\ p \in Elements(R) /\ k.refs[p] = 1
                                                /\ ~(k.caching /\ k.blocks[p] # NoBlock)
                       /\ p \in Kept(k, R) <=> /\ p \in Elements(R) /\ k.refs[p] = 1
                                               /\ k.caching /\ k.blocks[p] # NoBlock
    BY DEF Freed, Kept, Unreferenced
<1>5. \A p \in Pages : b.blocks[p] = IF p \in Freed(k, R) THEN NoBlock ELSE k.blocks[p]
    BY DEF Unblocked
<1>6. Freed(k, R) \subseteq Pages /\ Kept(k, R) \subseteq Pages
    BY <1>2 DEF Freed, Kept, Unreferenced
<1>7. ASSUME NEW p \in Pages PROVE b.refs[p] = Cardinality(Holders(b, p))
    <2>1. CASE p \in Elements(R)
        <3>1. IsFiniteSet(Holders(k, p)) /\ r \in Holders(k, p)
            BY <1>1, <1>2, <2>1, HoldersFinite, Zenon
        <3>2. Cardinality(Holders(k, p) \ {r}) = Cardinality(Holders(k, p)) - 1
            BY <3>1, FS_RemoveElement, Zenon
        <3>3. b.refs[p] = k.refs[p] - 1 /\ Holders(b, p) = Holders(k, p) \ {r}
            BY <2>1 DEF Decremented, GivenUp
        <3>. QED
            BY <3>2, <3>3, <1>1, Zenon DEF Accounted
    <2>2. CASE p \notin Elements(R)
        <3>1. b.refs[p] = k.refs[p] /\ Holders(b, p) = Holders(k, p)
            BY <2>2 DEF Decremented, GivenUp
        <3>. QED
            BY <3>1, <1>1 DEF Accounted
    <2>. QED
        BY <2>1, <2>2, Zenon
<1>8. ASSUME NEW p \in Pages
      PROVE  /\ b.refs[p] = 0 <=> p \in b.free \cup CachedPages(b)
             /\ p \in b.free => b.blocks[p] = NoBlock
             /\ ~(p \in b.free /\ p \in CachedPages(b))
    <2>0. /\ k.refs[p] = 0 <=> p \in k.free \cup CachedPages(k)
          /\ p \in k.free => k.blocks[p] = NoBlock
          /\ ~(p \in k.free /\ p \in CachedPages(k))
        BY <1>1, Zenon DEF Accounted
    <2>1. CASE p \in Elements(R)
        <3>1. b.refs[p] = k.refs[p] - 1 /\ k.refs[p] \in Nat /\ k.refs[p] # 0
            BY <2>1, <1>2, <1>3, Zenon DEF Decremented
        <3>2. p \notin k.free /\ p \notin CachedPages(k)
            BY <3>1, <2>0, Zenon
        <3>. QED
            BY <2>1, <3>1, <3>2, <1>4, <1>5, SMTT(30)
    <2>2. CASE p \notin Elements(R)
        <3>1. b.refs[p] = k.refs[p] /\ p \notin Freed(k, R) /\ p \notin Kept(k, R)
            BY <2>2, <1>4, Zenon DEF Decremented
        <3>. QED
            BY <3>1, <2>0, <1>5, Zenon
    <2>. QED
        BY <2>1, <2>2, Zenon
<1>9. b.free \cap CachedPages(b) = {}
    <2>1. b.free \subseteq Pages
        BY <1>1, <1>6, Zenon DEF IsManager
    <2>. QED
        BY <2>1, <1>8
<1>10. \A p \in Pages : b.blocks[p] = k.blocks[p] \/ Holders(b, p) = {}
    <2>1. ASSUME NEW p \in Freed(k, R) PROVE Holders(b, p) = {}
        <3>1. p \in Pages /\ p \in Elements(R) /\ k.refs[p] = 1
            BY <2>1, <1>4, <1>6, Zenon
        <3>2. Holders(k, p) = {r} /\ Holders(b, p) = Holders(k, p) \ {r}
            BY <3>1, <1>2, Zenon DEF GivenUp
        <3>. QED
            BY <3>2
    <2>. QED
        BY <2>1, <1>5, Zenon
<1>. QED
    BY <1>5, <1>7, <1>8, <1>9, <1>10 DEF Accounted

\* The table of r is cut to its first n pages.
LEMMA Shrunk ==
    ASSUME NEW k, KvInv(k), NEW r \in DOMAIN k.seqs, NEW n \in 0 .. Len(k.seqs[r].pages),
           NEW s, IsSequence(s), s.pages = SubSeq(k.seqs[r].pages, 1, n), s.count = 0,
           s.committed >= k.seqs[r].committed, n >= PagesFor(s.committed)
    PROVE  KvInv(WithSequence(Release(k, SubSeq(k.seqs[r].pages, n + 1, Len(k.seqs[r].pages))),
                              r, s))
<1>. DEFINE old == k.seqs[r].pages
            R == SubSeq(old, n + 1, Len(old))
            c == Release(k, R)
            b == WithSequence(c, r, s)
<1>1. /\ IsManager(k) /\ Accounted(k) /\ Shared(k) /\ r \in Requests
      /\ \A q \in DOMAIN k.seqs : Covered(k.seqs[q]) /\ IsSequence(k.seqs[q])
    BY DEF KvInv, IsManager
<1>2. /\ old \in Seq(Pages) /\ Len(old) \in Nat /\ n \in Nat /\ n <= Len(old) /\ Once(old)
      /\ DOMAIN old = 1 .. Len(old)
    BY <1>1, SMTT(30) DEF IsSequence, Covered
<1>3. /\ s.pages \in Seq(Pages) /\ Len(s.pages) = n /\ DOMAIN s.pages = 1 .. n
      /\ \A i \in 1 .. n : s.pages[i] = old[i]
    BY <1>2
<1>4. /\ R \in Seq(Pages) /\ Len(R) = Len(old) - n /\ DOMAIN R = 1 .. Len(old) - n
      /\ \A i \in 1 .. Len(old) - n : R[i] = old[n + i]
    BY <1>2, SMTT(30)
<1>. HIDE DEF R
<1>5. \A p : p \in Elements(old) <=> p \in Elements(s.pages) \/ p \in Elements(R)
    <2>1. \A i \in 1 .. Len(old) : i \in 1 .. n \/ (i - n \in 1 .. Len(old) - n /\ n + (i - n) = i)
        BY <1>2, SMTT(30)
    <2>2. ASSUME NEW i \in DOMAIN old PROVE old[i] \in Elements(s.pages) \/ old[i] \in Elements(R)
        <3>1. CASE i \in 1 .. n
            BY <3>1, <1>3, ElementsFacts, Zenon
        <3>2. CASE i \notin 1 .. n
            <4>1. i - n \in DOMAIN R /\ R[i - n] = old[n + (i - n)] /\ n + (i - n) = i
                BY <3>2, <1>2, <1>4, <2>1, Zenon
            <4>. QED
                BY <4>1, <1>4, ElementsFacts
        <3>. QED
            BY <3>1, <3>2, Zenon
    <2>3. Elements(s.pages) \subseteq Elements(old)
        BY <1>2, <1>3 DEF Elements
    <2>4. \A i \in 1 .. Len(old) - n : n + i \in 1 .. Len(old)
        BY <1>2, SMTT(30)
    <2>5. Elements(R) \subseteq Elements(old)
        BY <1>2, <1>4, <2>4, Zenon DEF Elements
    <2>6. \A p \in Elements(old) : \E i \in DOMAIN old : p = old[i]
        BY DEF Elements
    <2>. QED
        BY <2>2, <2>3, <2>5, <2>6, Zenon
<1>6. \A p \in Elements(R) : p \notin Elements(s.pages)
    <2>1. ASSUME NEW i \in 1 .. n, NEW j \in 1 .. Len(old) - n PROVE s.pages[i] # R[j]
        <3>1. i \in DOMAIN old /\ n + j \in DOMAIN old /\ i # n + j
            BY <1>2
        <3>. QED
            BY <3>1, <1>2, <1>3, <1>4, Zenon DEF Once
    <2>. SUFFICES ASSUME NEW p \in Elements(R), p \in Elements(s.pages) PROVE FALSE
        OBVIOUS
    <2>2. PICK j \in DOMAIN R : R[j] = p
        BY <1>4, ElementsFacts
    <2>3. PICK i \in DOMAIN s.pages : s.pages[i] = p
        BY <1>3, ElementsFacts, Zenon
    <2>4. i \in 1 .. n /\ j \in 1 .. Len(old) - n
        BY <1>3, <1>4
    <2>. QED
        BY <2>1, <2>2, <2>3, <2>4
<1>7. \A p \in Elements(R) : p \in Pages /\ r \in Holders(k, p) /\ k.refs[p] # 0
    <2>1. \A p \in Elements(R) : p \in Pages /\ r \in Holders(k, p)
        BY <1>4, <1>5, ElementsFacts DEF Holders
    <2>. QED
        BY <2>1, <1>1, HoldersCounted
<1>8. /\ IsManager(c) /\ c.free = k.free \cup Freed(k, R)
      /\ CachedPages(c) = CachedPages(k) \cup Kept(k, R)
      /\ c.blocks = Unblocked(k, Freed(k, R))
      /\ c.refs = Decremented(k, R)
      /\ c.seqs = k.seqs
    <2>1. \A p \in Elements(R) : k.refs[p] # 0
        BY <1>7, Zenon
    <2>. QED
        BY <2>1, <1>1, <1>4, ReleaseFields, Zenon
<1>. HIDE DEF c
<1>9. /\ IsManager(b)
      /\ b.free = c.free /\ b.refs = c.refs /\ b.blocks = c.blocks
      /\ CachedPages(b) = CachedPages(c)
      /\ DOMAIN b.seqs = DOMAIN c.seqs \cup {r}
      /\ b.seqs[r] = s
      /\ \A q \in DOMAIN c.seqs \ {r} : b.seqs[q] = c.seqs[q]
    BY <1>1, <1>8, WithSequenceFields, SMTT(30)
<1>. HIDE DEF b
<1>10. /\ DOMAIN b.seqs = DOMAIN k.seqs /\ b.seqs[r] = s
       /\ \A q \in DOMAIN k.seqs \ {r} : b.seqs[q] = k.seqs[q]
    BY <1>8, <1>9, Zenon
<1>11. ASSUME NEW p \in Pages
       PROVE  Holders(b, p) = IF p \in Elements(R) THEN Holders(k, p) \ {r} ELSE Holders(k, p)
    <2>1. \A q \in DOMAIN k.seqs \ {r} : q \in Holders(b, p) <=> q \in Holders(k, p)
        BY <1>10 DEF Holders
    <2>2. r \in Holders(b, p) <=> r \in Holders(k, p) /\ p \notin Elements(R)
        BY <1>5, <1>6, <1>10, Zenon DEF Holders
    <2>3. Holders(b, p) \subseteq DOMAIN k.seqs /\ Holders(k, p) \subseteq DOMAIN k.seqs
        BY <1>10 DEF Holders
    <2>4. CASE p \in Elements(R)
        <3>1. \A q : q \in Holders(b, p) <=> q \in Holders(k, p) \ {r}
            BY <2>1, <2>2, <2>3, <2>4
        <3>2. Holders(b, p) = Holders(k, p) \ {r}
            BY <3>1
        <3>. QED
            BY <3>2, <2>4
    <2>5. CASE p \notin Elements(R)
        <3>1. \A q : q \in Holders(b, p) <=> q \in Holders(k, p)
            BY <2>1, <2>2, <2>3, <2>5, Zenon
        <3>2. Holders(b, p) = Holders(k, p)
            BY <3>1, Zenon
        <3>. QED
            BY <3>2, <2>5
    <2>. QED
        BY <2>4, <2>5
<1>12. /\ Accounted(b)
       /\ \A p \in Pages : b.blocks[p] = k.blocks[p] \/ Holders(b, p) = {}
       /\ \A p \in Pages : b.blocks[p] # NoBlock => k.blocks[p] # NoBlock
    <2>1. Elements(R) \subseteq Elements(old)
        BY <1>5, Zenon
    <2>2. /\ b.free = k.free \cup Freed(k, R)
          /\ CachedPages(b) = CachedPages(k) \cup Kept(k, R)
          /\ b.blocks = Unblocked(k, Freed(k, R))
          /\ b.refs = Decremented(k, R)
        BY <1>8, <1>9, Zenon
    <2>3. GivenUp(k, b, r, R)
        BY <1>11, Zenon DEF GivenUp
    <2>. QED
        BY <2>1, <2>2, <2>3, <1>4, ReleasedFacts, SMTT(30)
<1>13. \A q \in DOMAIN b.seqs : Covered(b.seqs[q])
    <2>1. Once(s.pages)
        <3>1. \A i \in 1 .. n : i \in DOMAIN old /\ s.pages[i] = old[i]
            BY <1>2, <1>3
        <3>2. \A i, j \in DOMAIN old : old[i] = old[j] => i = j
            BY <1>2 DEF Once
        <3>3. \A i, j \in 1 .. n : s.pages[i] = s.pages[j] => i = j
            BY <3>1, <3>2, Zenon
        <3>. QED
            BY <3>3, <1>3, Zenon DEF Once
    <2>2. s.committed + s.count = s.committed
        BY DEF IsSequence
    <2>3. Covered(s)
        BY <2>1, <2>2, <1>3 DEF Covered
    <2>. QED
        BY <2>3, <1>1, <1>10, Zenon
<1>14. Shared(b)
    <2>1. ASSUME NEW q \in DOMAIN b.seqs, NEW i \in DOMAIN b.seqs[q].pages,
                 b.blocks[b.seqs[q].pages[i]] # NoBlock
          PROVE  i <= b.seqs[q].committed \div BlockSize
        <3>1. CASE q # r
            <4>1. b.seqs[q] = k.seqs[q] /\ k.seqs[q].pages \in Seq(Pages) /\ q \in DOMAIN k.seqs
                BY <1>1, <1>10, <3>1, SMTT(30) DEF IsSequence
            <4>2. k.blocks[k.seqs[q].pages[i]] # NoBlock
                BY <4>1, <2>1, <1>12
            <4>. QED
                BY <4>1, <4>2, <1>1 DEF Shared
        <3>2. CASE q = r
            <4>1. i \in DOMAIN old /\ i \in Nat /\ old[i] \in Pages /\ s.pages[i] = old[i]
                BY <3>2, <1>2, <1>3, <1>10, SMTT(30)
            <4>2. k.blocks[old[i]] # NoBlock
                BY <4>1, <2>1, <3>2, <1>10, <1>12, Zenon
            <4>3. i <= k.seqs[r].committed \div BlockSize
                BY <4>1, <4>2, <1>1 DEF Shared
            <4>4. k.seqs[r].committed \in Nat /\ s.committed \in Nat
                BY <1>1 DEF IsSequence
            <4>5. k.seqs[r].committed \div BlockSize <= s.committed \div BlockSize
                BY <4>4, QuotientMonotone, Zenon
            <4>6. /\ k.seqs[r].committed \div BlockSize \in Nat
                  /\ s.committed \div BlockSize \in Nat
                BY <4>4, Quotient, Zenon
            <4>7. i <= s.committed \div BlockSize
                BY <4>1, <4>3, <4>5, <4>6
            <4>. QED
                BY <4>7, <3>2, <1>10
        <3>. QED
            BY <3>1, <3>2, SMTT(30)
    <2>2. ASSUME NEW p \in Pages, NEW x \in Holders(b, p), NEW y \in Holders(b, p), x # y
          PROVE  b.blocks[p] # NoBlock
        <3>1. x \in Holders(k, p) /\ y \in Holders(k, p)
            BY <1>11
        <3>2. b.blocks[p] = k.blocks[p]
            BY <1>12, Zenon
        <3>. QED
            BY <3>1, <3>2, <2>2, <1>1 DEF Shared
    <2>. QED
        BY <2>1, <2>2 DEF Shared
<1>15. KvInv(b)
    BY <1>9, <1>12, <1>13, <1>14 DEF KvInv
<1>. QED
    BY <1>15 DEF b, c, R

LEMMA ShortenedKeeps ==
    ASSUME NEW k, KvInv(k), NEW r \in DOMAIN k.seqs, NEW n \in 0 .. Len(k.seqs[r].pages),
           NEW committed \in Nat, committed >= k.seqs[r].committed, n >= PagesFor(committed)
    PROVE  KvInv(Shortened(k, r, n, committed))
<1>. DEFINE s == k.seqs[r]
            new == [s EXCEPT !.pages = SubSeq(@, 1, n), !.committed = committed, !.count = 0]
<1>1. IsSequence(s) /\ s.pages \in Seq(Pages)
    BY DEF KvInv, IsManager, IsSequence
<1>2. SubSeq(s.pages, 1, n) \in Seq(Pages)
    BY <1>1
<1>3. /\ IsSequence(new) /\ new.pages = SubSeq(s.pages, 1, n) /\ new.count = 0
      /\ new.committed = committed
    BY <1>1, <1>2, Zenon DEF IsSequence
<1>. HIDE DEF new
<1>4. KvInv(WithSequence(Release(k, SubSeq(s.pages, n + 1, Len(s.pages))), r, new))
    BY <1>3, Shrunk
<1>. QED
    BY <1>4 DEF Shortened, new

\* commit_append, commit_append_prefixes and commit_append_partial.
LEMMA CommitKeeps ==
    ASSUME NEW k, KvInv(k), NEW r \in DOMAIN k.seqs, NEW n \in 1 .. k.seqs[r].count
    PROVE  KvInv(CommitAppend(k, r, n))
<1>. DEFINE s == k.seqs[r]
            end == s.committed + n
<1>1. /\ Covered(s) /\ s.committed \in Nat /\ s.count \in Nat /\ n \in Nat
      /\ s.pages \in Seq(Pages) /\ Len(s.pages) \in Nat
    BY DEF KvInv, IsManager, IsSequence
<1>2. end \in Nat /\ s.committed + s.count \in Nat /\ end <= s.committed + s.count
    BY <1>1, SMTT(30)
<1>3. PagesFor(end) \in Nat /\ PagesFor(end) <= PagesFor(s.committed + s.count)
    BY <1>2, PagesForFacts
<1>. DEFINE all == PagesFor(s.committed + s.count)
<1>7. all \in Nat /\ all <= Len(s.pages) /\ PagesFor(end) <= all
    BY <1>1, <1>2, <1>3, PagesForNat DEF Covered
<1>4. PagesFor(end) \in 0 .. Len(s.pages)
    <2>. HIDE DEF all, end
    <2>. QED
        BY <1>1, <1>3, <1>7
<1>5. end >= s.committed /\ PagesFor(end) >= PagesFor(end)
    BY <1>1, <1>3
<1>. HIDE DEF end
<1>6. KvInv(Shortened(k, r, PagesFor(end), end))
    BY <1>2, <1>4, <1>5, ShortenedKeeps
<1>. QED
    BY <1>6 DEF CommitAppend, end

\* cancel_append.
LEMMA CancelKeeps ==
    ASSUME NEW k, KvInv(k), NEW r \in DOMAIN k.seqs, k.seqs[r].count > 0
    PROVE  KvInv(CancelAppend(k, r))
<1>. DEFINE s == k.seqs[r]
<1>1. /\ Covered(s) /\ s.committed \in Nat /\ s.previous \in Nat
      /\ s.pages \in Seq(Pages) /\ Len(s.pages) \in Nat
    BY DEF KvInv, IsManager, IsSequence
<1>2. s.previous \in PagesFor(s.committed) .. Len(s.pages) /\ PagesFor(s.committed) \in Nat
    BY <1>1, PagesForNat, Zenon DEF Covered
<1>3. s.previous \in 0 .. Len(s.pages) /\ s.previous >= PagesFor(s.committed)
      /\ s.committed >= s.committed
    BY <1>1, <1>2
<1>4. KvInv(Shortened(k, r, s.previous, s.committed))
    BY <1>1, <1>3, ShortenedKeeps
<1>. QED
    BY <1>4 DEF CancelAppend

\* remove_sequence.
LEMMA RemoveKeeps ==
    ASSUME NEW k, KvInv(k), NEW r \in DOMAIN k.seqs
    PROVE  KvInv(RemoveSequence(k, r))
<1>. DEFINE old == k.seqs[r].pages
            R == [i \in DOMAIN old |-> old[Len(old) + 1 - i]]
            c == Release(k, R)
            b == RemoveSequence(k, r)
            seqs == [q \in DOMAIN k.seqs \ {r} |-> k.seqs[q]]
<1>1. /\ IsManager(k) /\ Accounted(k) /\ Shared(k)
      /\ \A q \in DOMAIN k.seqs : Covered(k.seqs[q]) /\ IsSequence(k.seqs[q])
    BY DEF KvInv, IsManager
<1>2. old \in Seq(Pages) /\ Len(old) \in Nat /\ DOMAIN old = 1 .. Len(old)
    BY <1>1 DEF IsSequence
<1>3. \A i \in 1 .. Len(old) : Len(old) + 1 - i \in 1 .. Len(old)
                               /\ Len(old) + 1 - (Len(old) + 1 - i) = i
    BY <1>2
<1>4. R \in Seq(Pages) /\ DOMAIN R = DOMAIN old
    BY <1>2, <1>3
<1>5. \A p : p \in Elements(R) <=> p \in Elements(old)
    <2>1. \A i \in DOMAIN old : R[i] = old[Len(old) + 1 - i]
        OBVIOUS
    <2>2. \A i \in DOMAIN old : old[i] = R[Len(old) + 1 - i]
        BY <1>2, <1>3, Zenon
    <2>. HIDE DEF R
    <2>3. Elements(R) \subseteq Elements(old)
        <3>. SUFFICES ASSUME NEW p \in Elements(R) PROVE p \in Elements(old)
            OBVIOUS
        <3>1. PICK i \in DOMAIN R : R[i] = p
            BY <1>4, ElementsFacts
        <3>2. i \in 1 .. Len(old) /\ Len(old) + 1 - i \in DOMAIN old
            BY <1>2, <1>3, <1>4, Zenon
        <3>3. old[Len(old) + 1 - i] = p
            BY <3>1, <3>2, <1>2, <2>1, Zenon
        <3>. QED
            BY <3>2, <3>3, <1>2, ElementsFacts
    <2>4. Elements(old) \subseteq Elements(R)
        <3>. SUFFICES ASSUME NEW p \in Elements(old) PROVE p \in Elements(R)
            OBVIOUS
        <3>1. PICK i \in DOMAIN old : old[i] = p
            BY <1>2, ElementsFacts
        <3>2. i \in 1 .. Len(old) /\ Len(old) + 1 - i \in DOMAIN R
            BY <1>2, <1>3, <1>4
        <3>3. R[Len(old) + 1 - i] = p
            BY <3>1, <3>2, <1>2, <2>2
        <3>. QED
            BY <3>2, <3>3, <1>4, ElementsFacts
    <2>. QED
        BY <2>3, <2>4
<1>6. b = [c EXCEPT !.seqs = [q \in DOMAIN c.seqs \ {r} |-> c.seqs[q]]]
    BY DEF RemoveSequence
<1>. HIDE DEF R, b
<1>7. \A p \in Elements(R) : k.refs[p] # 0
    <2>1. \A p \in Elements(R) : p \in Pages /\ r \in Holders(k, p)
        BY <1>4, <1>5, ElementsFacts, ZenonT(30) DEF Holders
    <2>. QED
        BY <2>1, <1>1, HoldersCounted
<1>8. /\ IsManager(c) /\ c.free = k.free \cup Freed(k, R)
      /\ CachedPages(c) = CachedPages(k) \cup Kept(k, R)
      /\ c.blocks = Unblocked(k, Freed(k, R))
      /\ c.refs = Decremented(k, R)
      /\ c.seqs = k.seqs
    BY <1>1, <1>4, <1>7, ReleaseFields
<1>. HIDE DEF c
<1>9. /\ DOMAIN seqs = DOMAIN k.seqs \ {r}
      /\ \A q \in DOMAIN k.seqs \ {r} : seqs[q] = k.seqs[q]
    OBVIOUS
<1>10. b = [c EXCEPT !.seqs = seqs]
    BY <1>6, <1>8
<1>. HIDE DEF seqs
<1>11. /\ b.free = c.free /\ b.refs = c.refs /\ b.blocks = c.blocks
       /\ b.evictable = c.evictable /\ b.seqs = seqs
       /\ b \in [free : SUBSET Pages, refs : [Pages -> Nat], blocks : {b.blocks},
                 evictable : SUBSET (Nat \X Pages), caching : BOOLEAN, seqs : {b.seqs}]
    BY <1>8, <1>10 DEF IsManager
<1>12. IsManager(b)
    BY <1>1, <1>8, <1>9, <1>11 DEF IsManager
<1>13. ASSUME NEW p \in Pages
       PROVE  Holders(b, p) = IF p \in Elements(R) THEN Holders(k, p) \ {r} ELSE Holders(k, p)
    <2>1. \A q : q \in Holders(b, p) <=> q \in Holders(k, p) \ {r}
        BY <1>9, <1>11 DEF Holders
    <2>2. Holders(b, p) = Holders(k, p) \ {r}
        BY <2>1
    <2>3. r \in Holders(k, p) <=> p \in Elements(R)
        BY <1>5, Zenon DEF Holders
    <2>. QED
        BY <2>2, <2>3
<1>14. /\ Accounted(b)
       /\ \A p \in Pages : b.blocks[p] = k.blocks[p] \/ Holders(b, p) = {}
       /\ \A p \in Pages : b.blocks[p] # NoBlock => k.blocks[p] # NoBlock
    <2>1. Elements(R) \subseteq Elements(old)
        BY <1>5
    <2>2. /\ b.free = k.free \cup Freed(k, R)
          /\ CachedPages(b) = CachedPages(k) \cup Kept(k, R)
          /\ b.blocks = Unblocked(k, Freed(k, R))
          /\ b.refs = Decremented(k, R)
        BY <1>8, <1>11 DEF CachedPages
    <2>3. GivenUp(k, b, r, R)
        BY <1>13 DEF GivenUp
    <2>. QED
        BY <2>1, <2>2, <2>3, <1>4, ReleasedFacts, Zenon
<1>15. \A q \in DOMAIN b.seqs : q \in DOMAIN k.seqs /\ b.seqs[q] = k.seqs[q]
    BY <1>9, <1>11, Zenon
<1>16. Shared(b)
    <2>1. ASSUME NEW q \in DOMAIN b.seqs, NEW i \in DOMAIN b.seqs[q].pages,
                 b.blocks[b.seqs[q].pages[i]] # NoBlock
          PROVE  i <= b.seqs[q].committed \div BlockSize
        <3>1. b.seqs[q] = k.seqs[q] /\ k.seqs[q].pages \in Seq(Pages) /\ q \in DOMAIN k.seqs
            BY <1>1, <1>15, Zenon DEF IsSequence
        <3>2. k.blocks[k.seqs[q].pages[i]] # NoBlock
            BY <3>1, <2>1, <1>14, SMTT(30)
        <3>. QED
            BY <3>1, <3>2, <1>1 DEF Shared
    <2>2. ASSUME NEW p \in Pages, NEW x \in Holders(b, p), NEW y \in Holders(b, p), x # y
          PROVE  b.blocks[p] # NoBlock
        <3>1. x \in Holders(k, p) /\ y \in Holders(k, p)
            BY <1>13
        <3>2. b.blocks[p] = k.blocks[p]
            BY <1>14, SMTT(30)
        <3>. QED
            BY <3>1, <3>2, <2>2, <1>1, ZenonT(30) DEF Shared
    <2>. QED
        BY <2>1, <2>2, ZenonT(30) DEF Shared
<1>. QED
    BY <1>1, <1>12, <1>14, <1>15, <1>16 DEF KvInv, b

-----------------------------------------------------------------------------
(* New sequences *)

\* a is k after acquire_cached of the pages of S.
Acquired(k, a, S) ==
    /\ IsManager(a) /\ a.free = k.free /\ a.blocks = k.blocks /\ a.seqs = k.seqs
    /\ \A p \in Pages : a.refs[p] = IF p \in S THEN k.refs[p] + 1 ELSE k.refs[p]
    /\ CachedPages(a) = CachedPages(k) \ {p \in S : k.refs[p] = 0}

LEMMA AcquireFields ==
    ASSUME NEW k, IsManager(k), NEW S \in SUBSET Pages
    PROVE  Acquired(k, AcquireCached(k, S), S)
<1>. DEFINE D == {p \in S : k.refs[p] = 0}
            W == Without(k.evictable, D)
            refs == [p \in Pages |-> IF p \in S THEN k.refs[p] + 1 ELSE k.refs[p]]
            a == AcquireCached(k, S)
<1>1. W \in SUBSET (Nat \X Pages) /\ IsFiniteSet(W)
    <2>1. W \subseteq k.evictable
        BY DEF Without
    <2>. QED
        BY <2>1, FS_Subset DEF IsManager
<1>2. {e[2] : e \in W} = CachedPages(k) \ D
    BY DEF Without, CachedPages
<1>3. /\ Renumbered(W) \in SUBSET (Nat \X Pages) /\ IsFiniteSet(Renumbered(W))
      /\ {e[2] : e \in Renumbered(W)} = CachedPages(k) \ D
    BY <1>1, <1>2, RenumberedFacts, Zenon
<1>4. refs \in [Pages -> Nat]
    BY DEF IsManager
<1>5. a = [k EXCEPT !.refs = refs, !.evictable = Renumbered(W)]
    BY DEF AcquireCached, IsManager
<1>. HIDE DEF a, W, D
<1>6. \A p \in Pages : refs[p] = IF p \in S THEN k.refs[p] + 1 ELSE k.refs[p]
    OBVIOUS
<1>. HIDE DEF refs
<1>7. /\ a.free = k.free /\ a.blocks = k.blocks /\ a.seqs = k.seqs /\ a.refs = refs
      /\ a.evictable = Renumbered(W)
      /\ IsManager(a)
    BY <1>3, <1>4, <1>5, Zenon DEF IsManager
<1>8. CachedPages(a) = CachedPages(k) \ D
    BY <1>3, <1>7, SMTT(30) DEF CachedPages
<1>. QED
    BY <1>6, <1>7, <1>8, SMTT(30) DEF Acquired, a, D

\* A sequence that starts on published pages, all of them complete blocks.
LEMMA Mapped ==
    ASSUME NEW k, KvInv(k), NEW r \in Requests, r \notin DOMAIN k.seqs,
           NEW s, IsSequence(s), s.count = 0, Once(s.pages),
           s.committed = Len(s.pages) * BlockSize,
           \A i \in DOMAIN s.pages : k.blocks[s.pages[i]] # NoBlock,
           NEW a, Acquired(k, a, Elements(s.pages))
    PROVE  KvInv(WithSequence(a, r, s))
<1>. DEFINE b == WithSequence(a, r, s)
            E == Elements(s.pages)
<1>1. /\ IsManager(k) /\ Accounted(k) /\ Shared(k)
      /\ \A q \in DOMAIN k.seqs : Covered(k.seqs[q]) /\ IsSequence(k.seqs[q])
    BY DEF KvInv, IsManager
<1>2. s.pages \in Seq(Pages) /\ Len(s.pages) \in Nat /\ DOMAIN s.pages = 1 .. Len(s.pages)
    BY SMTT(30) DEF IsSequence
<1>3. E \subseteq Pages /\ \A p \in E : k.blocks[p] # NoBlock
    BY <1>2, ElementsFacts, SMTT(30)
<1>4a. /\ IsManager(b)
       /\ b.free = a.free /\ b.refs = a.refs /\ b.blocks = a.blocks
       /\ CachedPages(b) = CachedPages(a)
       /\ DOMAIN b.seqs = DOMAIN a.seqs \cup {r}
       /\ b.seqs[r] = s
       /\ \A q \in DOMAIN a.seqs \ {r} : b.seqs[q] = a.seqs[q]
    BY WithSequenceFields, SMTT(30) DEF Acquired
<1>. HIDE DEF b, E
<1>4. /\ IsManager(b) /\ b.free = k.free /\ b.blocks = k.blocks
      /\ \A p \in Pages : b.refs[p] = IF p \in E THEN k.refs[p] + 1 ELSE k.refs[p]
      /\ CachedPages(b) = CachedPages(k) \ {p \in E : k.refs[p] = 0}
      /\ DOMAIN b.seqs = DOMAIN k.seqs \cup {r}
      /\ b.seqs[r] = s
      /\ \A q \in DOMAIN k.seqs : b.seqs[q] = k.seqs[q]
    BY <1>4a, Zenon DEF Acquired, E
<1>5. ASSUME NEW p \in Pages
      PROVE  /\ Holders(b, p) = IF p \in E THEN Holders(k, p) \cup {r} ELSE Holders(k, p)
             /\ r \notin Holders(k, p)
    <2>1. \A q \in DOMAIN k.seqs : q \in Holders(b, p) <=> q \in Holders(k, p)
        BY <1>4, Zenon DEF Holders
    <2>2. r \in Holders(b, p) <=> p \in E
        BY <1>4, Zenon DEF Holders, E
    <2>3. Holders(b, p) \subseteq DOMAIN k.seqs \cup {r} /\ Holders(k, p) \subseteq DOMAIN k.seqs
        BY <1>4, Zenon DEF Holders
    <2>4. CASE p \in E
        <3>1. \A q : q \in Holders(b, p) <=> q \in Holders(k, p) \cup {r}
            BY <2>1, <2>2, <2>3, <2>4, Zenon
        <3>. QED
            BY <3>1, <2>3, <2>4, Zenon
    <2>5. CASE p \notin E
        <3>1. \A q : q \in Holders(b, p) <=> q \in Holders(k, p)
            BY <2>1, <2>2, <2>3, <2>5
        <3>. QED
            BY <3>1, <2>3, <2>5, Zenon
    <2>. QED
        BY <2>4, <2>5, Zenon
<1>6. Accounted(b)
    <2>1. ASSUME NEW p \in Pages PROVE b.refs[p] = Cardinality(Holders(b, p))
        <3>1. CASE p \in E
            <4>1. /\ IsFiniteSet(Holders(k, p)) /\ r \notin Holders(k, p)
                  /\ Holders(b, p) = Holders(k, p) \cup {r}
                BY <3>1, <1>1, <1>5, HoldersFinite, Zenon
            <4>2. Cardinality(Holders(b, p)) = Cardinality(Holders(k, p)) + 1
                BY <4>1, FS_AddElement, ZenonT(30)
            <4>. QED
                BY <4>2, <3>1, <1>1, <1>4, Zenon DEF Accounted
        <3>2. CASE p \notin E
            BY <3>2, <1>1, <1>4, <1>5 DEF Accounted
        <3>. QED
            BY <3>1, <3>2, Zenon
    <2>2. ASSUME NEW p \in Pages PROVE b.refs[p] = 0 <=> p \in b.free \cup CachedPages(b)
        <3>1. CASE p \in E
            <4>1. k.refs[p] \in Nat /\ b.refs[p] = k.refs[p] + 1
                BY <3>1, <1>1, <1>4, Zenon DEF IsManager
            <4>2. b.refs[p] # 0
                BY <4>1, SMTT(30)
            <4>3. p \notin k.free
                BY <3>1, <1>1, <1>3, Zenon DEF Accounted
            <4>4. p \notin CachedPages(b)
                BY <3>1, <4>3, <1>1, <1>4, Zenon DEF Accounted
            <4>. QED
                BY <4>2, <4>3, <4>4, <1>4, Zenon
        <3>2. CASE p \notin E
            BY <3>2, <1>1, <1>4, Zenon DEF Accounted
        <3>. QED
            BY <3>1, <3>2, Zenon
    <2>3. b.free \cap CachedPages(b) = {} /\ \A p \in Pages : p \in b.free => b.blocks[p] = NoBlock
        BY <1>1, <1>4, Zenon DEF Accounted
    <2>. QED
        BY <2>1, <2>2, <2>3 DEF Accounted
<1>7. /\ PagesFor(s.committed) = Len(s.pages)
      /\ s.committed \div BlockSize = Len(s.pages)
      /\ s.committed + s.count = s.committed
    BY <1>2, PagesForFacts, QuotientOfProduct, SMTT(30) DEF IsSequence
<1>8. \A q \in DOMAIN b.seqs : Covered(b.seqs[q])
    BY <1>1, <1>2, <1>4, <1>7, SMTT(30) DEF Covered
<1>9. Shared(b)
    <2>1. ASSUME NEW q \in DOMAIN b.seqs, NEW i \in DOMAIN b.seqs[q].pages,
                 b.blocks[b.seqs[q].pages[i]] # NoBlock
          PROVE  i <= b.seqs[q].committed \div BlockSize
        <3>1. CASE q = r
            BY <3>1, <1>2, <1>4, <1>7, SMTT(30)
        <3>2. CASE q # r
            BY <3>2, <2>1, <1>1, <1>4, Zenon DEF Shared
        <3>. QED
            BY <3>1, <3>2, Zenon
    <2>2. ASSUME NEW p \in Pages, NEW x \in Holders(b, p), NEW y \in Holders(b, p), x # y
          PROVE  b.blocks[p] # NoBlock
        BY <2>2, <1>1, <1>3, <1>4, <1>5 DEF Shared
    <2>. QED
        BY <2>1, <2>2, Zenon DEF Shared
<1>. QED
    BY <1>4, <1>6, <1>8, <1>9 DEF KvInv, b

\* create_sequence.
LEMMA CreateKeeps ==
    ASSUME NEW k, KvInv(k), NEW r \in Requests, r \notin DOMAIN k.seqs
    PROVE  KvInv(CreateSequence(k, r))
<1>. DEFINE s == NewSequence(<<>>, 0, <<>>)
<1>1. <<>> \in Seq(Pages) /\ Len(<<>>) = 0 /\ DOMAIN <<>> = {}
    OBVIOUS
<1>2. s = [committed |-> 0, pages |-> <<>>, count |-> 0, previous |-> 0, registered |-> 0,
           chain |-> <<>>]
    BY <1>1 DEF NewSequence
<1>. HIDE DEF s
<1>8. ASSUME NEW e, e \in Seq(Pages), NEW c,
             s = [committed |-> 0, pages |-> e, count |-> 0, previous |-> 0, registered |-> 0,
                  chain |-> c]
      PROVE  IsSequence(s) /\ s.pages = e /\ s.count = 0 /\ s.committed = 0
    BY <1>8 DEF IsSequence
<1>3. IsSequence(s) /\ s.pages = <<>> /\ s.count = 0 /\ s.committed = 0
    BY <1>1, <1>2, <1>8, Zenon
<1>4. Elements(s.pages) = {} /\ Once(s.pages) /\ Len(s.pages) * BlockSize = 0
    BY <1>1, <1>3, KvConfig, SMTT(30) DEF Elements, Once
<1>5. Acquired(k, k, Elements(s.pages))
    BY <1>4 DEF Acquired, KvInv
<1>6. /\ s.committed = Len(s.pages) * BlockSize
      /\ \A i \in DOMAIN s.pages : k.blocks[s.pages[i]] # NoBlock
    BY <1>1, <1>3, <1>4
<1>7. KvInv(WithSequence(k, r, s))
    BY <1>3, <1>4, <1>5, <1>6, Mapped
<1>. QED
    BY <1>7 DEF CreateSequence, s

\* A run of complete blocks is as long as its blocks.
LEMMA PrefixFacts ==
    ASSUME NEW tokens \in Seq(Tokens), NEW i \in Nat, i * BlockSize <= Len(tokens)
    PROVE  Prefix(tokens, i) \in Seq(Tokens) /\ Len(Prefix(tokens, i)) = i * BlockSize
<1>1. i * BlockSize \in Nat
    BY Product, SMTT(30)
<1>. QED
    BY <1>1 DEF Prefix

\* create_sequence_with_prefix.
LEMMA CreateWithPrefixKeeps ==
    ASSUME NEW k, KvInv(k), NEW r \in Requests, r \notin DOMAIN k.seqs,
           NEW tokens \in Seq(Tokens), NEW m, Matched(k, tokens, m)
    PROVE  KvInv(CreateSequenceWithPrefix(k, r, tokens, m))
<1>. DEFINE usable == IF k.caching /\ Len(tokens) > 1 THEN (Len(tokens) - 1) \div BlockSize ELSE 0
            pages == [i \in 1 .. m |-> PageOf(k, Prefix(tokens, i))]
            s == NewSequence(pages, m * BlockSize, Prefix(tokens, m))
<1>1. m \in 0 .. usable /\ \A i \in 1 .. m : Published(k, Prefix(tokens, i))
    BY DEF Matched
<1>2. usable \in Nat /\ usable * BlockSize <= Len(tokens)
    <2>1. CASE Len(tokens) > 1
        <3>1. Len(tokens) - 1 \in Nat /\ Len(tokens) \in Nat
            BY <2>1
        <3>. DEFINE q == (Len(tokens) - 1) \div BlockSize
        <3>4. q \in Nat /\ q * BlockSize <= Len(tokens) - 1
            BY <3>1, Quotient, Zenon
        <3>2. q \in Nat /\ q * BlockSize <= Len(tokens) - 1 /\ q * BlockSize \in Nat
            <4>. HIDE DEF q
            <4>1. q <= q
                BY <3>4
            <4>. QED
                BY <3>4, <4>1, Product
        <3>. HIDE DEF q
        <3>3. q * BlockSize <= Len(tokens) /\ 0 * BlockSize <= Len(tokens)
            BY <3>1, <3>2, KvConfig
        <3>. QED
            BY <3>2, <3>3 DEF q
    <2>2. CASE ~(Len(tokens) > 1)
        BY <2>2, KvConfig
    <2>. QED
        BY <2>1, <2>2
<1>. HIDE DEF usable
<1>3. m \in Nat
    BY <1>1, <1>2
<1>4. ASSUME NEW i \in 1 .. m
      PROVE  /\ i \in Nat /\ Len(Prefix(tokens, i)) = i * BlockSize
             /\ Prefix(tokens, i) # NoBlock
    <2>1. i \in Nat /\ i <= usable /\ i # 0
        BY <1>1, <1>2, <1>3
    <2>2. i * BlockSize <= usable * BlockSize /\ i * BlockSize \in Nat /\ usable * BlockSize \in Nat
        BY <2>1, <1>2, Product
    <2>3. i * BlockSize <= Len(tokens)
        BY <2>2, <1>2
    <2>4. Len(Prefix(tokens, i)) = i * BlockSize
        BY <2>1, <2>3, PrefixFacts
    <2>5. i * BlockSize # 0
        BY <2>1, KvConfig
    <2>. QED
        BY <2>1, <2>4, <2>5 DEF NoBlock
<1>5. \A i \in 1 .. m : pages[i] \in Pages /\ k.blocks[pages[i]] = Prefix(tokens, i)
    BY <1>1 DEF Published, PageOf
<1>6. DOMAIN pages = 1 .. m
    OBVIOUS
<1>7. pages \in Seq(Pages) /\ Len(pages) = m
    BY <1>3, <1>5
<1>. HIDE DEF pages
<1>8. Once(pages)
    <2>. SUFFICES ASSUME NEW i \in 1 .. m, NEW j \in 1 .. m, pages[i] = pages[j] PROVE i = j
        BY <1>6 DEF Once
    <2>1. i * BlockSize = j * BlockSize
        BY <1>4, <1>5
    <2>2. i \in Nat /\ j \in Nat
        BY <1>4
    <2>3. i = (i * BlockSize) \div BlockSize /\ j = (j * BlockSize) \div BlockSize
        BY <2>2, QuotientOfProduct
    <2>. QED
        BY <2>1, <2>3
<1>9. \A i \in DOMAIN pages : k.blocks[pages[i]] # NoBlock
    BY <1>4, <1>5, <1>6
<1>10. m * BlockSize \in Nat
    BY <1>3, Product, SMTT(30)
<1>11. /\ IsSequence(s) /\ s.pages = pages /\ s.count = 0
       /\ s.committed = Len(s.pages) * BlockSize
    BY <1>3, <1>7, <1>10 DEF NewSequence, IsSequence
<1>. HIDE DEF s
<1>12. Elements(pages) \in SUBSET Pages /\ IsManager(k)
    BY <1>7, ElementsFacts DEF KvInv
<1>13. Acquired(k, AcquireCached(k, Elements(pages)), Elements(pages))
    BY <1>12, AcquireFields, Zenon
<1>14. KvInv(WithSequence(AcquireCached(k, Elements(s.pages)), r, s))
    BY <1>8, <1>9, <1>11, <1>13, Mapped, Zenon
<1>. QED
    BY <1>11, <1>14 DEF CreateSequenceWithPrefix, s, pages

-----------------------------------------------------------------------------
(* The prefix cache *)

\* b is k with complete blocks of r published, and what r has registered updated.
Registered(k, b, r) ==
    /\ b.free = k.free /\ b.refs = k.refs /\ b.evictable = k.evictable
    /\ DOMAIN b.seqs = DOMAIN k.seqs
    /\ \A q \in DOMAIN k.seqs : /\ b.seqs[q].pages = k.seqs[q].pages
                                /\ b.seqs[q].committed = k.seqs[q].committed
                                /\ b.seqs[q].count = k.seqs[q].count
                                /\ b.seqs[q].previous = k.seqs[q].previous
    /\ \A p \in Pages :
         \/ b.blocks[p] = k.blocks[p]
         \/ /\ k.blocks[p] = NoBlock
            /\ \E i \in DOMAIN k.seqs[r].pages : /\ k.seqs[r].pages[i] = p
                                                 /\ i <= k.seqs[r].committed \div BlockSize

LEMMA RegisteredKeeps ==
    ASSUME NEW k, KvInv(k), NEW r \in DOMAIN k.seqs, NEW b, IsManager(b), Registered(k, b, r)
    PROVE  KvInv(b)
<1>1. /\ IsManager(k) /\ Accounted(k) /\ Shared(k)
      /\ \A q \in DOMAIN k.seqs : Covered(k.seqs[q]) /\ IsSequence(k.seqs[q])
    BY DEF KvInv, IsManager
<1>2. \A p \in Pages : Holders(b, p) = Holders(k, p)
    BY DEF Registered, Holders
<1>3. \A p \in Pages : b.blocks[p] = k.blocks[p] \/ (k.blocks[p] = NoBlock /\ r \in Holders(k, p))
    <2>1. k.seqs[r].pages \in Seq(Pages)
        BY <1>1 DEF IsSequence
    <2>2. \A i \in DOMAIN k.seqs[r].pages : r \in Holders(k, k.seqs[r].pages[i])
        BY <2>1, ElementsFacts, Zenon DEF Holders
    <2>3. ASSUME NEW p \in Pages, b.blocks[p] # k.blocks[p]
          PROVE  /\ k.blocks[p] = NoBlock
                 /\ \E i \in DOMAIN k.seqs[r].pages : k.seqs[r].pages[i] = p
        BY <2>3, Zenon DEF Registered
    <2>. QED
        BY <2>2, <2>3, Zenon
<1>4. Accounted(b)
    <2>1. \A p \in Pages : p \in k.free => Holders(k, p) = {}
        BY <1>1, HoldersCounted, Zenon DEF Accounted
    <2>2. \A p \in Pages : p \in k.free => b.blocks[p] = NoBlock
        BY <2>1, <1>1, <1>3, Zenon DEF Accounted
    <2>3. CachedPages(b) = CachedPages(k) /\ b.free = k.free /\ b.refs = k.refs
        BY Zenon DEF Registered, CachedPages
    <2>. QED
        BY <2>2, <2>3, <1>1, <1>2, Zenon DEF Accounted
<1>5. \A q \in DOMAIN b.seqs : Covered(b.seqs[q])
    BY <1>1, Zenon DEF Covered, Registered
<1>6. ASSUME NEW q \in DOMAIN b.seqs, NEW i \in DOMAIN b.seqs[q].pages,
             b.blocks[b.seqs[q].pages[i]] # NoBlock
      PROVE  i <= b.seqs[q].committed \div BlockSize
    <2>. DEFINE p == k.seqs[q].pages[i]
    <2>1. /\ q \in DOMAIN k.seqs /\ i \in DOMAIN k.seqs[q].pages /\ b.blocks[p] # NoBlock
          /\ b.seqs[q].committed = k.seqs[q].committed
        BY <1>6, Zenon DEF Registered
    <2>2. p \in Pages /\ q \in Holders(k, p)
        BY <2>1, <1>1, SMTT(30) DEF IsSequence, Holders, Elements
    <2>3. CASE b.blocks[p] = k.blocks[p]
        BY <2>1, <2>3, <1>1, Zenon DEF Shared
    <2>4. CASE b.blocks[p] # k.blocks[p]
        <3>1. PICK j \in DOMAIN k.seqs[r].pages : /\ k.seqs[r].pages[j] = p
                                                  /\ j <= k.seqs[r].committed \div BlockSize
            BY <2>2, <2>4, Zenon DEF Registered
        <3>2. q = r
            BY <2>2, <2>4, <1>1, <1>3, Zenon DEF Shared
        <3>3. i = j
            BY <3>1, <3>2, <2>1, <1>1, Zenon DEF Covered, Once
        <3>. QED
            BY <3>1, <3>2, <3>3, <2>1, Zenon
    <2>. QED
        BY <2>3, <2>4, Zenon
<1>7. \A p \in Pages : \A x, y \in Holders(b, p) : x # y => b.blocks[p] # NoBlock
    BY <1>1, <1>2, <1>3, Zenon DEF Shared
<1>8. Shared(b)
    BY <1>6, <1>7 DEF Shared
<1>. QED
    BY <1>4, <1>5, <1>8, Zenon DEF KvInv

\* register_prefix.
LEMMA RegisterKeeps ==
    ASSUME NEW k, KvInv(k), NEW r \in DOMAIN k.seqs, NEW tokens \in Seq(Tokens)
    PROVE  KvInv(RegisterPrefix(k, r, tokens))
<1>. DEFINE s == k.seqs[r]
            done == Complete(k, r, tokens)
            key(i) == s.chain \o SubSeq(tokens, s.registered * BlockSize + 1, i * BlockSize)
            new == {i \in done : ~Published(k, key(i)) /\ k.blocks[s.pages[i]] = NoBlock}
            last == s.registered + Cardinality(done)
            blocks == [p \in Pages |->
                         IF \E i \in new : s.pages[i] = p
                           THEN key(CHOOSE i \in new : s.pages[i] = p) ELSE k.blocks[p]]
            lim == Lowest(s.committed, Len(tokens)) \div BlockSize
            b == RegisterPrefix(k, r, tokens)
<1>1. /\ IsManager(k) /\ IsSequence(s) /\ Covered(s)
      /\ s.committed \in Nat /\ s.count \in Nat /\ s.registered \in Nat
      /\ s.pages \in Seq(Pages) /\ Len(s.pages) \in Nat /\ Len(tokens) \in Nat
      /\ DOMAIN s.pages = 1 .. Len(s.pages)
    BY SMTT(30) DEF KvInv, IsManager, IsSequence
<1>. SUFFICES ASSUME k.caching PROVE KvInv(b)
    BY Zenon DEF RegisterPrefix
<1>2. b = [k EXCEPT !.blocks = blocks, !.seqs[r].registered = last, !.seqs[r].chain = key(last)]
    BY <1>1, Zenon DEF RegisterPrefix, IsManager
<1>3. lim \in Nat /\ lim <= s.committed \div BlockSize
    <2>1. /\ Lowest(s.committed, Len(tokens)) \in Nat
          /\ Lowest(s.committed, Len(tokens)) <= s.committed
        BY <1>1 DEF Lowest
    <2>. QED
        BY <2>1, <1>1, Quotient, QuotientMonotone, Zenon
<1>4. s.committed \div BlockSize \in Nat /\ s.committed \div BlockSize <= Len(s.pages)
    <2>. DEFINE all == s.committed + s.count
    <2>1. all \in Nat /\ s.committed <= all
        BY <1>1, SMTT(30)
    <2>2. /\ s.committed \div BlockSize \in Nat
          /\ s.committed \div BlockSize <= PagesFor(s.committed)
          /\ PagesFor(s.committed) \in Nat
          /\ PagesFor(s.committed) <= PagesFor(all) /\ PagesFor(all) \in Nat
        BY <2>1, <1>1, Quotient, PagesForFacts, Zenon
    <2>3. PagesFor(all) <= Len(s.pages)
        BY <2>2, <1>1 DEF Covered
    <2>. QED
        BY <2>2, <2>3, <1>1, SMTT(30)
<1>5. done = s.registered + 1 .. lim
    BY DEF Complete
<1>. HIDE DEF lim, b
<1>6. \A i \in done : i \in DOMAIN s.pages /\ i <= s.committed \div BlockSize
    BY <1>1, <1>3, <1>4, <1>5, SMTT(30)
<1>7. last \in Nat
    <2>1. s.registered + 1 \in Int /\ lim \in Int
        BY <1>1, <1>3, SMTT(30)
    <2>2. IsFiniteSet(done)
        BY <2>1, <1>5, FS_Interval, Zenon
    <2>3. Cardinality(done) \in Nat
        BY <2>2, FS_CardinalityType, SMTT(30)
    <2>. HIDE DEF done
    <2>. QED
        BY <2>3, <1>1, SMTT(30)
<1>8. \A p \in Pages : \/ blocks[p] = k.blocks[p]
                       \/ \E i \in new : s.pages[i] = p
    OBVIOUS
<1>9. \A i \in new : i \in done /\ k.blocks[s.pages[i]] = NoBlock
    BY Zenon
<1>. HIDE DEF done, new, last, blocks
<1>10. \A p \in Pages :
         \/ blocks[p] = k.blocks[p]
         \/ /\ k.blocks[p] = NoBlock
            /\ \E i \in DOMAIN s.pages : s.pages[i] = p /\ i <= s.committed \div BlockSize
    BY <1>6, <1>8, <1>9, ZenonT(30)
<1>11. PICK chain : b = [k EXCEPT !.blocks = blocks,
                                  !.seqs[r].registered = last, !.seqs[r].chain = chain]
    BY <1>2, Zenon
<1>. DEFINE t == [s EXCEPT !.registered = last, !.chain = chain]
            seqs == [k.seqs EXCEPT ![r] = t]
<1>12. /\ IsSequence(t) /\ t.pages = s.pages /\ t.committed = s.committed
       /\ t.count = s.count /\ t.previous = s.previous
    BY <1>1, <1>7, Zenon DEF IsSequence
<1>13. b = [k EXCEPT !.blocks = blocks, !.seqs = seqs]
    BY <1>1, <1>11, Zenon DEF IsManager
<1>. HIDE DEF t
<1>14. /\ b.free = k.free /\ b.refs = k.refs /\ b.evictable = k.evictable
       /\ b.blocks = blocks /\ b.seqs = seqs /\ b.caching = k.caching
    BY <1>1, <1>13, Zenon DEF IsManager
<1>15. /\ DOMAIN b.seqs = DOMAIN k.seqs /\ b.seqs[r] = t
       /\ \A q \in DOMAIN k.seqs \ {r} : b.seqs[q] = k.seqs[q]
    BY <1>14
<1>16. IsManager(b)
    <2>. HIDE DEF seqs
    <2>1. b \in [free : SUBSET Pages, refs : [Pages -> Nat], blocks : {b.blocks},
                 evictable : SUBSET (Nat \X Pages), caching : BOOLEAN, seqs : {b.seqs}]
        BY <1>1, <1>13, ZenonT(30) DEF IsManager
    <2>. QED
        BY <2>1, <1>1, <1>12, <1>14, <1>15, Zenon DEF IsManager
<1>17. Registered(k, b, r)
    BY <1>10, <1>12, <1>14, <1>15 DEF Registered
<1>. QED
    BY <1>16, <1>17, RegisteredKeeps, Zenon

\* set_prefix_caching.
LEMMA SetCachingKeeps ==
    ASSUME NEW k, KvInv(k), NEW enabled \in BOOLEAN
    PROVE  KvInv(SetPrefixCaching(k, enabled))
<1>. DEFINE b == SetPrefixCaching(k, enabled)
            C == CachedPages(k)
<1>1. /\ IsManager(k) /\ Accounted(k) /\ Shared(k) /\ C \subseteq Pages
      /\ \A q \in DOMAIN k.seqs : Covered(k.seqs[q]) /\ IsSequence(k.seqs[q])
    BY DEF KvInv, IsManager, CachedPages
<1>2. CASE enabled
    <2>1. b = [k EXCEPT !.caching = TRUE]
        BY <1>2 DEF SetPrefixCaching
    <2>. HIDE DEF b
    <2>2. /\ b.free = k.free /\ b.refs = k.refs /\ b.blocks = k.blocks
          /\ b.evictable = k.evictable /\ b.seqs = k.seqs /\ IsManager(b)
        BY <2>1, <1>1, Zenon DEF IsManager
    <2>3. CachedPages(b) = C /\ \A p \in Pages : Holders(b, p) = Holders(k, p)
        BY <2>2, SMTT(30) DEF CachedPages, Holders
    <2>4. Accounted(b)
        BY <2>2, <2>3, <1>1 DEF Accounted
    <2>5. Shared(b)
        BY <2>2, <2>3, <1>1, Zenon DEF Shared
    <2>. QED
        BY <2>2, <2>4, <2>5, <1>1 DEF KvInv, b
<1>3. CASE ~enabled
    <2>. DEFINE blocks == Unblocked(k, C)
    <2>1. b = [k EXCEPT !.caching = FALSE, !.evictable = {}, !.free = k.free \cup C,
                        !.blocks = blocks]
        BY <1>1, <1>3 DEF SetPrefixCaching, IsManager
    <2>. HIDE DEF b, blocks, C
    <2>2. /\ b.free = k.free \cup C /\ b.refs = k.refs /\ b.blocks = blocks
          /\ b.evictable = {} /\ b.seqs = k.seqs /\ IsManager(b)
        BY <2>1, <1>1, FS_EmptySet, Zenon DEF IsManager
    <2>3. CachedPages(b) = {} /\ \A p \in Pages : Holders(b, p) = Holders(k, p)
        BY <2>2 DEF CachedPages, Holders
    <2>4. \A p \in Pages : blocks[p] = IF p \in C THEN NoBlock ELSE k.blocks[p]
        BY DEF blocks, Unblocked
    <2>5. \A p \in C : Holders(k, p) = {}
        BY <1>1, HoldersCounted DEF Accounted, C
    <2>6. Accounted(b)
        BY <2>2, <2>3, <2>4, <1>1, Zenon DEF Accounted, C
    <2>7. Shared(b)
        <3>1. ASSUME NEW q \in DOMAIN k.seqs, NEW i \in DOMAIN k.seqs[q].pages,
                     b.blocks[k.seqs[q].pages[i]] # NoBlock
              PROVE  i <= k.seqs[q].committed \div BlockSize
            <4>1. k.seqs[q].pages \in Seq(Pages)
                BY <1>1 DEF IsSequence
            <4>2. k.blocks[k.seqs[q].pages[i]] # NoBlock
                BY <4>1, <3>1, <2>2, <2>4, SMTT(30)
            <4>. QED
                BY <4>2, <1>1 DEF Shared
        <3>2. \A p \in Pages : \A x, y \in Holders(b, p) : x # y => b.blocks[p] # NoBlock
            BY <2>2, <2>3, <2>4, <2>5, <1>1 DEF Shared
        <3>. QED
            BY <3>1, <3>2, <2>2, ZenonT(30) DEF Shared
    <2>. QED
        BY <2>2, <2>6, <2>7, <1>1 DEF KvInv, b
<1>. QED
    BY <1>2, <1>3, Zenon

-----------------------------------------------------------------------------
(* Theorems *)

LEMMA TextIsSequence == \A tokens \in Texts : tokens \in Seq(Tokens)
<1>. SUFFICES ASSUME NEW n \in 0 .. MaxSequenceLength, NEW tokens \in [1 .. n -> Tokens]
              PROVE  tokens \in Seq(Tokens)
    BY DEF Texts
<1>1. n \in Nat
    BY KvConfig
<1>. QED
    BY <1>1

LEMMA InitialKv == KvInit => KvInv(kv)
<1>. SUFFICES ASSUME kv = NewManager PROVE KvInv(kv)
    BY DEF KvInit
<1>1. /\ kv.free = Pages /\ kv.refs = [p \in Pages |-> 0]
      /\ kv.blocks = [p \in Pages |-> NoBlock] /\ kv.evictable = {}
      /\ kv.seqs = [r \in {} |-> 0] /\ kv.caching = FALSE
    BY DEF NewManager
<1>2. DOMAIN kv.seqs = {} /\ CachedPages(kv) = {}
    BY <1>1 DEF CachedPages
<1>3. \A p \in Pages : Holders(kv, p) = {}
    BY <1>2 DEF Holders
<1>4. IsManager(kv)
    <2>1. [p \in Pages |-> 0] \in [Pages -> Nat]
        OBVIOUS
    <2>2. kv \in [free : SUBSET Pages, refs : [Pages -> Nat], blocks : {kv.blocks},
                  evictable : SUBSET (Nat \X Pages), caching : BOOLEAN, seqs : {kv.seqs}]
        BY <2>1 DEF NewManager
    <2>. QED
        BY <2>2, <1>1, <1>2, FS_EmptySet DEF IsManager
<1>5. Accounted(kv)
    <2>1. \A p \in Pages : kv.refs[p] = 0 /\ kv.blocks[p] = NoBlock
        BY <1>1
    <2>2. \A p \in Pages : Cardinality(Holders(kv, p)) = 0
        BY <1>3, FS_EmptySet
    <2>. QED
        BY <2>1, <2>2, <1>1, <1>2 DEF Accounted
<1>6. Shared(kv)
    BY <1>2, <1>3 DEF Shared
<1>. QED
    BY <1>2, <1>4, <1>5, <1>6 DEF KvInv

LEMMA KvStep == KvInv(kv) /\ [KvNext]_kv => KvInv(kv')
<1>. SUFFICES ASSUME KvInv(kv), [KvNext]_kv PROVE KvInv(kv')
    OBVIOUS
<1>1. DOMAIN kv.seqs \subseteq Requests
    BY DEF KvInv, IsManager
<1>2. ASSUME NEW enabled \in BOOLEAN, kv' = SetPrefixCaching(kv, enabled) PROVE KvInv(kv')
    BY <1>2, SetCachingKeeps
<1>3. ASSUME NEW r \in Requests, NEW tokens \in Texts, CreateStep(r, tokens) PROVE KvInv(kv')
    BY <1>3, TextIsSequence, CreateKeeps, CreateWithPrefixKeeps, Zenon DEF CreateStep
<1>4. ASSUME NEW r \in DOMAIN kv.seqs, NEW n \in 1 .. MaxSequenceLength, BeginStep(r, n)
      PROVE  KvInv(kv')
    <2>1. n \in Nat
        BY KvConfig
    <2>. QED
        BY <2>1, <1>4, BeginKeeps DEF BeginStep
<1>5. ASSUME NEW r \in DOMAIN kv.seqs, NEW n \in 1 .. MaxSequenceLength, ExtendStep(r, n)
      PROVE  KvInv(kv')
    <2>1. n \in Nat
        BY KvConfig
    <2>. QED
        BY <2>1, <1>5, ExtendKeeps DEF ExtendStep
<1>6. ASSUME NEW r \in DOMAIN kv.seqs, NEW n, CommitStep(r, n) PROVE KvInv(kv')
    BY <1>6, CommitKeeps DEF CommitStep
<1>7. ASSUME NEW r \in DOMAIN kv.seqs, NEW tokens \in Texts, kv' = RegisterPrefix(kv, r, tokens)
      PROVE  KvInv(kv')
    BY <1>7, TextIsSequence, RegisterKeeps
<1>8. ASSUME NEW r \in DOMAIN kv.seqs, CancelStep(r) PROVE KvInv(kv')
    BY <1>8, CancelKeeps DEF CancelStep
<1>9. ASSUME NEW r \in DOMAIN kv.seqs, RemoveStep(r) PROVE KvInv(kv')
    BY <1>9, RemoveKeeps DEF RemoveStep
<1>10. CASE UNCHANGED kv
    BY <1>10
<1>. QED
    BY <1>2, <1>3, <1>4, <1>5, <1>6, <1>7, <1>8, <1>9, <1>10, ZenonT(30) DEF KvNext

LEMMA KvInductive == KvSpec => []KvInv(kv)
<1>1. KvInv(kv) /\ [KvNext]_kv => KvInv(kv)'
    BY KvStep
<1>. QED
    BY <1>1, InitialKv, PTL DEF KvSpec

\* Whatever sequence of calls PagedKvCache accepts, with any pool, block size and requests:
\* every page is free, cached or referenced, never two of these, and page_refs counts the
\* block tables that hold it (allocate_page, acquire_cached, release_page).
THEOREM PagesAreAccounted == KvSpec => []PagesAccounted
<1>1. KvInv(kv) => PagesAccounted
    BY ZenonT(30) DEF KvInv, Accounted, PagesAccounted
<1>. QED
    BY <1>1, KvInductive, PTL

\* The promise of begin_append that shared pages are never written: the pages an open
\* reservation may write have one holder and are not in the prefix cache's index, whatever
\* is created with a prefix, registered, extended or released meanwhile.
THEOREM WritesAreExclusive == KvSpec => []WritesArePrivate
<1>1. ASSUME KvInv(kv), NEW r \in DOMAIN kv.seqs,
             NEW i \in kv.seqs[r].committed \div BlockSize + 1 .. Len(kv.seqs[r].pages)
      PROVE  /\ Holders(kv, kv.seqs[r].pages[i]) = {r}
             /\ kv.blocks[kv.seqs[r].pages[i]] = NoBlock
    <2>. DEFINE s == kv.seqs[r]
                p == s.pages[i]
                done == s.committed \div BlockSize
    <2>1. /\ s.pages \in Seq(Pages) /\ Len(s.pages) \in Nat /\ s.committed \in Nat
          /\ DOMAIN s.pages = 1 .. Len(s.pages)
        BY <1>1 DEF KvInv, IsManager, IsSequence
    <2>2. done \in Nat
        BY <2>1, Quotient, Zenon
    <2>3. i \in DOMAIN s.pages /\ ~(i <= done)
        <3>. HIDE DEF done
        <3>1. i \in done + 1 .. Len(s.pages)
            BY SMTT(30) DEF done
        <3>. QED
            BY <3>1, <2>1, <2>2
    <2>4. kv.blocks[p] = NoBlock
        BY <2>3, <1>1 DEF KvInv, Shared
    <2>5. p \in Pages /\ r \in Holders(kv, p)
        BY <2>1, <2>3, ElementsFacts, Zenon DEF Holders
    <2>6. \A q \in Holders(kv, p) : q = r
        BY <2>4, <2>5, <1>1, Zenon DEF KvInv, Shared
    <2>. QED
        BY <2>4, <2>5, <2>6
<1>2. KvInv(kv) => WritesArePrivate
    BY <1>1, Zenon DEF WritesArePrivate
<1>. QED
    BY <1>2, KvInductive, PTL
=============================================================================
