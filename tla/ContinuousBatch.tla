-------------------------- MODULE ContinuousBatch --------------------------
(***************************************************************************)
(* The continuous batching scheduler of ruLLM                               *)
(* (src/ruLLM/src/continuous_batch.rs and continuous_batch/lifecycle.rs)    *)
(* on top of the paged KV manager (PagedKv), under its two drivers:         *)
(*   "paged"   PagedLlamaBatcher (paged_engine.rs): prompts in chunks,      *)
(*             preemption with recomputation, prefix caching, speculative   *)
(*             decoding;                                                    *)
(*   "device"  DeviceBatchExecutor (continuous_batch/device.rs): whole      *)
(*             prompts, KV capacity reserved at admission, lookahead.       *)
(* Calls arrive in any order between the steps; of the device there is its  *)
(* KV memory, written only through the block tables.  The KV entry of a     *)
(* position depends on all tokens up to it, so the entry is that run of     *)
(* tokens.  The model is the function NextToken: what it answers for a row  *)
(* is right exactly when the row's block table holds the row's own past.    *)
(*                                                                          *)
(* Requests are greedy (no sampler); statistics are left out, and so are    *)
(* the contexts that dynamic RoPE scaling keeps beside the pages            *)
(* (paged_engine/rotary.rs): there an entry depends on more than tokens.    *)
(***************************************************************************)
EXTENDS PagedKv, SequencesExt

CONSTANTS NextToken(_),        \* the model: the token after a run of tokens
          Eos,                 \* GreedyGenerationConfig::eos_token_ids
          Asked,               \* what clients ask for, by request: pairs of a prompt and
                               \* max_new_tokens
          MaxActive,           \* ContinuousBatchConfig::max_active_sequences
          TokenLimits,         \* values of max_batch_tokens; the largest is the first
          DraftTokens, Ngram,  \* SpeculativeConfig
          LookaheadTokens,     \* DeviceBatchModel::lookahead_tokens
          Drivers,
          Budget               \* bound: failed batches and changed settings

ASSUME BatchConfig ==
    /\ Requests \subseteq Nat
    /\ MaxActive > 0 /\ 0 \notin TokenLimits
    /\ DraftTokens > 0 /\ Ngram > 0

VARIABLES
    driver,
    limit,                     \* config.max_batch_tokens
    speculative,               \* is a SpeculativeConfig set?
    pending, active, finished, in_flight,   \* finished as a set: its order is left out
    prefer_prefill, speculative_turn,
    next_request, next_admission,
    mem,                       \* the device's KV memory: mem[page][offset]
    cancelled,                 \* the requests cancel returned
    spent                      \* of Budget

settings == <<driver, limit, speculative>>
turns == <<prefer_prefill, speculative_turn>>
results == <<finished, cancelled>>
vars == <<kv, settings, pending, active, in_flight, turns, results, next_request, next_admission,
          mem, spent>>

Paged == driver = "paged"
NoBatch == [kind |-> "none", rows |-> <<>>]
Garbage == <<0>>
Ascending(S) == SetToSortSeq(S, LAMBDA a, b : a < b)
Removed(f, x) == Restrict(f, DOMAIN f \ {x})

Generated(request) == SubSeq(request.history, Len(request.prompt) + 1, Len(request.history))
PageBudget(request) == PagesFor(Len(request.prompt) + request.max_new - 1)
Begin(k, r, n) ==
    BeginAppend(k, r, n, CHOOSE t \in Allocations(k, Additional(k, r, k.seqs[r].committed + n)) : TRUE)

-----------------------------------------------------------------------------
(* submit, cancel and the settings *)

Submit(prompt, max_new) ==
    LET request == [id |-> next_request, prompt |-> prompt, max_new |-> max_new]
    IN /\ next_request \in Requests
       /\ prompt # <<>>
       /\ Paged \/ Len(prompt) <= limit
       /\ Len(prompt) + max_new <= MaxSequenceLength
       /\ max_new > 0 =>
            (IF Paged THEN PagesFor(Len(prompt)) ELSE PageBudget(request)) <= NumPages
       /\ next_request' = next_request + 1
       /\ IF max_new = 0
            THEN /\ finished' = finished \cup {[id |-> next_request, prompt |-> prompt,
                                                max_new |-> 0, generated |-> <<>>]}
                 /\ UNCHANGED pending
            ELSE /\ pending' = Append(pending, request)
                 /\ UNCHANGED finished
       /\ UNCHANGED <<kv, settings, active, in_flight, turns, next_admission, mem, cancelled,
                      spent>>

\* An in-flight request is refused: its pages may still be written.
Cancel(r) ==
    /\ \/ /\ \E i \in DOMAIN pending : pending[i].id = r
          /\ pending' = SelectSeq(pending, LAMBDA q : q.id # r)
          /\ UNCHANGED <<kv, active>>
       \/ /\ r \in DOMAIN active
          /\ active[r].phase # "in_flight"
          /\ kv' = RemoveSequence(kv, r)
          /\ active' = Removed(active, r)
          /\ UNCHANGED pending
    /\ cancelled' = cancelled \cup {r}
    /\ UNCHANGED <<settings, finished, in_flight, turns, next_request, next_admission, mem, spent>>

\* A whole prompt that waits for its prefill has to fit the new limit.
SetBatchTokenLimit(n) ==
    LET waiting == {Len(pending[i].prompt) : i \in DOMAIN pending}
                   \cup {Len(active[r].prompt) : r \in {q \in DOMAIN active : active[q].phase = "prefill"}}
    IN /\ in_flight = NoBatch
       /\ Paged \/ \A len \in waiting : len <= n
       /\ spent < Budget
       /\ limit' = n /\ n # limit
       /\ spent' = spent + 1
       /\ UNCHANGED <<kv, driver, speculative, pending, active, in_flight, turns, results,
                      next_request, next_admission, mem>>

\* set_prefix_caching; the paged driver only.
SetCaching ==
    /\ Paged
    /\ spent < Budget
    /\ kv' = SetPrefixCaching(kv, ~kv.caching)
    /\ spent' = spent + 1
    /\ UNCHANGED <<settings, pending, active, in_flight, turns, results, next_request,
                   next_admission, mem>>

SetSpeculativeDecoding ==
    /\ Paged
    /\ spent < Budget
    /\ speculative' = ~speculative
    /\ spent' = spent + 1
    /\ UNCHANGED <<kv, driver, limit, pending, active, in_flight, turns, results, next_request,
                   next_admission, mem>>
-----------------------------------------------------------------------------
(* schedule.  It works on a copy w of the fields it may change. *)

\* promote_pending: first come first served, until the batch or the page budget is full.
PromotePending(w) ==
    LET budget(n) == FoldSeq(LAMBDA r, sum : sum + PageBudget(r), 0, SubSeq(w.pending, 1, n))
                     + MapThenSumSet(LAMBDA r : PageBudget(w.active[r]), DOMAIN w.active)
        fits(n) == /\ Cardinality(DOMAIN w.active) + n <= MaxActive
                   /\ Paged \/ budget(n) <= NumPages
        ready == Max({n \in 0 .. Len(w.pending) : n = 0 \/ \A i \in 1 .. n : fits(i)})
        admit(v, q) ==
            [v EXCEPT !.kv = CreateSequenceWithPrefix(v.kv, q.id, q.prompt,
                               CHOOSE m \in 0 .. MaxSequenceLength : Matched(v.kv, q.prompt, m)),
                      !.active = q.id :> [prompt |-> q.prompt, max_new |-> q.max_new,
                                          history |-> q.prompt, admitted |-> v.admission,
                                          phase |-> "prefill", token |-> 0] @@ @,
                      !.admission = @ + 1]
    IN [FoldLeft(admit, w, SubSeq(w.pending, 1, ready))
          EXCEPT !.pending = SubSeq(@, ready + 1, Len(@))]

\* One row: the request's next tokens, if its pages can be reserved and there is room.
AddRow(acc, r, tokens, max_rows) ==
    IF Len(acc.rows) >= max_rows \/ ~CanAppend(acc.kv, r, Len(tokens)) THEN acc
    ELSE [kv |-> Begin(acc.kv, r, Len(tokens)),
          rows |-> Append(acc.rows, [id |-> r, tokens |-> tokens,
                                     start |-> acc.kv.seqs[r].committed])]

Rows(w, requests, tokens(_), max_rows) ==
    FoldLeft(LAMBDA acc, r : AddRow(acc, r, tokens(r), max_rows), [kv |-> w.kv, rows |-> <<>>],
             Ascending(requests))

Decoding(w) == {r \in DOMAIN w.active : w.active[r].phase = "decode"}

\* ngram_draft: what followed the latest earlier occurrence of the longest suffix.
NgramDraft(h) ==
    LET earlier(n) == {i \in 0 .. Len(h) - n - 1 :
                         SubSeq(h, i + 1, i + n) = SubSeq(h, Len(h) - n + 1, Len(h))}
        lengths == {n \in 1 .. Lowest(Ngram, Len(h) - 1) : earlier(n) # {}}
        from == Max(earlier(Max(lengths))) + Max(lengths)
    IN IF lengths = {} THEN <<>> ELSE SubSeq(h, from + 1, Lowest(from + DraftTokens, Len(h)))

\* schedule_verify: rows of the last token and a draft padded to its full width.
ScheduleVerify(w) ==
    LET drafted == {r \in Decoding(w) :
                      /\ w.active[r].max_new - Len(Generated(w.active[r])) >= 2
                      /\ NgramDraft(w.active[r].history) # <<>>}
        tokens(r) == LET draft == NgramDraft(w.active[r].history)
                     IN <<w.active[r].token>>
                        \o [i \in 1 .. DraftTokens |-> draft[Lowest(i, Len(draft))]]
    IN Rows(w, IF speculative THEN drafted ELSE {}, tokens, limit \div (DraftTokens + 1))

ScheduleDecode(w) == Rows(w, Decoding(w), LAMBDA r : <<w.active[r].token>>, limit)

\* The length of a request's next chunk: the whole rest of its history unless chunked.
\* Mutant: chunks of the smallest limit there ever was.
PrefillChunk_Fixed(w, r) ==
    Lowest(Len(w.active[r].history) - w.kv.seqs[r].committed, Min(TokenLimits))
PrefillChunk(w, r) ==
    LET rest == Len(w.active[r].history) - w.kv.seqs[r].committed
    IN Lowest(IF rest > 0 THEN rest ELSE 0,
              IF Paged THEN Lowest(limit, Max(TokenLimits)) ELSE limit)

\* schedule_prefill: rows of one shape; the shape that fills the batch best, and of
\* equally good ones the one with the oldest request.
SchedulePrefill(w) ==
    LET ready == {r \in DOMAIN w.active : /\ w.active[r].phase = "prefill"
                                          /\ PrefillChunk(w, r) > 0
                                          /\ CanAppend(w.kv, r, PrefillChunk(w, r))}
        shape(r) == <<PrefillChunk(w, r), w.kv.seqs[r].committed # 0>>
        bucket(r) == {q \in ready : shape(q) = shape(r)}
        useful(r) == Lowest(Cardinality(bucket(r)), limit \div PrefillChunk(w, r)) * PrefillChunk(w, r)
        best == {r \in ready : \A q \in ready : useful(q) <= useful(r)}
        chosen == CHOOSE r \in best : \A q \in best : r <= q
        tokens(r) == LET from == w.kv.seqs[r].committed
                     IN SubSeq(w.active[r].history, from + 1, from + PrefillChunk(w, r))
    IN IF ready = {} THEN [kv |-> w.kv, rows |-> <<>>]
       ELSE Rows(w, bucket(chosen), tokens, limit \div PrefillChunk(w, chosen))

\* finish_schedule: the batch becomes the in-flight one.
FinishSchedule(w, kind, scheduled, prefer) ==
    [w EXCEPT !.kv = scheduled.kv,
              !.batch = [kind |-> kind, rows |-> scheduled.rows],
              !.prefer = prefer,
              !.active = [r \in DOMAIN @ |->
                            IF \E i \in DOMAIN scheduled.rows : scheduled.rows[i].id = r
                              THEN [@[r] EXCEPT !.phase = "in_flight", !.token = 0] ELSE @[r]]]

TrySchedule(w) ==
    LET prefill == SchedulePrefill(w)
        turn == ~w.turn
        v == [w EXCEPT !.turn = turn]
        verify == ScheduleVerify(w)
        decode == ScheduleDecode(w)
    IN IF w.prefer /\ prefill.rows # <<>> THEN FinishSchedule(w, "prefill", prefill, FALSE)
       ELSE IF turn /\ verify.rows # <<>> THEN FinishSchedule(v, "verify", verify, TRUE)
       ELSE IF decode.rows # <<>> THEN FinishSchedule(v, "decode", decode, TRUE)
       ELSE IF prefill.rows # <<>> THEN FinishSchedule(v, "prefill", prefill, FALSE)
       ELSE v

\* preempt_newest: the newest of at least two page holders gives its pages up and is
\* prefilled again later.  Mutant: nobody is found.
Holding_None(w) == {}
Holding(w) == {r \in DOMAIN w.active : w.kv.seqs[r].pages # <<>>}
PreemptNewest(w) ==
    LET victim == CHOOSE r \in Holding(w) :
                    \A q \in Holding(w) : w.active[q].admitted <= w.active[r].admitted
    IN [w EXCEPT !.kv = CreateSequence(RemoveSequence(w.kv, victim), victim),
                 !.active[victim] = [@ EXCEPT !.phase = "prefill", !.token = 0],
                 !.prefer = FALSE]

RECURSIVE ScheduleFrom(_)
ScheduleFrom(w) ==
    LET v == TrySchedule(w)
    IN IF v.batch # NoBatch \/ ~Paged \/ Cardinality(Holding(v)) <= 1 THEN v
       ELSE ScheduleFrom(PreemptNewest(v))

\* reserve_lookahead: decode rows of the device driver reserve further positions.
ReserveLookahead(w) ==
    LET extend(acc, row) ==
          LET request == w.active[row.id]
              s == acc.kv.seqs[row.id]
              extra == Lowest(Lowest(LookaheadTokens, acc.budget),
                         Lowest(request.max_new - Len(Generated(request)) - 1,
                                MaxSequenceLength - (s.committed + 1)))
              need == Additional(acc.kv, row.id, s.committed + 1 + extra)
          IN IF extra > 0 /\ need <= AvailablePages(acc.kv)
               THEN [kv |-> ExtendAppend(acc.kv, row.id, extra, CHOOSE t \in Allocations(acc.kv, need) : TRUE),
                     budget |-> acc.budget - extra]
               ELSE acc
    IN IF Paged \/ w.batch.kind # "decode" THEN w
       ELSE [w EXCEPT !.kv = FoldLeft(extend, [kv |-> w.kv, budget |-> limit - Len(w.batch.rows)],
                                      w.batch.rows).kv]

Schedule ==
    LET w == [kv |-> kv, pending |-> pending, active |-> active, batch |-> NoBatch,
              prefer |-> prefer_prefill, turn |-> speculative_turn, admission |-> next_admission]
        v == ReserveLookahead(ScheduleFrom(PromotePending(w)))
    IN /\ in_flight = NoBatch
       /\ UNCHANGED <<settings, results, next_request, mem, spent>>
       /\ kv' = v.kv
       /\ pending' = v.pending
       /\ active' = v.active
       /\ in_flight' = v.batch
       /\ prefer_prefill' = v.prefer
       /\ speculative_turn' = v.turn
       /\ next_admission' = v.admission

-----------------------------------------------------------------------------
(* The device: it writes the positions a row reserved and reads all before them *)

Slot(k, r, position) ==
    <<k.seqs[r].pages[position \div BlockSize + 1], position % BlockSize>>

\* The row's past as the scheduler knows it, followed by the row's own tokens.
Context(row) == SubSeq(active[row.id].history, 1, row.start) \o row.tokens

\* The entry at a position of the row is its context up to there; lookahead positions
\* past the row hold what the device guessed.
Entry(row, position) ==
    IF position < Len(Context(row)) THEN SubSeq(Context(row), 1, position + 1) ELSE Garbage

Reserved(row) == row.start .. row.start + kv.seqs[row.id].count - 1

\* Memory after the rows of the in-flight batch wrote value(row, position) to the slots
\* they reserved.
Written(value(_, _)) ==
    LET writes == {<<Slot(kv, row.id, position), value(row, position)>> :
                     <<row, position>> \in
                       UNION {{row} \X Reserved(row) : row \in ToSet(in_flight.rows)}}
    IN [p \in Pages |-> [o \in 0 .. BlockSize - 1 |->
          IF \E w \in writes : w[1] = <<p, o>>
            THEN (CHOOSE w \in writes : w[1] = <<p, o>>)[2] ELSE mem[p][o]]]

\* The token the model selects after the first n tokens of the row's context: the right
\* one if the entries it attends to are those tokens'.
Predict(row, n) ==
    LET after == Written(Entry)
        read(position) == LET slot == Slot(kv, row.id, position) IN after[slot[1]][slot[2]]
    IN IF \A position \in 0 .. n - 1 : read(position) = SubSeq(Context(row), 1, position + 1)
         THEN NextToken(SubSeq(Context(row), 1, n)) ELSE 0

-----------------------------------------------------------------------------
(* complete_batch, complete_verify_batch and fail_batch *)

Commit(k, rows, count(_)) == FoldLeft(LAMBDA a, row : CommitAppend(a, row.id, count(row)), k, rows)
Register(k, rows, history(_)) ==
    FoldLeft(LAMBDA a, row : RegisterPrefix(a, row.id, history(row)), k, rows)

\* Tokens a row appends to its request: it stays active, to decode the last of them, or
\* is finished and leaves its pages.
Extended(request, tokens) ==
    [request EXCEPT !.history = @ \o tokens, !.phase = "decode", !.token = Last(tokens)]
IsFinished(request) ==
    Last(request.history) \in Eos \/ Len(Generated(request)) >= request.max_new
Finish(acc, row, tokens) ==
    LET request == Extended(acc.active[row.id], tokens)
    IN IF IsFinished(request)
         THEN [kv |-> RemoveSequence(acc.kv, row.id), active |-> Removed(acc.active, row.id),
               finished |-> acc.finished \cup
                              {[id |-> row.id, prompt |-> request.prompt,
                                max_new |-> request.max_new, generated |-> Generated(request)]}]
         ELSE [acc EXCEPT !.active[row.id] = request]

Settle(v) ==
    /\ kv' = v.kv /\ active' = v.active /\ finished' = v.finished
    /\ in_flight' = NoBatch
    /\ mem' = Written(Entry)
    /\ UNCHANGED <<settings, pending, turns, cancelled, next_request, next_admission, spent>>

CompleteBatch ==
    LET rows == in_flight.rows
        committed == Commit(kv, rows, LAMBDA row : Len(row.tokens))
        registered == Register(committed, rows, LAMBDA row : active[row.id].history)
        apply(acc, row) ==
          IF row.start + Len(row.tokens) < Len(active[row.id].history)
            THEN [acc EXCEPT !.active[row.id].phase = "prefill"]
            ELSE Finish(acc, row, <<Predict(row, row.start + Len(row.tokens))>>)
    IN /\ in_flight.kind \in {"prefill", "decode"}
       /\ Settle(FoldLeft(apply, [kv |-> registered, active |-> active, finished |-> finished], rows))

\* The predictions a verification row accepts: up to the first that ends the request or
\* that the draft did not foresee.  Mutant: all of them.
Produced_All(row) == [i \in DOMAIN row.tokens |-> Predict(row, row.start + i)]
Produced(row) ==
    LET request == active[row.id]
        prediction(i) == Predict(row, row.start + i)
        stop(i) == \/ i = request.max_new - Len(Generated(request))
                   \/ prediction(i) \in Eos
                   \/ i = Len(row.tokens) \/ row.tokens[i + 1] # prediction(i)
    IN [i \in 1 .. Min({j \in 1 .. Len(row.tokens) : stop(j)}) |-> prediction(i)]

CompleteVerifyBatch ==
    LET apply(acc, row) ==
          LET tokens == Produced(row)
              committed == CommitAppend(acc.kv, row.id, Len(tokens))
              registered == RegisterPrefix(committed, row.id, active[row.id].history \o tokens)
          IN Finish([acc EXCEPT !.kv = registered], row, tokens)
    IN /\ in_flight.kind = "verify"
       /\ Settle(FoldLeft(apply, [kv |-> kv, active |-> active, finished |-> finished], in_flight.rows))

\* A failed batch may have written anything to the slots it reserved.
FailBatch ==
    LET rows == in_flight.rows
        row(r) == CHOOSE x \in ToSet(rows) : x.id = r
    IN /\ in_flight # NoBatch
       /\ spent < Budget
       /\ spent' = spent + 1
       /\ kv' = FoldLeft(LAMBDA a, x : CancelAppend(a, x.id), kv, rows)
       /\ active' = [r \in DOMAIN active |->
                       IF active[r].phase # "in_flight" THEN active[r]
                       ELSE IF in_flight.kind = "prefill" THEN [active[r] EXCEPT !.phase = "prefill"]
                       ELSE [active[r] EXCEPT !.phase = "decode", !.token = row(r).tokens[1]]]
       /\ in_flight' = NoBatch
       /\ mem' \in {mem, Written(LAMBDA x, position : Garbage)}
       /\ UNCHANGED <<settings, pending, turns, results, next_request, next_admission>>
-----------------------------------------------------------------------------
Init ==
    /\ driver \in Drivers
    /\ \E caching \in (IF Paged THEN BOOLEAN ELSE {FALSE}) : kv = SetPrefixCaching(NewManager, caching)
    /\ speculative \in (IF Paged THEN BOOLEAN ELSE {FALSE})
    /\ limit = Max(TokenLimits)
    /\ pending = <<>> /\ active = <<>> /\ finished = {} /\ in_flight = NoBatch
    /\ prefer_prefill = TRUE /\ speculative_turn = FALSE
    /\ next_request = 1 /\ next_admission = 0
    /\ mem = [p \in Pages |-> [o \in 0 .. BlockSize - 1 |-> Garbage]]
    /\ cancelled = {} /\ spent = 0

Next ==
    \/ \E r \in Requests : \E ask \in Asked[r] : next_request = r /\ Submit(ask[1], ask[2])
    \/ \E r \in Requests : Cancel(r)
    \/ \E n \in TokenLimits : SetBatchTokenLimit(n)
    \/ SetCaching
    \/ SetSpeculativeDecoding
    \/ Schedule
    \/ CompleteBatch
    \/ CompleteVerifyBatch
    \/ FailBatch

\* The batch in flight is completed or fails.
Settled == in_flight # NoBatch /\ in_flight' = NoBatch

\* The drivers step as long as there is work: the first conjunct is weak fairness of
\* Schedule, which is enabled while no batch is in flight.  PagedLlamaBatcher::step completes
\* or fails the batch it scheduled; the device driver leaves it in flight, for good, when
\* sync_batch fails (device.rs:157-160).
Fairness == /\ []<>(in_flight # NoBatch) \/ []<><<Schedule>>_vars
            /\ WF_in_flight(Paged /\ Settled)
Spec == Init /\ [][Next]_vars /\ Fairness

-----------------------------------------------------------------------------
(* Properties *)

TypeOK ==
    /\ kv.free \subseteq Pages /\ kv.refs \in [Pages -> 0 .. Cardinality(Requests)]
    /\ DOMAIN kv.seqs = DOMAIN active
    /\ \A r \in DOMAIN active :
         /\ active[r].phase \in {"prefill", "decode", "in_flight"}
         /\ kv.seqs[r].committed \in 0 .. MaxSequenceLength
         /\ kv.seqs[r].count > 0 <=> active[r].phase = "in_flight"
         /\ Len(kv.seqs[r].pages) = PagesFor(kv.seqs[r].committed + kv.seqs[r].count)
    /\ Cardinality(DOMAIN active) <= MaxActive
    /\ \A i \in DOMAIN in_flight.rows : active[in_flight.rows[i].id].phase = "in_flight"

\* The KV entries a sequence has committed are those of its own history, whatever
\* happened to the pages before: shared through the prefix cache, evicted, preempted and
\* prefilled again, written by a failed batch or by a rejected draft (paged_kv.rs:109-118).
CommittedIsHistory ==
    \A r \in DOMAIN active :
      /\ kv.seqs[r].committed <= Len(active[r].history)
      /\ \A position \in 0 .. kv.seqs[r].committed - 1 :
           LET slot == Slot(kv, r, position)
           IN mem[slot[1]][slot[2]] = SubSeq(active[r].history, 1, position + 1)

\* A block of the index holds the entries its key promises to whoever maps it
\* (register_prefix publishes complete blocks only, drop_cached_block withdraws them).
PublishedIsComputed ==
    \A p \in Pages :
      kv.blocks[p] # NoBlock =>
        \A o \in 0 .. BlockSize - 1 :
          mem[p][o] = SubSeq(kv.blocks[p], 1, Len(kv.blocks[p]) - BlockSize + o + 1)

Greedy(prompt, max_new) ==
    LET run[n \in 0 .. max_new] ==
          IF n = 0 THEN <<>>
          ELSE IF n > 1 /\ Last(run[n - 1]) \in Eos THEN run[n - 1]
          ELSE Append(run[n - 1], NextToken(prompt \o run[n - 1]))
    IN run[max_new]

\* "Its output is unchanged" by preemption (continuous_batch.rs:229), "outputs are
\* identical to plain greedy decoding" with drafts (continuous_batch.rs:328): the answer to
\* a request is what the model generates for it alone, and what is generated so far is the
\* beginning of it.
OutputIsGreedy ==
    /\ \A f \in finished : f.generated = Greedy(f.prompt, f.max_new)
    /\ \A r \in DOMAIN active :
         IsStrictPrefix(Generated(active[r]), Greedy(active[r].prompt, active[r].max_new))

\* schedule never returns None while there is work: the error "continuous batch stalled"
\* of run_until_idle (paged_engine.rs:537) does not occur for requests that fit the pool,
\* thanks to preemption or to the reserved capacity.
NeverStalls == [][in_flight = NoBatch /\ Schedule /\ in_flight' = NoBatch
                    => pending' = <<>> /\ DOMAIN active' = {}]_vars

\* Every request is answered or cancelled in the end.  The victim of a preemption is
\* "recomputed later" (continuous_batch.rs:229), after "older requests decode into the
\* released pages" (continuous_batch.rs:503).
RequestsFinish ==
    \A r \in Requests :
      r < next_request ~> r \in cancelled \/ \E f \in finished : f.id = r

\* Preemption does not go on for ever (preempt_newest) as long as a batch takes the whole rest
\* of any history: the requests all finish under the paged driver with a token limit that no
\* history exceeds, and under the device driver, which does not preempt, if no sync_batch
\* fails.  This is said of finitely many requests: newer ones may overtake an older one
\* (schedule_prefill prefers the fuller batch), and an endless supply of them may starve it.
WholeHistoriesFinish ==
    [](~Paged \/ limit >= MaxSequenceLength) /\ []<>(in_flight = NoBatch) => RequestsFinish
=============================================================================
