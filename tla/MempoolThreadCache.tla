------------------------- MODULE MempoolThreadCache --------------------------
(***************************************************************************)
(* ThreadCacheMemPool, the memory pool of a trie with several writers: a   *)
(* fixed range of offsets from which every thread takes chunks by a CAS,   *)
(* and one TCMemPoolOneThread ("tc", an object of instance_tls_owner) per  *)
(* thread that cuts blocks out of its chunk, its "hot area", and keeps     *)
(* freed blocks in lists of its own.  A block may be freed by another      *)
(* thread than the one that allocated it.  When a thread ends its tc waits *)
(* for a new one.                                                          *)
(*                                                                         *)
(* Offsets and lengths are counted in units of AlignSize.  A free list is  *)
(* the sequence of its blocks, head first; their counters are lengths.     *)
(* fragment_size and m_frag_inc are plain integers that are added to and   *)
(* subtracted from without a lock by the thread of the tc, and by          *)
(* sync_frag_size of any thread: each such update is a load and a store.   *)
(***************************************************************************)
EXTENDS InstanceTls, FiniteSetsExt

CONSTANTS Cap,           \* mem::c
          ChunkSize,     \* m_chunk_size
          BaseOff,       \* the address of mem::p, modulo ChunkSize
          FastMax,       \* m_freelist_head.size()
          FragMax,       \* 256K: how much m_frag_inc may gather
          Dim,           \* the batch of for_each_tls
          Len1,          \* the lengths that callers ask for
          Populate       \* the sizes with which tc_populate is called

ASSUME PoolAssumption ==
    /\ Cap \in Nat /\ FastMax \in Nat \ {0} /\ FragMax \in Nat /\ Dim \in Nat \ {0}
    /\ ChunkSize \in Nat \ {0} /\ BaseOff \in 0..(ChunkSize - 1)
    /\ Len1 \subseteq Nat \ {0} /\ Populate \subseteq Nat

VARIABLES
    mem_n,           \* mem::n, the end of the chunks that were taken
    tc,              \* the fields of every tc
    fragment_size,   \* of the pool
    used,            \* the blocks that callers have
    req,             \* local variables of the operation each thread is in
    racy,            \* two updates of the statistics overlapped
    readonly         \* set_readonly was called

poolVars == <<mem_n, tc, fragment_size, used, req, racy, readonly>>
vars == <<tlsVars, poolVars>>

Pool == 1      \* the pool is owner 1
Fail == -1
NoBlock == [pos |-> 0, len |-> 0]
NoReq == [op |-> "none", blk |-> NoBlock, len |-> 0, chunk |-> NoBlock, inc |-> 0,
          i |-> 0, n |-> 0, batch |-> <<>>, sum |-> 0]

NewTc == [fragment_size |-> 0, m_frag_inc |-> 0,
          m_freelist_head |-> [k \in 1..FastMax |-> <<>>],
          m_hot_pos |-> 0, m_hot_end |-> 0,
          huge_list |-> <<>>, huge_size_sum |-> 0, huge_node_cnt |-> 0]

PoolInit ==
    /\ mem_n = 0 /\ fragment_size = 0 /\ used = {} /\ racy = FALSE /\ readonly = FALSE
    /\ tc = [t \in {Pool} \X Thread |-> NewTc]
    /\ req = [th \in Thread |-> NoReq]

-----------------------------------------------------------------------------
(* TCMemPoolOneThread.  Its functions map the pair of a tc and of the      *)
(* pool's fragment_size, x = [c |-> ..., f |-> ...], to a new pair.        *)

reduce_frag_size(x, request) ==
    LET inc == x.c.m_frag_inc - request
        flush == inc < -FragMax
    IN  [c |-> [x.c EXCEPT !.fragment_size = @ - request,
                           !.m_frag_inc = IF flush THEN 0 ELSE inc],
         f |-> IF flush THEN x.f + inc ELSE x.f]

\* The end of sfree.
IncreaseFragSize(x, len) ==
    LET inc == x.c.m_frag_inc + len
        flush == inc > FragMax
    IN  [c |-> [x.c EXCEPT !.fragment_size = @ + len,
                           !.m_frag_inc = IF flush THEN 0 ELSE inc],
         f |-> IF flush THEN x.f + inc ELSE x.f]

sfree(x, pos, len) ==
    IF pos + len = x.c.m_hot_pos THEN [x EXCEPT !.c.m_hot_pos = pos]
    ELSE IF len <= FastMax
    THEN IncreaseFragSize([x EXCEPT !.c.m_freelist_head[len] = <<pos>> \o @], len)
    ELSE IncreaseFragSize(
             [x EXCEPT !.c.huge_list = <<[pos |-> pos, len |-> len]>> \o @,
                       !.c.huge_size_sum = @ + len, !.c.huge_node_cnt = @ + 1], len)

\* The hot area, if there is any, becomes a free block.
FreeHotArea(x) ==
    IF x.c.m_hot_pos < x.c.m_hot_end
    THEN sfree(x, x.c.m_hot_pos, x.c.m_hot_end - x.c.m_hot_pos) ELSE x

SetHot(x, pos, end) == [x EXCEPT !.c.m_hot_pos = pos, !.c.m_hot_end = end]

(* Operators named Slip... are wrong variants of the definition after them. *)

SlipSetHotArea(x, pos, len) ==
    IF x.c.m_hot_end = pos THEN SetHot(x, x.c.m_hot_pos, pos + len)
    ELSE SetHot(x, pos, pos + len)
set_hot_area(x, pos, len) ==
    IF x.c.m_hot_end = pos THEN SetHot(x, x.c.m_hot_pos, pos + len)
    ELSE SetHot(FreeHotArea(x), pos, pos + len)

\* The ways in which alloc finds a block, in the order in which it tries them.
FromFreeList(x, request) ==
    [x |-> reduce_frag_size([x EXCEPT !.c.m_freelist_head[request] = Tail(@)], request),
     pos |-> Head(x.c.m_freelist_head[request])]

\* A block of twice the size is cut in halves.
FromDouble(x, request) ==
    LET pos == Head(x.c.m_freelist_head[2 * request])
    IN  [x |-> reduce_frag_size(
                   [x EXCEPT !.c.m_freelist_head[2 * request] = Tail(@),
                             !.c.m_freelist_head[request] = <<pos + request>>], request),
         pos |-> pos]

FromHot(x, request) ==
    [x |-> SetHot(x, x.c.m_hot_pos + request, x.c.m_hot_end), pos |-> x.c.m_hot_pos]

PopHuge(x) ==
    LET len == Head(x.c.huge_list).len
    IN  [x EXCEPT !.c.huge_list = Tail(@), !.c.huge_size_sum = @ - len,
                  !.c.huge_node_cnt = @ - 1]

\* For a small block the first huge one becomes the hot area, ...
HugeToHot(x, request) ==
    LET b == Head(x.c.huge_list)
    IN  [x |-> reduce_frag_size(
                   SetHot(FreeHotArea(PopHuge(x)), b.pos + request, b.pos + b.len), b.len),
         pos |-> b.pos]

\* ... for a huge one it is used and the rest freed.
SlipSplitHuge(x, request) ==
    LET b == Head(x.c.huge_list)
        y == reduce_frag_size(PopHuge(x), request)
    IN  [x |-> IF b.len > request THEN sfree(y, b.pos + request, b.len - request) ELSE y,
         pos |-> b.pos]
SplitHuge(x, request) ==
    LET b == Head(x.c.huge_list)
        y == reduce_frag_size(PopHuge(x), b.len)
    IN  [x |-> IF b.len > request THEN sfree(y, b.pos + request, b.len - request) ELSE y,
         pos |-> b.pos]

tc_alloc(x, request) ==
    LET hot == x.c.m_hot_pos + request <= x.c.m_hot_end
        huge == x.c.huge_list # <<>> /\ Head(x.c.huge_list).len >= request
    IN  IF request <= FastMax
        THEN CASE x.c.m_freelist_head[request] # <<>> -> FromFreeList(x, request)
               [] /\ x.c.m_freelist_head[request] = <<>>
                  /\ 2 * request <= FastMax /\ x.c.m_freelist_head[2 * request] # <<>>
                    -> FromDouble(x, request)
               [] OTHER -> IF hot THEN FromHot(x, request)
                           ELSE IF huge THEN HugeToHot(x, request)
                           ELSE [x |-> x, pos |-> Fail]
        ELSE IF huge THEN SplitHuge(x, request)
        ELSE IF hot THEN FromHot(x, request)
        ELSE [x |-> x, pos |-> Fail]

tc_alloc3(x, old, newlen) ==
    IF old.pos + old.len = x.c.m_hot_pos /\ old.pos + newlen <= x.c.m_hot_end
    THEN [x |-> SetHot(x, old.pos + newlen, x.c.m_hot_end), pos |-> old.pos]
    ELSE IF newlen < old.len
    THEN [x |-> sfree(x, old.pos + newlen, old.len - newlen), pos |-> old.pos]
    ELSE IF newlen = old.len
    THEN [x |-> x, pos |-> old.pos]
    ELSE LET r == tc_alloc(x, newlen)
         IN  IF r.pos = Fail THEN r
             ELSE [r EXCEPT !.x = sfree(@, old.pos, old.len)]

-----------------------------------------------------------------------------
(* The pool.  A call first gets the tc of the thread (get_tls).            *)

Mine(th) == Slot(th, Pool)
MayCall(th) == /\ owner[Pool].life = "alive" /\ ~readonly
               /\ pc[th] = "idle" /\ Mine(th) # Null
LoadInc(th) == tc[Mine(th)].m_frag_inc

\* What the thread works on: its tc, with m_frag_inc as it loaded it.
View(th) == [c |-> [tc[Mine(th)] EXCEPT !.m_frag_inc = req[th].inc], f |-> fragment_size]

\* Store the result.  Steps that only move the hot area do not touch m_frag_inc.
Store(th, x) ==
    LET cold(c) == [c EXCEPT !.m_hot_pos = 0, !.m_hot_end = 0]
        touched == cold(x.c) # cold(View(th).c)
        now == LoadInc(th)
    IN  /\ tc' = [tc EXCEPT ![Mine(th)] =
                     IF touched THEN x.c ELSE [x.c EXCEPT !.m_frag_inc = now]]
        /\ fragment_size' = x.f
        /\ racy' = (racy \/ (touched /\ now # req[th].inc))

Call(th, op, blk, len) ==
    /\ MayCall(th)
    /\ pc' = [pc EXCEPT ![th] = "tc"]
    /\ req' = [req EXCEPT ![th] = [NoReq EXCEPT !.op = op, !.blk = blk, !.len = len,
                                                !.inc = LoadInc(th)]]
    /\ used' = used \ {blk}
    /\ UNCHANGED <<s_id_list, s_id_head, linked, tls, owner, arg,
                   mem_n, tc, fragment_size, racy, readonly>>

alloc(th) == \E len \in Len1 : Call(th, "alloc", NoBlock, len)
sfree_call(th) == \E b \in used : Call(th, "sfree", b, b.len)
alloc3(th) == \E b \in used, len \in Len1 : Call(th, "alloc3", b, len)

\* The caller gets the new block; after a failed alloc3 it still has the old one.
Return(th, pos) ==
    /\ used' = used \cup CASE req[th].op = "alloc" /\ pos # Fail ->
                                 {[pos |-> pos, len |-> req[th].len]}
                           [] req[th].op = "alloc3" ->
                                 {IF pos = Fail THEN req[th].blk
                                  ELSE [pos |-> pos, len |-> req[th].len]}
                           [] OTHER -> {}
    /\ req' = [req EXCEPT ![th] = NoReq]
    /\ pc' = [pc EXCEPT ![th] = "idle"]

\* The part of the call that the tc of the thread can do by itself.
tc_step(th) ==
    LET r == CASE req[th].op = "alloc" -> tc_alloc(View(th), req[th].len)
               [] req[th].op = "alloc3" -> tc_alloc3(View(th), req[th].blk, req[th].len)
               [] OTHER -> [x |-> sfree(View(th), req[th].blk.pos, req[th].len), pos |-> 0]
    IN  /\ pc[th] = "tc"
        /\ \/ r.pos # Fail /\ Store(th, r.x) /\ Return(th, r.pos)
           \/ /\ r.pos = Fail
              /\ pc' = [pc EXCEPT ![th] = "chunk"]
              /\ UNCHANGED <<tc, fragment_size, racy, used, req>>
        /\ UNCHANGED <<s_id_list, s_id_head, linked, tls, owner, arg, mem_n, readonly>>

\* How much is taken from mem::n on, up to a multiple of ChunkSize.
ToBoundary == (ChunkSize - ((BaseOff + mem_n) % ChunkSize)) % ChunkSize
AlignUp(len) == ((len + ChunkSize - 1) \div ChunkSize) * ChunkSize
AlignDown(len) == (len \div ChunkSize) * ChunkSize

\* A load of mem::n and the CAS that succeeds.
TakeChunk(th, len) ==
    /\ mem_n' = mem_n + len
    /\ pc' = [pc EXCEPT ![th] = "hot"]
    /\ req' = [req EXCEPT ![th].chunk = [pos |-> mem_n, len |-> len],
                          ![th].inc = LoadInc(th)]
    /\ UNCHANGED <<used, tc, fragment_size, racy>>

chunk_alloc(th) ==
    LET request == req[th].len
        chunk_len == Min({AlignUp(request) + ToBoundary, Cap - mem_n})
    IN  /\ pc[th] = "chunk"
        /\ \/ mem_n + request <= Cap /\ TakeChunk(th, chunk_len)
           \/ /\ mem_n + request > Cap /\ Return(th, Fail)
              /\ UNCHANGED <<mem_n, tc, fragment_size, racy>>
        /\ UNCHANGED <<s_id_list, s_id_head, linked, tls, owner, arg, readonly>>

tc_populate(th) ==
    \E sz \in Populate :
        /\ MayCall(th)
        /\ TakeChunk(th, Min({AlignDown(sz) + ToBoundary, Cap - mem_n}))
        /\ UNCHANGED <<s_id_list, s_id_head, linked, tls, owner, arg, readonly>>

\* The chunk becomes the hot area, and the call is served from it.
HotResult(th) ==
    LET hot == set_hot_area(View(th), req[th].chunk.pos, req[th].chunk.len)
        r == tc_alloc(hot, req[th].len)
        old == req[th].blk
    IN  CASE req[th].op = "none" -> [x |-> hot, pos |-> 0]
          [] req[th].op = "alloc3" /\ r.pos # Fail ->
                 [r EXCEPT !.x = sfree(@, old.pos, old.len)]
          [] OTHER -> r

hot_step(th) ==
    /\ pc[th] = "hot"
    /\ Store(th, HotResult(th).x) /\ Return(th, HotResult(th).pos)
    /\ UNCHANGED <<s_id_list, s_id_head, linked, tls, owner, arg, mem_n, readonly>>

-----------------------------------------------------------------------------
(* Statistics: sync_frag_size visits every tc, in batches.                 *)

sync_frag_size(th) ==
    /\ owner[Pool].life = "alive" /\ ~readonly
    /\ Goto(th, "idle", "sync_batch")
    /\ UNCHANGED <<s_id_list, s_id_head, linked, tls, owner, arg, poolVars>>

for_each_tls(th) ==
    LET vec == owner[Pool].m_tls_vec
        batch == SubSeq(vec, req[th].i + 1, Min({Len(vec), req[th].i + Dim}))
    IN  /\ Goto(th, "sync_batch", IF batch = <<>> THEN "idle" ELSE "sync_load")
        /\ req' = [req EXCEPT ![th] = IF batch = <<>> THEN NoReq ELSE
                                      [@ EXCEPT !.n = Len(vec), !.batch = batch]]
        /\ UNCHANGED <<s_id_list, s_id_head, linked, tls, owner, arg,
                       mem_n, tc, fragment_size, used, racy, readonly>>

sync_load(th) ==
    LET inc == tc[Head(req[th].batch)].m_frag_inc
    IN  /\ Goto(th, "sync_load", "sync_store")
        /\ req' = [req EXCEPT ![th].inc = inc, ![th].sum = fragment_size + inc]
        /\ UNCHANGED <<s_id_list, s_id_head, linked, tls, owner, arg,
                       mem_n, tc, fragment_size, used, racy, readonly>>

sync_store(th) ==
    LET t == Head(req[th].batch)
        rest == Tail(req[th].batch)
        i == req[th].i + 1
        next == CASE rest # <<>> -> "sync_load"
                  [] rest = <<>> /\ i < req[th].n -> "sync_batch"
                  [] OTHER -> "idle"
    IN  /\ Goto(th, "sync_store", next)
        /\ fragment_size' = req[th].sum
        /\ tc' = [tc EXCEPT ![t].m_frag_inc = 0]
        /\ racy' = (racy \/ tc[t].m_frag_inc # req[th].inc
                         \/ fragment_size + req[th].inc # req[th].sum)
        /\ req' = [req EXCEPT ![th] = IF next = "idle" THEN NoReq ELSE
                       [NoReq EXCEPT !.i = i, !.n = req[th].n, !.batch = rest]]
        /\ UNCHANGED <<s_id_list, s_id_head, linked, tls, owner, arg, mem_n, used, readonly>>

HotLen(c) == c.m_hot_end - c.m_hot_pos

\* set_readonly, when no other thread is at work: sync_frag_size, then
\* sync_frag_size_full.
SlipSetReadonly(th) ==
    LET objects == Range(owner[Pool].m_tls_vec)
    IN  /\ owner[Pool].life = "alive" /\ ~readonly
        /\ pc[th] = "idle" /\ \A u \in Thread : pc[u] \in {"idle", "gone"}
        /\ fragment_size' = MapThenSumSet(LAMBDA t : tc[t].fragment_size + HotLen(tc[t]),
                                          objects)
        /\ readonly' = TRUE
        /\ UNCHANGED <<tlsVars, mem_n, tc, used, req, racy>>
set_readonly(th) ==
    LET objects == Range(owner[Pool].m_tls_vec)
    IN  /\ owner[Pool].life = "alive" /\ ~readonly
        /\ pc[th] = "idle" /\ \A u \in Thread : pc[u] \in {"idle", "gone"}
        /\ fragment_size' = MapThenSumSet(LAMBDA t : tc[t].fragment_size + HotLen(tc[t]),
                                          objects)
        /\ tc' = [t \in DOMAIN tc |-> IF t \in objects THEN [tc[t] EXCEPT !.m_frag_inc = 0]
                                      ELSE tc[t]]
        /\ readonly' = TRUE
        /\ UNCHANGED <<tlsVars, mem_n, used, req, racy>>

-----------------------------------------------------------------------------
(* A thread that ends hands in what its tc has gathered.                   *)

IsPool(th) == OwnerOf(arg[th].t) = Pool

pool_exit_dying(th) ==
    /\ exit_dying(th)
    /\ req' = [req EXCEPT ![th].inc = IF IsPool(th) /\ ~owner[Pool].m_is_dying
                                      THEN tc[arg[th].t].m_frag_inc ELSE 0]
    /\ UNCHANGED <<mem_n, tc, fragment_size, used, racy, readonly>>

clean_for_reuse(th) ==
    /\ exit_clean(th)
    /\ fragment_size' = fragment_size + req[th].inc
    /\ req' = [req EXCEPT ![th] = NoReq]
    /\ IF IsPool(th)
       THEN /\ tc' = [tc EXCEPT ![arg[th].t].m_frag_inc = 0]
            /\ racy' = (racy \/ tc[arg[th].t].m_frag_inc # req[th].inc)
       ELSE UNCHANGED <<tc, racy>>
    /\ UNCHANGED <<mem_n, used, readonly>>

-----------------------------------------------------------------------------
Init == TlsInit /\ PoolInit

PoolStep(th) ==
    \/ alloc(th) \/ sfree_call(th) \/ alloc3(th) \/ tc_populate(th)
    \/ tc_step(th) \/ chunk_alloc(th) \/ hot_step(th)
    \/ sync_frag_size(th) \/ for_each_tls(th) \/ sync_load(th) \/ sync_store(th)
    \/ set_readonly(th)

TlsStep(th) ==
    \/ (TlsCall(th) \/ FillStep(th) \/ ExitStep(th) \/ DestructStep(th)) /\ UNCHANGED poolVars
    \/ pool_exit_dying(th) \/ clean_for_reuse(th)

Next == \E th \in Thread : PoolStep(th) \/ TlsStep(th)

\* A thread that ends, or destroys an owner, goes on.
Fairness == \A th \in Thread : WF_vars(pc[th] \in Ending /\ TlsStep(th))

Spec == Init /\ [][Next]_vars /\ Fairness

-----------------------------------------------------------------------------
(* Properties.                                                             *)

\* The pieces of memory that somebody has, each with a name of its own.
Piece(name, pos, len) == [name |-> name, pos |-> pos, len |-> len]
TcPieces(t) ==
    UNION {{Piece(<<t, k, i>>, tc[t].m_freelist_head[k][i], k) :
                i \in DOMAIN tc[t].m_freelist_head[k]} : k \in 1..FastMax}
    \cup {Piece(<<t, "huge", i>>, tc[t].huge_list[i].pos, tc[t].huge_list[i].len) :
                i \in DOMAIN tc[t].huge_list}
    \cup {Piece(<<t, "hot">>, tc[t].m_hot_pos, HotLen(tc[t]))}
Pieces ==
    UNION {TcPieces(t) : t \in DOMAIN tc}
    \cup {Piece(<<"used">>, b.pos, b.len) : b \in used}
    \cup {Piece(<<th, "old">>, req[th].blk.pos, req[th].blk.len) : th \in Thread}
    \cup {Piece(<<th, "chunk">>, req[th].chunk.pos, req[th].chunk.len) : th \in Thread}

\* The memory that was taken is divided without gaps or overlaps among the callers, the
\* free lists and hot areas of the tcs, and operations under way: no two callers get the
\* same bytes and none are lost, through cutting in halves, huge blocks that become hot
\* areas, merging with the hot area, blocks freed by other threads, ends of threads.
Tiling ==
    /\ mem_n <= Cap
    /\ \A u \in 0..(mem_n - 1) :
           Cardinality({p \in Pieces : p.pos <= u /\ u < p.pos + p.len}) = 1
    /\ \A p \in Pieces : p.len >= 0 /\ p.pos + p.len <= mem_n

FreeBytes(t) ==
    MapThenSumSet(LAMBDA k : k * Len(tc[t].m_freelist_head[k]), 1..FastMax)
        + MapThenSumSet(LAMBDA i : tc[t].huge_list[i].len, DOMAIN tc[t].huge_list)

\* The statistics: fragment_size of a tc is the size of its free blocks and the huge
\* counters are right, always; the pool's fragment_size and what the tcs have gathered
\* add up to the same, and frag_size() does not fall below zero, unless a sync_frag_size
\* met another update halfway.
FragmentsCounted ==
    /\ \A t \in DOMAIN tc :
           /\ tc[t].fragment_size = FreeBytes(t)
           /\ tc[t].huge_node_cnt = Len(tc[t].huge_list)
           /\ tc[t].huge_size_sum
                  = MapThenSumSet(LAMBDA i : tc[t].huge_list[i].len, DOMAIN tc[t].huge_list)
           /\ -FragMax <= tc[t].m_frag_inc /\ tc[t].m_frag_inc <= FragMax
    /\ ~racy /\ ~readonly =>
           /\ fragment_size >= 0
           /\ fragment_size + MapThenSumSet(LAMBDA t : tc[t].m_frag_inc, DOMAIN tc)
                  = MapThenSumSet(FreeBytes, DOMAIN tc)


\* "after this function call, this->fragment_size includs hot area free size": from
\* set_readonly on frag_size() is exactly what callers do not have, even if earlier
\* sync_frag_size went wrong, and threads that end later do not change it.
ReadonlyFragExact ==
    readonly => fragment_size = mem_n - MapThenSumSet(LAMBDA b : b.len, used)

=============================================================================
