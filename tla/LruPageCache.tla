---------------------------- MODULE LruPageCache -----------------------------
(***************************************************************************)
(* SingleLruReadonlyCache: a cache of file pages shared by threads.  A     *)
(* page that is in use is pinned by its ref_count and off the lru list; a  *)
(* page that no one uses is on the list and may be given to another file.  *)
(* A page is in the hash table before its data is read: who finds it there *)
(* waits until its owner has loaded it.  The code between lock and unlock  *)
(* of m_mutex is one step.  Files are opened and closed; the pages of a    *)
(* closed file are given away before any page is evicted.                  *)
(***************************************************************************)
EXTENDS Integers, Sequences, FiniteSets, FiniteSetsExt, SequencesExt

CONSTANTS Thread,
          Caches,           \* the caches a run looks at, with their use: records
                            \* with the first three fields of conf below
          m_bucket_size,    \* buckets of the hash table
          MaxFile,          \* bound: files opened
          MaxRef,           \* bound: the ref_count a throwing read may leave
          None

ASSUME CacheAssumption ==
    /\ m_bucket_size \in Nat \ {0} /\ MaxFile \in Nat /\ MaxRef \in Nat
    /\ \A x \in Caches : /\ x.m_page_num \in Nat \ {0} /\ x.MayClose \subseteq 1..MaxFile
                         /\ \A r \in x.Reads : Len(r) > 0 /\ IsInjective(r)

VARIABLES c,     \* the cache: nodes, lru list (front first), buckets, files, ...
          th,    \* the call each thread is in
          threw, \* a read across pages has thrown
          conf   \* the cache and its use: m_page_num; Reads, each the sequence of
                 \* the keys (file, page number) of consecutive pages; MayClose,
                 \* the files that are ever closed

vars == <<c, th, threw, conf>>

Page == DOMAIN c.node
File == 1..MaxFile
Key == UNION {ToSet(r) : r \in conf.Reads}  \* fi_offset: file and page number
PageRead == {r \in conf.Reads : Len(r) = 1}
CrossRead == conf.Reads \ PageRead
hpos(k) == (k[1] + k[2]) % m_bucket_size  \* MyHash(key) % m_bucket_size

idle == [pc |-> "idle", keys |-> << >>, pages |-> << >>, mine |-> {}, buf |-> << >>]

Init ==
    /\ conf \in Caches /\ threw = FALSE
    /\ c = [node |-> [p \in 1..conf.m_page_num |-> [fi_offset |-> None, ref_count |-> 0,
                                      is_loaded |-> FALSE, data |-> None]],
            lru |-> [i \in 1..conf.m_page_num |-> i],
            bucket |-> [b \in 0..(m_bucket_size - 1) |-> << >>],
            file |-> [f \in File |-> [st |-> "none", pages |-> << >>]],
            freelist |-> << >>,
            busypage |-> 0]
    /\ th = [t \in Thread |-> idle]

-----------------------------------------------------------------------------
(* Operations on the cache.  Operators named Slip... are wrong variants of  *)
(* the definition after them, used to see that the properties notice.       *)

InsertAfterHead(s, x) == IF s = << >> THEN <<x>> ELSE <<Head(s), x>> \o Tail(s)

\* The page of the key's hash chain that holds it, None if there is none.
Find(d, k) ==
    LET hits == SelectSeq(d.bucket[hpos(k)], LAMBDA p : d.node[p].fi_offset = k)
    IN  IF hits = << >> THEN None ELSE Head(hits)

Hit(d, p) == [d EXCEPT !.node[p].ref_count = @ + 1,
                       !.lru = IF d.node[p].ref_count = 0 THEN Remove(@, p) ELSE @]

SlipUnpin(d, p) == [d EXCEPT !.node[p].ref_count = @ - 1,
                             !.lru = <<p>> \o @]
Unpin(d, p) == [d EXCEPT !.node[p].ref_count = @ - 1,
                         !.lru = IF d.node[p].ref_count = 1 THEN <<p>> \o @ ELSE @]

remove_from_hash(d, p) ==
    [d EXCEPT !.bucket[hpos(d.node[p].fi_offset)] = Remove(@, p)]

\* The page passes from its file to file f, out of the lru list and the hash.
SlipMovePage(d, p, f) ==
    LET g == d.node[p].fi_offset[1]
        h == [d EXCEPT !.file[g].pages = Remove(@, p), !.lru = Remove(@, p)]
    IN  [h EXCEPT !.file[f].pages = InsertAfterHead(@, p)]
MovePage(d, p, f) ==
    LET e == remove_from_hash(d, p)
        g == d.node[p].fi_offset[1]
        h == [e EXCEPT !.file[g].pages = Remove(@, p), !.lru = Remove(@, p)]
    IN  [h EXCEPT !.file[f].pages = InsertAfterHead(@, p)]

\* A page of a closed file; the file is dropped with its last page.
TakeFree(d, f) ==
    LET g == Head(d.freelist)
        p == Head(d.file[g].pages)
        e == MovePage(d, p, f)
    IN  <<p, IF e.file[g].pages # << >> THEN [e EXCEPT !.busypage = @ + 1]
             ELSE [e EXCEPT !.busypage = @ + 1, !.file[g].st = "dropped",
                            !.freelist = Tail(@)]>>

\* The page at the end of the lru list, evicted if it is in use by a file.
SwapOut(d, f) ==
    LET p == Last(d.lru)
    IN  <<p, IF d.node[p].fi_offset # None THEN MovePage(d, p, f)
             ELSE [d EXCEPT !.busypage = @ + 1, !.lru = Remove(@, p),
                            !.file[f].pages = InsertAfterHead(@, p)]>>

CanAlloc(d) == d.freelist # << >> \/ d.lru # << >>

\* The node gets the key, pinned by the caller and not loaded, and is hashed.
NewNode(d, p, k) ==
    [d EXCEPT !.node[p] = [@ EXCEPT !.ref_count = 1, !.is_loaded = FALSE,
                                    !.fi_offset = k],
              !.bucket[hpos(k)] = <<p>> \o @]

\* The page and the cache after it.
alloc_page(d, k) ==
    LET e == IF d.freelist # << >> THEN TakeFree(d, k[1]) ELSE SwapOut(d, k[1])
    IN  <<e[1], NewNode(e[2], e[1], k)>>

\* One page of a read: found in the hash or allocated.  x is the state of the
\* loop: the cache, the pages so far, which of them are mine, whether it threw.
GetPage(x, k) ==
    LET p == Find(x.c, k)
        a == alloc_page(x.c, k)
    IN  IF ~x.ok THEN x
        ELSE IF p # None THEN [x EXCEPT !.c = Hit(@, p), !.pages = Append(@, p)]
        ELSE IF CanAlloc(x.c)
             THEN [c |-> a[2], pages |-> Append(x.pages, a[1]),
                   mine |-> x.mine \cup {a[1]}, ok |-> TRUE]
             ELSE [x EXCEPT !.ok = FALSE]

GetPages(keys) ==
    FoldLeft(GetPage, [c |-> c, pages |-> << >>, mine |-> {}, ok |-> TRUE], keys)

-----------------------------------------------------------------------------
(* Reads within a page.                                                    *)

Loaded(p) == c.node[p].is_loaded

\* The locked part of a read within a page.  A thrown logic_error ("can not
\* evict a page") leaves the cache as it was.
pread_page(t, k) ==
    LET x == GetPages(<<k>>)
        p == x.pages[1]
    IN  /\ th[t].pc = "idle" /\ c.file[k[1]].st = "open"
        /\ x.ok
        /\ c' = x.c
        /\ th' = [th EXCEPT ![t] =
             [idle EXCEPT !.keys = <<k>>, !.pages = <<p>>, !.mine = x.mine,
                 !.pc = IF p \in x.mine THEN "load" ELSE IF Loaded(p) THEN "hold"
                        ELSE "wait"]]
        /\ UNCHANGED <<threw, conf>>

pread_page_throw(t, k) ==
    /\ th[t].pc = "idle" /\ c.file[k[1]].st = "open"
    /\ ~GetPages(<<k>>).ok
    /\ UNCHANGED vars

\* do_pread into the page, then is_loaded = true.
do_pread(p, k) == [c EXCEPT !.node[p].data = k, !.node[p].is_loaded = TRUE]

load_page(t) ==
    /\ th[t].pc = "load"
    /\ c' = do_pread(th[t].pages[1], th[t].keys[1])
    /\ th' = [th EXCEPT ![t].pc = "hold"]
    /\ UNCHANGED <<threw, conf>>

SlipWaitOthersLoad(t) ==
    /\ th[t].pc = "wait" /\ Loaded(th[t].pages[1])
    /\ c.node[th[t].pages[1]].ref_count = 1
    /\ th' = [th EXCEPT ![t].pc = "hold"]
    /\ UNCHANGED <<c, threw, conf>>
wait_others_load(t) ==
    /\ th[t].pc = "wait" /\ Loaded(th[t].pages[1])
    /\ th' = [th EXCEPT ![t].pc = "hold"]
    /\ UNCHANGED <<c, threw, conf>>

discard(t) ==
    /\ th[t].pc = "hold"
    /\ c' = Unpin(c, th[t].pages[1])
    /\ th' = [th EXCEPT ![t] = idle]
    /\ UNCHANGED <<threw, conf>>

-----------------------------------------------------------------------------
(* Reads of several pages, copied to the caller's buffer.                   *)

\* The locked part: pages are read only if one of them was missing.
pread_cross(t, keys) ==
    LET x == GetPages(keys)
    IN  /\ th[t].pc = "idle" /\ c.file[keys[1][1]].st = "open"
        /\ x.ok
        /\ c' = x.c
        /\ th' = [th EXCEPT ![t] =
             [pc |-> IF x.mine # {} THEN "read" ELSE "unpin", keys |-> keys,
              pages |-> x.pages, mine |-> x.mine, buf |-> << >>]]
        /\ UNCHANGED <<threw, conf>>

\* alloc_page throws in the middle: the pages got so far stay as they are.
pread_cross_throw(t, keys) ==
    LET x == GetPages(keys)
    IN  /\ th[t].pc = "idle" /\ c.file[keys[1][1]].st = "open"
        /\ ~x.ok
        /\ \A p \in Page : x.c.node[p].ref_count <= MaxRef
        /\ c' = x.c
        /\ threw' = TRUE
        /\ UNCHANGED <<th, conf>>

\* readpage for the next page: load it if it is mine, else wait for its owner;
\* then append it to the buffer.
SlipReadpage(t) ==
    LET i == Len(th[t].buf) + 1
        p == th[t].pages[i]
    IN  /\ th[t].pc = "read"
        /\ c' = IF p \in th[t].mine THEN do_pread(p, th[t].keys[i]) ELSE c
        /\ th' = [th EXCEPT ![t].buf = Append(@, c'.node[p].data),
                            ![t].pc = IF i = Len(th[t].pages) THEN "unpin" ELSE @]
        /\ UNCHANGED <<threw, conf>>
readpage(t) ==
    LET i == Len(th[t].buf) + 1
        p == th[t].pages[i]
    IN  /\ th[t].pc = "read"
        /\ Loaded(p) \/ p \in th[t].mine
        /\ c' = IF Loaded(p) THEN c ELSE do_pread(p, th[t].keys[i])
        /\ th' = [th EXCEPT ![t].buf = Append(@, c'.node[p].data),
                            ![t].pc = IF i = Len(th[t].pages) THEN "unpin" ELSE @]
        /\ UNCHANGED <<threw, conf>>

\* The scope exit unpins all pages in one locked section; the call returns.
unpin_all(t) ==
    /\ th[t].pc = "unpin"
    /\ c' = FoldLeft(Unpin, c, th[t].pages)
    /\ th' = [th EXCEPT ![t].pc = "got", ![t].pages = << >>, ![t].mine = {}]
    /\ UNCHANGED <<threw, conf>>

use_buffer(t) ==
    /\ th[t].pc = "got"
    /\ th' = [th EXCEPT ![t] = idle]
    /\ UNCHANGED <<c, threw, conf>>

-----------------------------------------------------------------------------
(* Files.                                                                  *)

\* m_fi_to_fd.push gives consecutive ids that are not used again (PermanentId).
open(f) ==
    /\ c.file[f].st = "none" /\ \A g \in 1..(f - 1) : c.file[g].st # "none"
    /\ c' = [c EXCEPT !.file[f].st = "open"]
    /\ UNCHANGED <<th, threw, conf>>

\* The caller closes no file that it still reads or holds a page of (an
\* assertion of discard_impl).
close(f) ==
    /\ c.file[f].st = "open" /\ f \in conf.MayClose
    /\ \A t \in Thread : \A i \in DOMAIN th[t].keys : th[t].keys[i][1] # f
    /\ c' = IF c.file[f].pages = << >> THEN [c EXCEPT !.file[f].st = "dropped"]
            ELSE [c EXCEPT !.file[f].st = "pending",
                           !.busypage = @ - Len(c.file[f].pages),
                           !.freelist = InsertAfterHead(@, f)]
    /\ UNCHANGED <<th, threw, conf>>

ReadStep(t) == load_page(t) \/ wait_others_load(t) \/ readpage(t) \/ unpin_all(t)

Next ==
    \/ \E t \in Thread :
         \/ \E r \in PageRead : pread_page(t, r[1])
         \/ \E r \in PageRead : pread_page_throw(t, r[1])
         \/ \E keys \in CrossRead : pread_cross(t, keys)
         \/ \E keys \in CrossRead : pread_cross_throw(t, keys)
         \/ load_page(t) \/ wait_others_load(t) \/ discard(t)
         \/ readpage(t) \/ unpin_all(t) \/ use_buffer(t)
    \/ \E f \in File : open(f)
    \/ \E f \in File : close(f)

Spec == Init /\ [][Next]_vars

-----------------------------------------------------------------------------
(* Properties.                                                             *)

\* The pages thread t has pinned.
Pins(t) == ToSet(th[t].pages)

\* A page that a thread has pinned is the page it asked for, until it unpins it:
\* it is not evicted.  The data a thread holds, or has appended to the buffer of
\* a read across pages, is that of the file.
PinnedStays ==
    \A t \in Thread :
        /\ \A i \in DOMAIN th[t].pages : c.node[th[t].pages[i]].fi_offset = th[t].keys[i]
        /\ th[t].pc = "hold" => /\ Loaded(th[t].pages[1])
                                /\ c.node[th[t].pages[1]].data = th[t].keys[1]
        /\ \A i \in DOMAIN th[t].buf : th[t].buf[i] = th[t].keys[i]

\* The lru list has exactly the pages with ref_count 0, each once, and ref_count
\* is the number of threads that have the page pinned (until a read across pages
\* has thrown, which leaves its pages pinned).
RefCountsRight ==
    ~threw =>
        /\ \A p \in Page : c.node[p].ref_count = Cardinality({t \in Thread : p \in Pins(t)})
        /\ IsInjective(c.lru)
        /\ ToSet(c.lru) = {p \in Page : c.node[p].ref_count = 0}

\* A key is in one page at most and a page with a key is on the chain of its
\* bucket, so remove_from_hash finds it and a read never loads a page twice.
HashRight ==
    /\ \A p, q \in Page : c.node[p].fi_offset = c.node[q].fi_offset =>
           p = q \/ c.node[p].fi_offset = None
    /\ \A p \in Page : c.node[p].fi_offset # None =>
           p \in ToSet(c.bucket[hpos(c.node[p].fi_offset)])
    /\ \A b \in DOMAIN c.bucket : \A p \in ToSet(c.bucket[b]) :
           c.node[p].fi_offset # None /\ hpos(c.node[p].fi_offset) = b

\* Every pread returns: threads that wait for pages each other loads never wait
\* in a circle (until a read across pages has thrown).
PreadReturns ==
    \A t \in Thread : (th[t].pc \in {"load", "wait", "read", "unpin"}) ~>
                      (th[t].pc \in {"hold", "got"} \/ threw)

\* A read across pages returns the bytes it was asked for.
CrossReadReturnsData ==
    \A t \in Thread : th[t].pc = "got" => th[t].buf = th[t].keys
=============================================================================
