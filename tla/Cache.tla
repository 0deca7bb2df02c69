------------------------------- MODULE Cache -------------------------------
(***************************************************************************)
(* madbfs::data::Cache of src/source/data/cache.cpp: a page cache shared   *)
(* by coroutines on one executor.  Each task runs one Cache::read, write   *)
(* or flush at a time; it holds the executor (`running`) from a resume to  *)
(* its next co_await, so steps of other tasks interleave only at the       *)
(* co_awaits: waiting on an in-flight future, on_miss and on_flush.        *)
(*                                                                         *)
(* Data is abstracted to freshness: a page, an orphan, a copy in flight    *)
(* and the device each either hold the latest write of their key or not.   *)
(* Byte offsets are abstracted to the page-index range start..last the     *)
(* code computes from them.                                                *)
(***************************************************************************)
EXTENDS Naturals, FiniteSets, Sequences, SequencesExt

CONSTANTS
    Ids,            \* file ids (model values)
    NumPages,       \* pages per file: indices 0 .. NumPages-1
    Tasks,          \* coroutines that call the cache (model values)
    PageSizes,      \* page sizes set_page_size may be given
    MaxPagesSet,    \* values set_max_pages may be given
    InitPageSize,
    InitMaxPages,
    NodeBound,      \* list nodes that may exist at once (a bound of the model)
    MissCanFail,    \* whether on_miss may return an error
    FlushCanFail,   \* whether on_flush may return an error
    HostWritesBack, \* whether the host writes taken orphans back
    NoTask,
    NoNode

ASSUME InitPageSize \in PageSizes /\ InitMaxPages \in MaxPagesSet
ASSUME NumPages \in Nat \ {0} /\ NodeBound \in Nat \ {0}

Indices == 0 .. NumPages - 1
Keys    == Ids \X Indices
Nodes   == 1 .. NodeBound

\* A page of m_lru: its list node, PageKey, dirty bit, whether it holds the
\* latest write of its key, and the page size it was allocated with.
PageRec   == [node: Nodes, key: Keys, dirty: BOOLEAN, fresh: BOOLEAN, psz: PageSizes]
\* A page of m_orphaned, or one handed to the host by get_orphan_pages.
OrphanRec == [key: Keys, dirty: BOOLEAN, fresh: BOOLEAN, psz: PageSizes]

PCs == {"idle", "page", "lookup", "wait", "woken", "miss", "flushing"}

\* The locals of one coroutine: where it is, its operation and loop, whose
\* future it waits on and what that resolved to, and whether the data in
\* its on_miss / on_flush buffer holds the latest write of its key, and the
\* size that buffer was allocated with.
Ctx == [pc: PCs, op: {"read", "write", "flush"}, fid: Ids, cur: Indices,
        last: Indices, waitOn: Tasks \cup {NoTask}, outcome: {"ok", "err"},
        carried: BOOLEAN, bufSize: PageSizes]

\* A task with no call running (its locals are dead).
IdleCtx == [pc |-> "idle", op |-> "read", fid |-> CHOOSE i \in Ids : TRUE, cur |-> 0,
            last |-> 0, waitOn |-> NoTask, outcome |-> "ok", carried |-> FALSE,
            bufSize |-> InitPageSize]

VARIABLES
    lru,        \* m_lru, front = most recently used
    table,      \* m_table: PageKey -> list node
    queue,      \* m_queue: PageKey -> task whose promise is stored there
    orphans,    \* m_orphaned, in eviction order
    pageSize,   \* m_page_size
    maxPages,   \* m_max_pages
    running,    \* the task holding the executor, or NoTask
    task,       \* the locals of each task (Ctx)
    devFresh,   \* ghost: the device holds the latest write of a key
    host,       \* ghost: orphans taken by the host, not yet written back
    dropped,    \* ghost: keys whose unflushed data a reconfiguration discarded
    staleRead,  \* ghost: some read copied a page missing the latest write
    dangling    \* ghost: a read dereferenced an iterator to an evicted page

cacheVars == <<lru, table, queue, orphans, pageSize, maxPages>>
ghostVars == <<devFresh, host, dropped, staleRead, dangling>>
vars      == <<cacheVars, running, task, ghostVars>>

-----------------------------------------------------------------------------
(* Helpers over m_lru and m_table                                          *)

NodesOf(s)      == {s[i].node : i \in 1 .. Len(s)}
PageAt(s, n)    == CHOOSE p \in ToSet(s) : p.node = n
ResidentKeys(t) == {k \in Keys : t[k] # NoNode}
TableSize(t)    == Cardinality(ResidentKeys(t))
FreeNodes       == Nodes \ NodesOf(lru)
Orphan(p)       == [key |-> p.key, dirty |-> p.dirty, fresh |-> p.fresh, psz |-> p.psz]

\* m_lru.splice(m_lru.begin(), m_lru, page): move node n to the front.
MoveToFront(s, n) == Cons(PageAt(s, n), SelectSeq(s, LAMBDA p : p.node # n))

\* page->set_dirty(d) on the page of node n.
SetDirty(s, n, d) == [i \in 1 .. Len(s) |-> IF s[i].node = n THEN [s[i] EXCEPT !.dirty = d] ELSE s[i]]

(***************************************************************************)
(* The eviction loop that read and write run after an insertion: pop the  *)
(* back of m_lru `delta` times, erasing the popped page's key from        *)
(* m_table; a dirty page is spliced onto the end of m_orphaned, a clean    *)
(* one dropped.  c is a record of m_lru, m_table and m_orphaned.           *)
(***************************************************************************)
\* Variant with a bug: the loop pops the back page without splicing dirty
\* ones onto m_orphaned.
RECURSIVE EvictDropsDirty(_, _)
EvictDropsDirty(c, delta) ==
    IF delta = 0 \/ c.lru = <<>>
    THEN c
    ELSE EvictDropsDirty([lru     |-> Front(c.lru),
                          table   |-> [c.table EXCEPT ![Last(c.lru).key] = NoNode],
                          orphans |-> c.orphans],
                         delta - 1)

RECURSIVE EvictN(_, _)
EvictN(c, delta) ==
    IF delta = 0 \/ c.lru = <<>>
    THEN c
    ELSE LET v == Last(c.lru)
         IN  EvictN([lru     |-> Front(c.lru),
                     table   |-> [c.table EXCEPT ![v.key] = NoNode],
                     orphans |-> IF v.dirty THEN Append(c.orphans, Orphan(v))
                                            ELSE c.orphans],
                    delta - 1)

\* Variant with a bug: delta is one short (m_table.size() - m_max_pages - 1).
AdmitShort(c) ==
    IF TableSize(c.table) > maxPages
    THEN EvictN(c, TableSize(c.table) - maxPages - 1)
    ELSE c

Admit(c) ==
    IF TableSize(c.table) > maxPages
    THEN EvictN(c, TableSize(c.table) - maxPages)
    ELSE c

-----------------------------------------------------------------------------
(* Task bookkeeping                                                        *)

Key(t)    == <<task[t].fid, task[t].cur>>
At(t, p)  == task[t].pc = p
Holds(t)  == running = t
Free      == running = NoTask
IsOp(t, o) == task[t].op = o

\* Move t to pc p, keeping its other locals.
Goto(t, p) == task' = [task EXCEPT ![t].pc = p]

\* After a page the loop goes on to the next index with the executor held,
\* or the call returns and releases it.
GoesOn(t)  == task[t].cur < task[t].last
Continued(t) ==
    IF GoesOn(t) THEN [task[t] EXCEPT !.pc = "page", !.cur = @ + 1] ELSE IdleCtx
HoldIfGoesOn(t) == running' = IF GoesOn(t) THEN t ELSE NoTask

Continue(t) == task' = [task EXCEPT ![t] = Continued(t)] /\ HoldIfGoesOn(t)

\* u copied the shared future of t's promise and is suspended on it.
Subscribed(u, t) == At(u, "wait") /\ task[u].waitOn = t

\* promise.set_value(res): every subscriber of t's future wakes with res,
\* and t's own locals become ctx.
Resolve(t, ctx, res) ==
    task' = [u \in Tasks |->
               IF u = t THEN ctx
               ELSE IF Subscribed(u, t) THEN [task[u] EXCEPT !.pc = "woken", !.outcome = res]
               ELSE task[u]]

\* A copy read from a page misses a write that no reconfiguration discarded.
StaleCopy(p) == ~p.fresh /\ p.key \notin dropped

\* A write to k leaves every other copy of k behind.
Outdated(s, k) == [i \in 1 .. Len(s) |->
                     IF s[i].key = k THEN [s[i] EXCEPT !.fresh = FALSE] ELSE s[i]]

-----------------------------------------------------------------------------
Init ==
    /\ lru      = <<>>
    /\ table    = [k \in Keys |-> NoNode]
    /\ queue    = [k \in Keys |-> NoTask]
    /\ orphans  = <<>>
    /\ pageSize = InitPageSize
    /\ maxPages = InitMaxPages
    /\ running  = NoTask
    /\ task     = [t \in Tasks |-> IdleCtx]
    /\ devFresh = [k \in Keys |-> TRUE]
    /\ host     = <<>>
    /\ dropped  = {}
    /\ staleRead = FALSE
    /\ dangling  = FALSE

(***************************************************************************)
(* A filesystem callback calls Cache::read, write or flush on an idle      *)
(* task; the coroutine runs to its first co_await.  read and write loop    *)
(* over start..last; flush over 0 .. num_pages-1.                          *)
(***************************************************************************)
\* Variant with a bug: the page loop runs to num_pages inclusive.
StartInclusive(t) ==
    /\ At(t, "idle")
    /\ Free
    /\ \E o \in {"read", "write", "flush"}, i \in Ids, first \in Indices,
          final \in 0 .. NumPages :
          /\ first <= final
          /\ o = "flush" => first = 0
          /\ task' = [task EXCEPT ![t] = [IdleCtx EXCEPT !.pc = "page", !.op = o,
                                          !.fid = i, !.cur = first, !.last = final]]
    /\ running' = t
    /\ UNCHANGED <<cacheVars, ghostVars>>

Start(t) ==
    /\ At(t, "idle")
    /\ Free
    /\ \E o \in {"read", "write", "flush"}, i \in Ids, first, final \in Indices :
          /\ first <= final
          /\ o = "flush" => first = 0
          /\ task' = [task EXCEPT ![t] = [IdleCtx EXCEPT !.pc = "page", !.op = o,
                                          !.fid = i, !.cur = first, !.last = final]]
    /\ running' = t
    /\ UNCHANGED <<cacheVars, ghostVars>>

\* m_queue.find(key) hits: copy the shared future and co_await it.
PageQueued(t) ==
    /\ At(t, "page")
    /\ Holds(t)
    /\ queue[Key(t)] # NoTask
    /\ task'    = [task EXCEPT ![t].pc = "wait", ![t].waitOn = queue[Key(t)]]
    /\ running' = NoTask
    /\ UNCHANGED <<cacheVars, ghostVars>>

\* m_queue.find(key) misses: go on to m_table.find(key).
PageFree(t) ==
    /\ At(t, "page")
    /\ Holds(t)
    /\ queue[Key(t)] = NoTask
    /\ Goto(t, "lookup")
    /\ UNCHANGED <<cacheVars, running, ghostVars>>

\* async_wait returns with Errc{}: the task resumes at m_table.find(key),
\* without looking at m_queue again.
ResumeOk(t) ==
    /\ At(t, "woken")
    /\ Free
    /\ task[t].outcome = "ok"
    /\ Goto(t, "lookup")
    /\ running' = t
    /\ UNCHANGED <<cacheVars, ghostVars>>

\* async_wait returns with an error: the whole call returns it.
ResumeErr(t) ==
    /\ At(t, "woken")
    /\ Free
    /\ task[t].outcome = "err"
    /\ task' = [task EXCEPT ![t] = IdleCtx]
    /\ UNCHANGED <<cacheVars, running, ghostVars>>

-----------------------------------------------------------------------------
(* Cache::read                                                             *)

\* The page is resident: splice it to the front and copy from it.
ReadHit(t) ==
    LET n == table[Key(t)]
    IN  /\ At(t, "lookup")
        /\ Holds(t)
        /\ IsOp(t, "read")
        /\ n \in NodesOf(lru)
        /\ lru' = MoveToFront(lru, n)
        /\ staleRead' = (staleRead \/ StaleCopy(PageAt(lru, n)))
        /\ Continue(t)
        /\ UNCHANGED <<table, queue, orphans, pageSize, maxPages,
                       devFresh, host, dropped, dangling>>

\* The page is not resident: m_queue.emplace(key, future), which keeps an
\* entry already there, allocate a buffer of m_page_size, then co_await
\* on_miss.
ReadMiss(t) ==
    LET k == Key(t)
    IN  /\ At(t, "lookup")
        /\ Holds(t)
        /\ IsOp(t, "read")
        /\ table[k] = NoNode
        /\ queue'   = IF queue[k] = NoTask THEN [queue EXCEPT ![k] = t] ELSE queue
        /\ task'    = [task EXCEPT ![t].pc = "miss", ![t].carried = devFresh[k],
                                     ![t].bufSize = pageSize]
        /\ running' = NoTask
        /\ UNCHANGED <<lru, table, orphans, pageSize, maxPages, ghostVars>>

\* Variants with a bug: the failing fetcher leaves its m_queue entry, or
\* returns without set_value.
MissFailKeepsEntry(t) ==
    /\ At(t, "miss")
    /\ Free
    /\ MissCanFail
    /\ Resolve(t, IdleCtx, "err")
    /\ UNCHANGED <<cacheVars, running, ghostVars>>

MissFailSilent(t) ==
    /\ At(t, "miss")
    /\ Free
    /\ MissCanFail
    /\ task'  = [task EXCEPT ![t] = IdleCtx]
    /\ queue' = [queue EXCEPT ![Key(t)] = NoTask]
    /\ UNCHANGED <<lru, table, orphans, pageSize, maxPages, running, ghostVars>>

\* on_miss fails: set_value(error), m_queue.erase(key), return the error.
MissFail(t) ==
    /\ At(t, "miss")
    /\ Free
    /\ MissCanFail
    /\ Resolve(t, IdleCtx, "err")
    /\ queue' = [queue EXCEPT ![Key(t)] = NoTask]
    /\ UNCHANGED <<lru, table, orphans, pageSize, maxPages, running, ghostVars>>

(***************************************************************************)
(* on_miss returns the page: emplace it at the front of m_lru and into    *)
(* m_table (which keeps an entry already there), set_value(Errc{}),        *)
(* m_queue.erase(key), evict down to m_max_pages, then splice the table's  *)
(* entry to the front and copy from it.  The device may have been read at  *)
(* any moment of the await: at its start or at its end.                    *)
(***************************************************************************)
MissOk(t) ==
    LET k     == Key(t)
        n     == Min(FreeNodes)
        tab1  == IF table[k] = NoNode THEN [table EXCEPT ![k] = n] ELSE table
        entry == tab1[k]
    IN  /\ At(t, "miss")
        /\ Free
        /\ \E fresh \in {task[t].carried, devFresh[k]} :
              LET page == [node |-> n, key |-> k, dirty |-> FALSE, fresh |-> fresh,
                           psz |-> task[t].bufSize]
                  c    == Admit([lru |-> Cons(page, lru), table |-> tab1, orphans |-> orphans])
              IN  /\ table'   = c.table
                  /\ orphans' = c.orphans
                  /\ IF entry \in NodesOf(c.lru)
                     THEN /\ lru' = MoveToFront(c.lru, entry)
                          /\ staleRead' = (staleRead \/ StaleCopy(PageAt(c.lru, entry)))
                          /\ UNCHANGED dangling
                     ELSE /\ lru' = c.lru
                          /\ dangling' = TRUE
                          /\ UNCHANGED staleRead
        /\ queue' = [queue EXCEPT ![k] = NoTask]
        /\ Resolve(t, Continued(t), "ok")
        /\ HoldIfGoesOn(t)
        /\ UNCHANGED <<pageSize, maxPages, devFresh, host, dropped>>

-----------------------------------------------------------------------------
(* Cache::write                                                            *)

(***************************************************************************)
(* Allocate a zeroed page with length 0 if the key is not resident (no    *)
(* fetch), write into it, set it dirty, splice it to the front, then       *)
(* evict down to m_max_pages.  Every other copy of the key is now behind.  *)
(***************************************************************************)
WritePage(t) ==
    LET k     == Key(t)
        alloc == table[k] = NoNode
        n     == IF alloc THEN Min(FreeNodes) ELSE table[k]
        lru1  == IF alloc
                 THEN Cons([node |-> n, key |-> k, dirty |-> FALSE, fresh |-> FALSE,
                            psz |-> pageSize], lru)
                 ELSE lru
        lru2  == [i \in 1 .. Len(lru1) |->
                    IF lru1[i].node = n THEN [lru1[i] EXCEPT !.dirty = TRUE, !.fresh = TRUE]
                    ELSE IF lru1[i].key = k THEN [lru1[i] EXCEPT !.fresh = FALSE]
                    ELSE lru1[i]]
        tab1  == IF alloc THEN [table EXCEPT ![k] = n] ELSE table
        c     == Admit([lru |-> MoveToFront(lru2, n), table |-> tab1,
                        orphans |-> Outdated(orphans, k)])
    IN  /\ At(t, "lookup")
        /\ Holds(t)
        /\ IsOp(t, "write")
        /\ ~alloc => n \in NodesOf(lru)
        /\ lru'      = c.lru
        /\ table'    = c.table
        /\ orphans'  = c.orphans
        /\ devFresh' = [devFresh EXCEPT ![k] = FALSE]
        /\ host'     = Outdated(host, k)
        /\ dropped'  = dropped \ {k}
        /\ task'     = [u \in Tasks |->
                          IF u = t THEN Continued(t)
                          ELSE IF task[u].pc \in {"miss", "flushing"} /\ Key(u) = k
                               THEN [task[u] EXCEPT !.carried = FALSE]
                          ELSE task[u]]
        /\ HoldIfGoesOn(t)
        /\ UNCHANGED <<queue, pageSize, maxPages, staleRead, dangling>>

-----------------------------------------------------------------------------
(* Cache::flush                                                            *)

\* The key is not resident ("page skipped"), or its page is clean.
FlushSkip(t) ==
    LET n == table[Key(t)]
    IN  /\ At(t, "lookup")
        /\ Holds(t)
        /\ IsOp(t, "flush")
        /\ n = NoNode \/ (n \in NodesOf(lru) /\ ~PageAt(lru, n).dirty)
        /\ Continue(t)
        /\ UNCHANGED <<cacheVars, ghostVars>>

\* A dirty page: copy it into the scratch buffer, set_dirty(false), then
\* co_await on_flush.
FlushDirty(t) ==
    LET n == table[Key(t)]
    IN  /\ At(t, "lookup")
        /\ Holds(t)
        /\ IsOp(t, "flush")
        /\ n \in NodesOf(lru)
        /\ PageAt(lru, n).dirty
        /\ task'    = [task EXCEPT ![t].pc = "flushing", ![t].carried = PageAt(lru, n).fresh]
        /\ lru'     = SetDirty(lru, n, FALSE)
        /\ running' = NoTask
        /\ UNCHANGED <<table, queue, orphans, pageSize, maxPages, ghostVars>>

\* on_flush succeeds: the device now holds the copy; the loop goes on.
FlushOk(t) ==
    /\ At(t, "flushing")
    /\ Free
    /\ devFresh' = [devFresh EXCEPT ![Key(t)] = task[t].carried]
    /\ Continue(t)
    /\ UNCHANGED <<cacheVars, host, dropped, staleRead, dangling>>

\* on_flush fails: return the error.
FlushFail(t) ==
    /\ At(t, "flushing")
    /\ Free
    /\ FlushCanFail
    /\ task' = [task EXCEPT ![t] = IdleCtx]
    /\ UNCHANGED <<cacheVars, running, ghostVars>>

-----------------------------------------------------------------------------
(* Orphans and reconfiguration, each run as its own handler                *)

\* get_orphan_pages: m_orphaned is moved out to the host.
GetOrphanPages ==
    /\ Free
    /\ orphans # <<>>
    /\ host'    = host \o orphans
    /\ orphans' = <<>>
    /\ UNCHANGED <<lru, table, queue, pageSize, maxPages, running, task,
                   devFresh, dropped, staleRead, dangling>>

\* The host writes the taken orphans back to the device in list order.
HostWriteBack ==
    /\ HostWritesBack
    /\ Free
    /\ host # <<>>
    /\ devFresh' = [devFresh EXCEPT ![Head(host).key] = Head(host).fresh]
    /\ host'     = Tail(host)
    /\ UNCHANGED <<cacheVars, running, task, dropped, staleRead, dangling>>

\* m_table.clear(); m_lru.clear().  Dirty pages are discarded by design.
Cleared ==
    /\ lru'     = <<>>
    /\ table'   = [k \in Keys |-> NoNode]
    /\ dropped' = dropped \cup {p.key : p \in {q \in ToSet(lru) : q.dirty /\ q.fresh}}

Invalidate ==
    /\ Free
    /\ Cleared
    /\ UNCHANGED <<queue, orphans, pageSize, maxPages, running, task,
                   devFresh, host, staleRead, dangling>>

SetPageSize(sz) ==
    /\ Free
    /\ pageSize' = sz
    /\ Cleared
    /\ UNCHANGED <<queue, orphans, maxPages, running, task, devFresh, host,
                   staleRead, dangling>>

SetMaxPages(m) ==
    /\ Free
    /\ maxPages' = m
    /\ Cleared
    /\ UNCHANGED <<queue, orphans, pageSize, running, task, devFresh, host,
                   staleRead, dangling>>

-----------------------------------------------------------------------------
\* Every step a started task takes, up to and including its return.
TaskStep(t) ==
    \/ PageQueued(t) \/ PageFree(t) \/ ResumeOk(t) \/ ResumeErr(t)
    \/ ReadHit(t) \/ ReadMiss(t) \/ MissFail(t) \/ MissOk(t)
    \/ WritePage(t)
    \/ FlushSkip(t) \/ FlushDirty(t) \/ FlushOk(t) \/ FlushFail(t)

Next ==
    \/ \E t \in Tasks : Start(t) \/ TaskStep(t)
    \/ GetOrphanPages
    \/ HostWriteBack
    \/ Invalidate
    \/ \E sz \in PageSizes : SetPageSize(sz)
    \/ \E m \in MaxPagesSet : SetMaxPages(m)

(***************************************************************************)
(* The executor runs every ready handler and the transport answers every  *)
(* call, but new calls and reconfigurations are never forced.  A task's   *)
(* steps need the executor free, which other tasks may keep taking, so    *)
(* they are strongly fair: the executor serves ready handlers in order.   *)
(***************************************************************************)
Fairness == \A t \in Tasks : SF_vars(TaskStep(t))

Spec == Init /\ [][Next]_vars /\ Fairness

-----------------------------------------------------------------------------
(* Properties                                                              *)

TypeOK ==
    /\ lru \in Seq(PageRec)
    /\ table \in [Keys -> Nodes \cup {NoNode}]
    /\ queue \in [Keys -> Tasks \cup {NoTask}]
    /\ orphans \in Seq(OrphanRec)
    /\ pageSize \in PageSizes
    /\ maxPages \in MaxPagesSet
    /\ running \in Tasks \cup {NoTask}
    /\ task \in [Tasks -> Ctx]
    /\ devFresh \in [Keys -> BOOLEAN]
    /\ host \in Seq(OrphanRec)
    /\ dropped \subseteq Keys
    /\ staleRead \in BOOLEAN
    /\ dangling \in BOOLEAN

\* A copy of the latest write of k that is still on its way to the device.
FreshCopyHeld(k) ==
    \/ \E p \in ToSet(lru) : p.key = k /\ p.dirty /\ p.fresh
    \/ \E o \in ToSet(orphans) \cup ToSet(host) : o.key = k /\ o.fresh
    \/ \E t \in Tasks : At(t, "flushing") /\ Key(t) = k /\ task[t].carried

(***************************************************************************)
(* No write is lost: the latest write of every key is on the device, or   *)
(* held dirty by m_lru, m_orphaned, the host or a flush in flight, unless  *)
(* invalidate / set_page_size / set_max_pages discarded it (by design).    *)
(* Eviction, flush and orphan hand-over all move the data along.           *)
(***************************************************************************)
NoLostWrite == \A k \in Keys : devFresh[k] \/ k \in dropped \/ FreshCopyHeld(k)

(***************************************************************************)
(* Single-flight: at most one task runs on_miss for a key at a time       *)
(* (spec 4.2, 8.1).  Waiters resume at m_table.find without looking at    *)
(* m_queue again, which is what this is about.                             *)
(***************************************************************************)
SingleFlight ==
    \A t, u \in Tasks : t # u /\ At(t, "miss") /\ At(u, "miss") => Key(t) # Key(u)

\* A read never copies a page that misses the latest write of its key,
\* unless a reconfiguration discarded that write (spec 5: a write is
\* visible to every subsequent read).
ReadSeesLatestWrite == ~staleRead

\* Every page in m_lru has the current page size (spec 4.9: blending old-
\* and new-sized pages is disallowed).
UniformPageSize == \A p \in ToSet(lru) : p.psz = pageSize

\* After an on_miss, read copies from the m_table entry it took before the
\* eviction loop: that page is never the one evicted (spec 4.4 d).
NoDanglingEntry == ~dangling

\* Capacity (spec 8.2): between calls m_lru holds at most m_max_pages pages.
CapacityAtRest == Free => Len(lru) <= maxPages

\* Every entry of m_queue is the promise of a task still fetching that key,
\* so every waiter is eventually woken.
InFlightEntryHasFetcher ==
    \A k \in Keys : queue[k] # NoTask => At(queue[k], "miss") /\ Key(queue[k]) = k

\* Every call that starts returns: no waiter is left on a future nobody
\* resolves, and no task waits forever for the executor.
OpsComplete == \A t \in Tasks : ~At(t, "idle") ~> At(t, "idle")

=============================================================================
