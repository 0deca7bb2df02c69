----------------------------- MODULE CacheConn -----------------------------
(***************************************************************************)
(* madbfs::data::Cache of src/unnamed/part_001, the version bound to a    *)
(* connection.  It differs from module Cache in three ways:                *)
(*   - the cache resolves paths itself: m_path_map maps a file id to a     *)
(*     reference count and the path on_miss / on_flush hand to the         *)
(*     connection; read counts a use per miss, write one per page written, *)
(*     evict releases one per dirty page it pushes;                        *)
(*   - there is no orphan list: evict is a coroutine that pops pages off  *)
(*     the back of m_lru and co_awaits on_flush for each dirty one;        *)
(*   - read and write co_await evict inside their page loop, read while    *)
(*     holding the m_table iterator of the page it is about to copy from.  *)
(* Tasks interleave only at co_awaits, as in module Cache.  Page contents *)
(* are left out: the properties are about the lifetime of m_table entries *)
(* and m_path_map entries, and about calls returning.                      *)
(***************************************************************************)
EXTENDS Naturals, FiniteSets, Sequences, SequencesExt, TLC

CONSTANTS
    Ids,            \* file ids (model values)
    NumPages,       \* pages per file: indices 0 .. NumPages-1
    Tasks,          \* coroutines that call the cache (model values)
    PageSizes,      \* page sizes set_page_size may be given
    MaxPagesSet,    \* values set_max_pages may be given
    InitPageSize,
    InitMaxPages,
    NodeBound,      \* list nodes that may exist at once (a bound of the model)
    RefBound,       \* a call on id starts only while its count is below this
    MissCanFail,    \* whether the connection's read may fail
    NoTask,
    NoNode

ASSUME InitPageSize \in PageSizes /\ InitMaxPages \in MaxPagesSet
ASSUME NumPages \in Nat \ {0} /\ NodeBound \in Nat \ {0} /\ RefBound \in Nat \ {0}

Indices == 0 .. NumPages - 1
Keys    == Ids \X Indices
Nodes   == 1 .. NodeBound

\* A page of m_lru: its list node, PageKey and dirty bit.
PageRec == [node: Nodes, key: Keys, dirty: BOOLEAN]

PCs == {"idle", "page", "lookup", "wait", "woken", "miss", "flushing", "evict", "evictFlush"}

\* The locals of one coroutine.  entry is the m_table iterator read took
\* (NoNode once that element is erased); left is evict's `size`; vkey the
\* key of the page evict is pushing.
Ctx == [pc: PCs, op: {"read", "write", "flush"}, fid: Ids, cur: Indices, last: Indices,
        waitOn: Tasks \cup {NoTask}, outcome: {"ok", "err"},
        entry: Nodes \cup {NoNode}, left: 0 .. NodeBound, vkey: Keys]

IdleCtx == [pc |-> "idle", op |-> "read", fid |-> CHOOSE i \in Ids : TRUE, cur |-> 0,
            last |-> 0, waitOn |-> NoTask, outcome |-> "ok", entry |-> NoNode,
            left |-> 0, vkey |-> CHOOSE k \in Keys : TRUE]

VARIABLES
    lru,        \* m_lru, front = most recently used
    table,      \* m_table: PageKey -> list node
    queue,      \* m_queue: PageKey -> task whose promise is stored there
    pathMap,    \* m_path_map: id -> count (DOMAIN = the ids with an entry)
    pageSize,   \* m_page_size
    maxPages,   \* m_max_pages
    running,    \* the task holding the executor, or NoTask
    task,       \* the locals of each task (Ctx)
    dangling    \* ghost: read dereferenced an erased m_table element

cacheVars == <<lru, table, queue, pathMap, pageSize, maxPages>>
vars      == <<cacheVars, running, task, dangling>>

-----------------------------------------------------------------------------
(* Helpers                                                                 *)

NodesOf(s)    == {s[i].node : i \in 1 .. Len(s)}
PageAt(s, n)  == CHOOSE p \in ToSet(s) : p.node = n
TableSize(tb) == Cardinality({k \in Keys : tb[k] # NoNode})
FreeNodes     == Nodes \ NodesOf(lru)

\* m_lru.splice(m_lru.begin(), m_lru, page)
MoveToFront(s, n) == Cons(PageAt(s, n), SelectSeq(s, LAMBDA p : p.node # n))

\* Mutant of Acquire: a new entry emplaced with a count of 0.
AcquireFromZero(pm, id) ==
    IF id \in DOMAIN pm THEN [pm EXCEPT ![id] = @ + 1] ELSE pm @@ (id :> 0)

\* The m_path_map lookup that starts a use: emplace {1, path} or ++count.
Acquire(pm, id) == IF id \in DOMAIN pm THEN [pm EXCEPT ![id] = @ + 1] ELSE pm @@ (id :> 1)

\* Mutant of Release: the entry erased outright, whatever its count.
ReleaseErase(pm, id) == [i \in DOMAIN pm \ {id} |-> pm[i]]

\* --count, and erase the entry when it reaches 0.
Release(pm, id) ==
    IF pm[id] = 1 THEN [i \in DOMAIN pm \ {id} |-> pm[i]] ELSE [pm EXCEPT ![id] = @ - 1]

\* evict(m_table.size() - m_max_pages), called when over budget.
ReadEvictCount(tb) == IF TableSize(tb) > maxPages THEN TableSize(tb) - maxPages ELSE 0

\* evict(m_table.size() > m_max_pages): the bool converts to 1.
WriteEvictCount(tb) == IF TableSize(tb) > maxPages THEN 1 ELSE 0

PathCount(id) == IF id \in DOMAIN pathMap THEN pathMap[id] ELSE 0

Key(t)     == <<task[t].fid, task[t].cur>>
At(t, p)   == task[t].pc = p
Holds(t)   == running = t
Free       == running = NoTask
IsOp(t, o) == task[t].op = o

Goto(t, p) == task' = [task EXCEPT ![t].pc = p]

GoesOn(t)  == task[t].cur < task[t].last
Continued(t) ==
    IF GoesOn(t)
    THEN [task[t] EXCEPT !.pc = "page", !.cur = @ + 1, !.entry = NoNode, !.vkey = IdleCtx.vkey]
    ELSE IdleCtx
HoldIfGoesOn(t) == running' = IF GoesOn(t) THEN t ELSE NoTask

\* The locals of every task after m_table loses the elements of keys ks:
\* an iterator read holds to one of them is no longer valid.
Forget(tk, ks) ==
    [u \in Tasks |-> IF tk[u].entry # NoNode /\ <<tk[u].fid, tk[u].cur>> \in ks
                     THEN [tk[u] EXCEPT !.entry = NoNode] ELSE tk[u]]

Subscribed(u, t) == At(u, "wait") /\ task[u].waitOn = t

\* promise.set_value(res): the subscribers of t's future wake with res.
Woken(t, ctx, res) ==
    [u \in Tasks |-> IF u = t THEN ctx
                     ELSE IF Subscribed(u, t) THEN [task[u] EXCEPT !.pc = "woken", !.outcome = res]
                     ELSE task[u]]

-----------------------------------------------------------------------------
Init ==
    /\ lru      = <<>>
    /\ table    = [k \in Keys |-> NoNode]
    /\ queue    = [k \in Keys |-> NoTask]
    /\ pathMap  = <<>>
    /\ pageSize = InitPageSize
    /\ maxPages = InitMaxPages
    /\ running  = NoTask
    /\ task     = [t \in Tasks |-> IdleCtx]
    /\ dangling = FALSE

\* A callback calls read, write or flush of file i on an idle task.
Start(t) ==
    /\ At(t, "idle")
    /\ Free
    /\ \E o \in {"read", "write", "flush"}, i \in Ids, first, final \in Indices :
          /\ first <= final
          /\ o = "flush" => first = 0
          /\ PathCount(i) < RefBound
          /\ task' = [task EXCEPT ![t] = [IdleCtx EXCEPT !.pc = "page", !.op = o,
                                          !.fid = i, !.cur = first, !.last = final]]
    /\ running' = t
    /\ UNCHANGED <<cacheVars, dangling>>

\* m_queue.find(key) hits: copy the shared future and co_await it.
PageQueued(t) ==
    /\ At(t, "page")
    /\ Holds(t)
    /\ queue[Key(t)] # NoTask
    /\ task'    = [task EXCEPT ![t].pc = "wait", ![t].waitOn = queue[Key(t)]]
    /\ running' = NoTask
    /\ UNCHANGED <<cacheVars, dangling>>

PageFree(t) ==
    /\ At(t, "page")
    /\ Holds(t)
    /\ queue[Key(t)] = NoTask
    /\ Goto(t, "lookup")
    /\ UNCHANGED <<cacheVars, running, dangling>>

\* The future resolved with Errc{}: resume at the lines after the wait.
ResumeOk(t) ==
    /\ At(t, "woken")
    /\ Free
    /\ task[t].outcome = "ok"
    /\ Goto(t, "lookup")
    /\ running' = t
    /\ UNCHANGED <<cacheVars, dangling>>

ResumeErr(t) ==
    /\ At(t, "woken")
    /\ Free
    /\ task[t].outcome = "err"
    /\ task' = [task EXCEPT ![t] = IdleCtx]
    /\ UNCHANGED <<cacheVars, running, dangling>>
-----------------------------------------------------------------------------
(* Cache::read                                                             *)

\* Copy from the page the m_table iterator `entry` names, after splicing it
\* to the front.  An iterator whose element was erased is dereferenced all
\* the same: undefined behaviour, recorded in `dangling`.
CopyFrom(t, n) ==
    IF n # NoNode /\ n \in NodesOf(lru)
    THEN lru' = MoveToFront(lru, n) /\ UNCHANGED dangling
    ELSE dangling' = TRUE /\ UNCHANGED lru

ReadHit(t) ==
    /\ At(t, "lookup")
    /\ Holds(t)
    /\ IsOp(t, "read")
    /\ table[Key(t)] # NoNode
    /\ CopyFrom(t, table[Key(t)])
    /\ task' = [task EXCEPT ![t] = Continued(t)]
    /\ HoldIfGoesOn(t)
    /\ UNCHANGED <<table, queue, pathMap, pageSize, maxPages>>

\* Not resident: m_queue.emplace (keeps an entry already there), count a
\* use of the id in m_path_map, co_await on_miss.
ReadMiss(t) ==
    /\ At(t, "lookup")
    /\ Holds(t)
    /\ IsOp(t, "read")
    /\ table[Key(t)] = NoNode
    /\ queue'   = IF queue[Key(t)] = NoTask THEN [queue EXCEPT ![Key(t)] = t] ELSE queue
    /\ pathMap' = Acquire(pathMap, task[t].fid)
    /\ Goto(t, "miss")
    /\ running' = NoTask
    /\ UNCHANGED <<lru, table, pageSize, maxPages, dangling>>

\* Mutant of MissFail: returns without set_value, waiters stay suspended.
MissFailSilent(t) ==
    /\ At(t, "miss")
    /\ Free
    /\ MissCanFail
    /\ task'  = [task EXCEPT ![t] = IdleCtx]
    /\ queue' = [queue EXCEPT ![Key(t)] = NoTask]
    /\ UNCHANGED <<lru, table, pathMap, pageSize, maxPages, running, dangling>>

\* on_miss fails: set_value(error), m_queue.erase(key), return the error.
\* The use counted in m_path_map is not released.
MissFail(t) ==
    /\ At(t, "miss")
    /\ Free
    /\ MissCanFail
    /\ task'  = Woken(t, IdleCtx, "err")
    /\ queue' = [queue EXCEPT ![Key(t)] = NoTask]
    /\ UNCHANGED <<lru, table, pathMap, pageSize, maxPages, running, dangling>>

(***************************************************************************)
(* on_miss returns: emplace the page at the front of m_lru and into       *)
(* m_table (keeping an element already there), take that element as      *)
(* `entry`, set_value(Errc{}), m_queue.erase(key), then co_await          *)
(* evict(m_table.size() - m_max_pages) when over budget.                   *)
(***************************************************************************)
MissOk(t) ==
    LET k    == Key(t)
        n    == Min(FreeNodes)
        tab1 == IF table[k] = NoNode THEN [table EXCEPT ![k] = n] ELSE table
    IN  /\ At(t, "miss")
        /\ Free
        /\ lru'   = Cons([node |-> n, key |-> k, dirty |-> FALSE], lru)
        /\ table' = tab1
        /\ queue' = [queue EXCEPT ![k] = NoTask]
        /\ task'  = Woken(t, [task[t] EXCEPT !.pc = "evict", !.entry = tab1[k],
                                             !.left = ReadEvictCount(tab1)], "ok")
        /\ running' = t
        /\ UNCHANGED <<pathMap, pageSize, maxPages, dangling>>

-----------------------------------------------------------------------------
(* Cache::write                                                            *)

(***************************************************************************)
(* Count a use of the id, allocate an empty page if the key is not        *)
(* resident (no fetch), write into it, set it dirty, splice it to the     *)
(* front, then co_await evict(m_table.size() > m_max_pages): the bool     *)
(* converts to a count of 1.                                               *)
(***************************************************************************)
WritePage(t) ==
    LET k     == Key(t)
        alloc == table[k] = NoNode
        n     == IF alloc THEN Min(FreeNodes) ELSE table[k]
        lru1  == IF alloc THEN Cons([node |-> n, key |-> k, dirty |-> FALSE], lru) ELSE lru
        lru2  == [i \in 1 .. Len(lru1) |->
                    IF lru1[i].node = n THEN [lru1[i] EXCEPT !.dirty = TRUE] ELSE lru1[i]]
        tab1  == IF alloc THEN [table EXCEPT ![k] = n] ELSE table
    IN  /\ At(t, "lookup")
        /\ Holds(t)
        /\ IsOp(t, "write")
        /\ ~alloc => n \in NodesOf(lru)
        /\ pathMap' = Acquire(pathMap, task[t].fid)
        /\ lru'     = MoveToFront(lru2, n)
        /\ table'   = tab1
        /\ task'    = [task EXCEPT ![t].pc = "evict",
                                   ![t].left = WriteEvictCount(tab1)]
        /\ UNCHANGED <<queue, pageSize, maxPages, running, dangling>>

-----------------------------------------------------------------------------
(* Cache::flush                                                            *)

\* Not resident ("page skipped"), or clean.
FlushSkip(t) ==
    LET n == table[Key(t)]
    IN  /\ At(t, "lookup")
        /\ Holds(t)
        /\ IsOp(t, "flush")
        /\ n = NoNode \/ (n \in NodesOf(lru) /\ ~PageAt(lru, n).dirty)
        /\ task' = [task EXCEPT ![t] = Continued(t)]
        /\ HoldIfGoesOn(t)
        /\ UNCHANGED <<cacheVars, dangling>>

\* Dirty: copy it out, set_dirty(false), co_await on_flush.
FlushDirty(t) ==
    LET n == table[Key(t)]
    IN  /\ At(t, "lookup")
        /\ Holds(t)
        /\ IsOp(t, "flush")
        /\ n \in NodesOf(lru)
        /\ PageAt(lru, n).dirty
        /\ lru' = [i \in 1 .. Len(lru) |->
                     IF lru[i].node = n THEN [lru[i] EXCEPT !.dirty = FALSE] ELSE lru[i]]
        /\ Goto(t, "flushing")
        /\ running' = NoTask
        /\ UNCHANGED <<table, queue, pathMap, pageSize, maxPages, dangling>>

\* on_flush returns: go on, or return its error.
FlushDone(t) ==
    /\ At(t, "flushing")
    /\ Free
    /\ \E ok \in BOOLEAN :
          IF ok THEN task' = [task EXCEPT ![t] = Continued(t)] /\ HoldIfGoesOn(t)
          ELSE task' = [task EXCEPT ![t] = IdleCtx] /\ UNCHANGED running
    /\ UNCHANGED <<cacheVars, dangling>>

-----------------------------------------------------------------------------
(* Cache::evict, run by the read or write that awaits it                   *)

(***************************************************************************)
(* One turn of `while (size-- > 0 and not m_lru.empty())`: move the back  *)
(* page out of m_lru and erase its key from m_table; a clean page is      *)
(* dropped, a dirty one pushed with co_await on_flush.                     *)
(***************************************************************************)
EvictPop(t) ==
    LET v == Last(lru)
    IN  /\ At(t, "evict")
        /\ Holds(t)
        /\ task[t].left > 0
        /\ lru # <<>>
        /\ lru'   = Front(lru)
        /\ table' = [table EXCEPT ![v.key] = NoNode]
        /\ LET tk == Forget(task, {v.key})
           IN  IF v.dirty
               THEN /\ task' = [tk EXCEPT ![t].left = @ - 1, ![t].pc = "evictFlush",
                                          ![t].vkey = v.key]
                    /\ running' = NoTask
               ELSE /\ task' = [tk EXCEPT ![t].left = @ - 1]
                    /\ UNCHANGED running
        /\ UNCHANGED <<queue, pathMap, pageSize, maxPages, dangling>>

\* on_flush returns (a failure is only logged): release the victim's use
\* of its id, then go on with the loop.
EvictFlushed(t) ==
    /\ At(t, "evictFlush")
    /\ Free
    /\ pathMap' = Release(pathMap, task[t].vkey[1])
    /\ Goto(t, "evict")
    /\ running' = t
    /\ UNCHANGED <<lru, table, queue, pageSize, maxPages, dangling>>

\* The loop ends: back in read, copy from `entry`; back in write, go on.
EvictDone(t) ==
    /\ At(t, "evict")
    /\ Holds(t)
    /\ task[t].left = 0 \/ lru = <<>>
    /\ IF IsOp(t, "read") THEN CopyFrom(t, task[t].entry) ELSE UNCHANGED <<lru, dangling>>
    /\ task' = [task EXCEPT ![t] = Continued(t)]
    /\ HoldIfGoesOn(t)
    /\ UNCHANGED <<table, queue, pathMap, pageSize, maxPages>>

-----------------------------------------------------------------------------
(* Reconfiguration: m_table.clear(); m_lru.clear()                         *)

Cleared ==
    /\ lru'   = <<>>
    /\ table' = [k \in Keys |-> NoNode]
    /\ task'  = Forget(task, Keys)

Invalidate ==
    /\ Free
    /\ Cleared
    /\ UNCHANGED <<queue, pathMap, pageSize, maxPages, running, dangling>>

SetPageSize(sz) ==
    /\ Free
    /\ pageSize' = sz
    /\ Cleared
    /\ UNCHANGED <<queue, pathMap, maxPages, running, dangling>>

SetMaxPages(m) ==
    /\ Free
    /\ maxPages' = m
    /\ Cleared
    /\ UNCHANGED <<queue, pathMap, pageSize, running, dangling>>

-----------------------------------------------------------------------------
TaskStep(t) ==
    \/ PageQueued(t) \/ PageFree(t) \/ ResumeOk(t) \/ ResumeErr(t)
    \/ ReadHit(t) \/ ReadMiss(t) \/ MissFail(t) \/ MissOk(t)
    \/ WritePage(t)
    \/ FlushSkip(t) \/ FlushDirty(t) \/ FlushDone(t)
    \/ EvictPop(t) \/ EvictFlushed(t) \/ EvictDone(t)

Next ==
    \/ \E t \in Tasks : Start(t) \/ TaskStep(t)
    \/ Invalidate
    \/ \E sz \in PageSizes : SetPageSize(sz)
    \/ \E m \in MaxPagesSet : SetMaxPages(m)

\* As in module Cache: ready handlers are served in turn, the connection
\* answers every call; calls and reconfigurations are never forced.
Fairness == \A t \in Tasks : SF_vars(TaskStep(t))

Spec == Init /\ [][Next]_vars /\ Fairness

-----------------------------------------------------------------------------
(* Properties                                                              *)

TypeOK ==
    /\ lru \in Seq(PageRec)
    /\ table \in [Keys -> Nodes \cup {NoNode}]
    /\ queue \in [Keys -> Tasks \cup {NoTask}]
    /\ DOMAIN pathMap \subseteq Ids /\ \A i \in DOMAIN pathMap : pathMap[i] \in Nat \ {0}
    /\ pageSize \in PageSizes
    /\ maxPages \in MaxPagesSet
    /\ running \in Tasks \cup {NoTask}
    /\ task \in [Tasks -> Ctx]
    /\ dangling \in BOOLEAN

\* The ids whose path is in use: a call awaiting on_miss or on_flush (flush
\* or evict), and a dirty page, which flush or evict will push.
PathUsers ==
    {task[t].fid : t \in {u \in Tasks : task[u].pc \in {"miss", "flushing"}}}
    \cup {task[t].vkey[1] : t \in {u \in Tasks : At(u, "evictFlush")}}
    \cup {p.key[1] : p \in {q \in ToSet(lru) : q.dirty}}

(***************************************************************************)
(* The path on_miss / on_flush look up stays in m_path_map for as long as *)
(* the connection uses it (the WARN of on_miss and on_flush), and a dirty *)
(* page always finds its path: counting a use per miss and per page       *)
(* written, and releasing one per dirty page evict pushes, never erases   *)
(* an entry under a user, whatever the interleaving.                       *)
(***************************************************************************)
PathEntryLive == PathUsers \subseteq DOMAIN pathMap

(***************************************************************************)
(* After co_await evict, read dereferences the m_table iterator it took   *)
(* before the await: that element must still be there (spec 4.4 d).      *)
(***************************************************************************)
NoDanglingEntry == ~dangling

\* Capacity (spec 8.2): with no call running, m_table holds at most
\* m_max_pages pages, although write asks evict for a single page.
CapacityAtRest == (\A t \in Tasks : At(t, "idle")) => TableSize(table) <= maxPages

\* Every call that starts returns.
OpsComplete == \A t \in Tasks : ~At(t, "idle") ~> At(t, "idle")
=============================================================================
