---------------------------- MODULE SessionCache ----------------------------
(***************************************************************************)
(* The read-through cache of opc-session-cache (lib.rs): readers and       *)
(* wrapper writers share a map, a watch cursor and two flags with one      *)
(* background loop that consumes the backend's replication watch stream    *)
(* (replication_watch.rs). Every await of the code ends a step, so the     *)
(* steps of readers, writers, the loop and other clients of the backend    *)
(* interleave freely. Whether a record has expired is the local clock's    *)
(* choice, and whether a call fails is the backend's.                      *)
(***************************************************************************)
EXTENDS Integers, Sequences, FiniteSets

CONSTANTS
  Keys,           \* session keys
  Readers,        \* concurrent callers of get
  Writers,        \* concurrent callers of the wrapper's mutations
  None,           \* no record
  Generations,    \* the generations writers use
  WatchCapacity,  \* WATCH_CHANNEL_CAPACITY
  MaxBacklog,     \* MAX_REPLICATION_WATCH_BACKLOG_ENTRIES
  MaxRetained,    \* entries the backend keeps before compacting
  MaxCommits,     \* bound: backend commits
  MaxFaults       \* bound: failing calls, broken streams, resyncs, rebuilds

(* A version is the sequence that wrote it; a TTL refresh makes a new      *)
(* version of the same generation.                                         *)
Version == [gen : Nat, ver : Nat]
Cached == [gen : Nat, ver : Nat, quiet : BOOLEAN]

ASSUME CacheAssumption ==
  /\ None \notin Version /\ None \notin Cached
  /\ Generations \subseteq Nat
  /\ WatchCapacity \in Nat \ {0}
  /\ MaxBacklog \in Nat /\ MaxRetained \in Nat
  /\ MaxCommits \in Nat /\ MaxFaults \in Nat

VARIABLES
  log,      \* the backend's committed entries
  record,   \* the backend's records
  stream,   \* the watch stream between the backend and the loop
  cache,    \* the cached records
  cursor,   \* last_sequence
  ready,    \* watch_ready
  syncing,  \* is_syncing
  loop,     \* where the watch loop is, and its `initialized`
  resyncs,  \* messages waiting in resync_rx
  reader,   \* the get calls in progress
  writer,   \* the wrapper mutations in progress
  faults,   \* failing calls, broken streams, resyncs and rebuilds so far
  shrunk    \* history: a rebuild has dropped committed entries

backendVars == <<log, record, shrunk>>
loopVars == <<cursor, syncing, loop, resyncs>>
vars == <<log, record, stream, cache, cursor, ready, syncing, loop, resyncs,
          reader, writer, faults, shrunk>>

Fault == faults < MaxFaults /\ faults' = faults + 1

Committed == Len(log)

Compacted == IF Committed > MaxRetained THEN Committed - MaxRetained ELSE 0

(* `next`: the watcher's next_sequence; `intact`: no entry was lost on its *)
(* way.                                                                    *)
NoStream == [open |-> FALSE, intact |-> TRUE, next |-> 0, backlog |-> <<>>,
             chan |-> <<>>]

IdleReader == [pc |-> "idle", key |-> None, second |-> FALSE, head |-> 0,
               rec |-> None, quiet |-> FALSE]

IdleWriter == [pc |-> "idle", kind |-> None, keys |-> {}, left |-> {}]

(* A stream item: the sequence and the keys of an entry, or an error. *)
Item(seq, entry) == [seq |-> seq, keys |-> entry.keys]
Error == [seq |-> 0, keys |-> {}]

-----------------------------------------------------------------------------
(* The backend and its watcher.                                            *)

Items == stream.backlog \o stream.chan

Popped == IF stream.backlog # <<>>
          THEN [stream EXCEPT !.backlog = Tail(@)]
          ELSE [stream EXCEPT !.chan = Tail(@)]

Sent(s, item) == [s EXCEPT !.chan = Append(s.chan, item), !.next = item.seq + 1]

(* Mutant: a full channel drops the entry and keeps the watcher. *)
NotifiedLossy(s, item) ==
  IF s.open /\ Len(s.chan) < WatchCapacity THEN Sent(s, item) ELSE s

(* ReplicationWatcher::notify: an entry below the watcher's position is    *)
(* ignored; one above it, or a full channel, closes the watcher, after an  *)
(* error item if there is room for one.                                    *)
Notified(s, item) ==
  LET room == Len(s.chan) < WatchCapacity
  IN CASE ~s.open \/ item.seq < s.next -> s
       [] s.open /\ item.seq > s.next ->
            [s EXCEPT !.open = FALSE,
                      !.chan = IF room THEN Append(s.chan, Error) ELSE s.chan]
       [] s.open /\ item.seq = s.next /\ room -> Sent(s, item)
       [] OTHER -> [s EXCEPT !.open = FALSE]

(* The sequence of the newest change to k's record up to sequence n. *)
LastChange(lg, k, n) ==
  LET changes == {i \in DOMAIN lg : i <= n /\ k \in lg[i].keys
                                     /\ lg[i].kind # "lease"}
  IN IF changes = {} THEN 0 ELSE CHOOSE i \in changes : \A j \in changes : j <= i

(* The records that a log leaves behind. *)
Replayed(lg) ==
  [k \in Keys |->
     LET i == LastChange(lg, k, Len(lg))
     IN IF i = 0 THEN None
        ELSE IF lg[i].kind = "delete" THEN None
        ELSE [gen |-> lg[i].gen, ver |-> i]]

(* What one operation appends. The caller of a put picks the generation    *)
(* (only some state classes have to raise it); a refresh keeps it.         *)
Entries(kind, keys) ==
  LET gens == CASE kind = "put" -> Generations
                [] kind = "refresh" -> {record[k].gen : k \in keys}
                [] OTHER -> {0}
  IN {[kind |-> kind, keys |-> keys, gen |-> gen] : gen \in gens}

Unquiet == [r \in Readers |-> [reader[r] EXCEPT !.quiet = FALSE]]

(* One commit, by this process or another: a record mutation, a batch of   *)
(* them or a lease operation. It interrupts every fill in progress.        *)
Commits(kind, keys) ==
  /\ Committed < MaxCommits
  /\ kind = "refresh" => \A k \in keys : record[k] # None
  /\ \E entry \in Entries(kind, keys) :
       /\ log' = Append(log, entry)
       /\ stream' = Notified(stream, Item(Committed + 1, entry))
  /\ record' = Replayed(log')
  /\ reader' = Unquiet
  /\ UNCHANGED shrunk

Mutations == {<<kind, {k}>> : kind \in {"put", "refresh", "delete"}, k \in Keys}
Batches == {<<"put", keys>> : keys \in SUBSET Keys \ {{}}}
LeaseCommands == {<<"lease", {k}>> : k \in Keys}

External ==
  /\ \E c \in Mutations \cup Batches \cup LeaseCommands : Commits(c[1], c[2])
  /\ UNCHANGED <<cache, ready, loopVars, writer, faults>>

(* The connection fails: with an error item, or by just ending. *)
StreamBreaks ==
  /\ stream.open
  /\ Fault
  /\ \E last \in {<<>>, <<Error>>} :
       /\ Len(stream.chan) + Len(last) <= WatchCapacity
       /\ stream' = [stream EXCEPT !.open = FALSE,
                                   !.chan = stream.chan \o last]
  /\ UNCHANGED <<backendVars, cache, ready, loopVars, reader, writer>>

(* What the gap and duplicate checks of the loop are for: a backend that   *)
(* loses the next entry, or delivers one again.                            *)
StreamMisdelivers ==
  /\ stream.open
  /\ Fault
  /\ \/ /\ Items # <<>>
        /\ stream' = [Popped EXCEPT !.intact = FALSE]
     \/ /\ cursor \in 1..Committed
        /\ stream' = [stream EXCEPT
             !.backlog = <<Item(cursor, log[cursor])>> \o @]
  /\ UNCHANGED <<backendVars, cache, ready, loopVars, reader, writer>>

(* What a call that returns the head may see: the head, or an error. *)
HeadReplies == {Committed} \cup (IF faults < MaxFaults THEN {-1} ELSE {})

CountError(reply) == faults' = IF reply = -1 THEN faults + 1 ELSE faults

-----------------------------------------------------------------------------
(* The cached map.                                                         *)

Cleared == [k \in Keys |-> None]

Evicted(c, keys) == [k \in Keys |-> IF k \in keys THEN None ELSE c[k]]

(* Mutant: a TTL refresh leaves the cached record alone. *)
InvalidatedButRefresh(c, item) ==
  IF item.seq \in 1..Committed /\ log[item.seq].kind = "refresh" THEN c
  ELSE Evicted(c, item.keys)

(* apply_invalidation_op *)
Invalidated(c, item) == Evicted(c, item.keys)

(* insert_if_newer *)
Inserted(c, k, rec) ==
  IF c[k] = None THEN [c EXCEPT ![k] = rec]
  ELSE IF rec.gen > c[k].gen THEN [c EXCEPT ![k] = rec] ELSE c

-----------------------------------------------------------------------------
(* SessionCache::get. `second` tells the coherence check before the fill   *)
(* from the one before the lookup.                                         *)

At(r, pc) == reader[r].pc = pc

Move(r, state) == reader' = [reader EXCEPT ![r] = state]

FlagsAllow == ready /\ ~syncing

BeginGet(r, k) ==
  /\ At(r, "idle")
  /\ Move(r, [IdleReader EXCEPT !.key = k,
                                !.pc = IF FlagsAllow THEN "head" ELSE "fetch"])
  /\ UNCHANGED <<backendVars, stream, cache, ready, loopVars, writer, faults>>

(* cache_reads_allowed asks the backend for its head ... *)
SampleHead(r) ==
  /\ At(r, "head")
  /\ \E reply \in HeadReplies :
       /\ CountError(reply)
       /\ Move(r, [reader[r] EXCEPT !.head = reply, !.pc = "compare"])
  /\ UNCHANGED <<backendVars, stream, cache, ready, loopVars, writer>>

Coherent(r) == reader[r].head # -1 /\ cursor >= reader[r].head

(* ... and compares it with the cursor; a lag or an error turns cache      *)
(* reads off and clears the cache.                                         *)
CompareHead(r) ==
  /\ At(r, "compare")
  /\ \/ /\ Coherent(r)
        /\ Move(r, [reader[r] EXCEPT !.pc = IF reader[r].second
                                            THEN "insert" ELSE "lookup"])
        /\ UNCHANGED ready
     \/ /\ ~Coherent(r)
        /\ Move(r, [reader[r] EXCEPT !.pc = "clear"])
        /\ ready' = FALSE
  /\ UNCHANGED <<backendVars, stream, cache, loopVars, writer, faults>>

ClearOnLag(r) ==
  /\ At(r, "clear")
  /\ cache' = Cleared
  /\ Move(r, IF reader[r].second THEN IdleReader
             ELSE [reader[r] EXCEPT !.pc = "fetch"])
  /\ UNCHANGED <<backendVars, stream, ready, loopVars, writer, faults>>

(* A hit returns; an expired hit is evicted first; a miss is fetched. *)
Lookup(r) ==
  /\ At(r, "lookup")
  /\ \/ /\ cache[reader[r].key] # None
        /\ \E next \in {IdleReader, [reader[r] EXCEPT !.pc = "evict"]} :
             Move(r, next)
     \/ /\ cache[reader[r].key] = None
        /\ Move(r, [reader[r] EXCEPT !.pc = "fetch"])
  /\ UNCHANGED <<backendVars, stream, cache, ready, loopVars, writer, faults>>

EvictExpired(r) ==
  /\ At(r, "evict")
  /\ cache' = Evicted(cache, {reader[r].key})
  /\ Move(r, [reader[r] EXCEPT !.pc = "fetch"])
  /\ UNCHANGED <<backendVars, stream, ready, loopVars, writer, faults>>

(* backend.get: no record, an expired one and an error end the call. *)
Fetch(r) ==
  LET rec == record[reader[r].key]
  IN /\ At(r, "fetch")
     /\ \/ Move(r, IdleReader)
        \/ /\ rec # None
           /\ Move(r, [reader[r] EXCEPT !.pc = "recheck", !.rec = rec,
                                        !.quiet = TRUE, !.second = TRUE])
     /\ UNCHANGED <<backendVars, stream, cache, ready, loopVars, writer,
                    faults>>

Recheck(r) ==
  /\ At(r, "recheck")
  /\ Move(r, IF FlagsAllow THEN [reader[r] EXCEPT !.pc = "head"]
             ELSE IdleReader)
  /\ UNCHANGED <<backendVars, stream, cache, ready, loopVars, writer, faults>>

Insert(r) ==
  /\ At(r, "insert")
  /\ cache' = Inserted(cache, reader[r].key,
                       [gen |-> reader[r].rec.gen, ver |-> reader[r].rec.ver,
                        quiet |-> reader[r].quiet])
  /\ Move(r, IdleReader)
  /\ UNCHANGED <<backendVars, stream, ready, loopVars, writer, faults>>

(* The public invalidate and clear. *)
Invalidate(k) ==
  /\ cache' = Evicted(cache, {k})
  /\ UNCHANGED <<backendVars, stream, ready, loopVars, reader, writer, faults>>

Clear ==
  /\ cache' = Cleared
  /\ UNCHANGED <<backendVars, stream, ready, loopVars, reader, writer, faults>>

-----------------------------------------------------------------------------
(* Mutations through the wrapper.                                          *)

(* A mutation and replicate_entry evict their keys before they call the    *)
(* backend, a batch does not.                                              *)
Calls ==
  {<<"pre", c>> : c \in Mutations \cup Batches \cup LeaseCommands}
    \cup {<<"call", c>> : c \in Batches}

BeginWrite(w, pc, kind, keys) ==
  /\ writer[w].pc = "idle"
  /\ Committed < MaxCommits
  /\ writer' = [writer EXCEPT ![w] = [pc |-> pc, kind |-> kind, keys |-> keys,
                                      left |-> keys]]
  /\ UNCHANGED <<backendVars, stream, cache, ready, loopVars, reader, faults>>

(* One invalidate before or after the call. *)
Evict(w) ==
  LET st == writer[w]
  IN /\ st.pc \in {"pre", "post"}
     /\ \E k \in st.left :
          /\ cache' = Evicted(cache, {k})
          /\ writer' = [writer EXCEPT ![w] =
               IF st.left # {k} THEN [st EXCEPT !.left = st.left \ {k}]
               ELSE IF st.pc = "pre" THEN [st EXCEPT !.pc = "call", !.left = st.keys]
               ELSE IdleWriter]
     /\ UNCHANGED <<backendVars, stream, ready, loopVars, reader, faults>>

(* The backend commits and answers, commits and the answer is lost, or     *)
(* refuses. Only a successful answer is followed by evictions.             *)
WriteCommits(w) ==
  /\ writer[w].pc = "call"
  /\ Commits(writer[w].kind, writer[w].keys)
  /\ \/ /\ writer' = [writer EXCEPT ![w].pc = "post"]
        /\ UNCHANGED faults
     \/ /\ Fault
        /\ writer' = [writer EXCEPT ![w] = IdleWriter]
  /\ UNCHANGED <<cache, ready, loopVars>>

WriteRefused(w) ==
  /\ writer[w].pc = "call"
  /\ writer' = [writer EXCEPT ![w] = IdleWriter]
  /\ UNCHANGED <<backendVars, stream, cache, ready, loopVars, reader, faults>>

(* rebuild_replication_state clears the cache, has the backend replace its *)
(* log and records, and clears again whatever the backend answered.        *)
BeginRebuild(w) ==
  /\ writer[w].pc = "idle"
  /\ Fault
  /\ cache' = Cleared
  /\ writer' = [writer EXCEPT ![w].pc = "rebuild"]
  /\ UNCHANGED <<backendVars, stream, ready, loopVars, reader>>

(* The journals a rebuild may install: a prefix of the current one, at     *)
(* most one entry longer.                                                  *)
Journals ==
  LET prefixes == {SubSeq(log, 1, n) : n \in 0..Committed}
  IN prefixes \cup
       {Append(p, e) : p \in prefixes,
                       e \in UNION {Entries("put", {k}) : k \in Keys}}

(* The backend tells none of its watchers of a rebuild. *)
Rebuild(w) ==
  /\ writer[w].pc = "rebuild"
  /\ \E journal \in Journals :
       /\ Len(journal) <= MaxCommits
       /\ log' = journal
       /\ record' = Replayed(journal)
       /\ stream' = [stream EXCEPT !.intact = @ /\ Len(journal) <= Committed]
       /\ shrunk' = (shrunk \/ \/ Len(journal) < Committed
                               \/ SubSeq(journal, 1, Committed) # log)
  /\ reader' = Unquiet
  /\ writer' = [writer EXCEPT ![w].pc = "clear"]
  /\ UNCHANGED <<cache, ready, loopVars, faults>>

RebuildRefused(w) ==
  /\ writer[w].pc = "rebuild"
  /\ writer' = [writer EXCEPT ![w].pc = "clear"]
  /\ UNCHANGED <<backendVars, stream, cache, ready, loopVars, reader, faults>>

ClearRebuilt(w) ==
  /\ writer[w].pc = "clear"
  /\ cache' = Cleared
  /\ writer' = [writer EXCEPT ![w] = IdleWriter]
  /\ UNCHANGED <<backendVars, stream, ready, loopVars, reader, faults>>

-----------------------------------------------------------------------------
(* run_watch_loop.                                                         *)

LoopAt(pc) == loop.pc = pc

Resync ==
  /\ Fault
  /\ resyncs' = resyncs + 1
  /\ UNCHANGED <<backendVars, stream, cache, cursor, ready, syncing, loop,
                 reader, writer>>

(* A resync message read at the top of the loop. *)
DrainResync ==
  /\ LoopAt("top")
  /\ resyncs > 0
  /\ resyncs' = resyncs - 1
  /\ ready' = FALSE
  /\ syncing' = TRUE
  /\ loop' = [loop EXCEPT !.pc = "drain"]
  /\ UNCHANGED <<backendVars, stream, cache, cursor, reader, writer, faults>>

DrainClear ==
  /\ LoopAt("drain")
  /\ cache' = Cleared
  /\ reader' = Unquiet
  /\ syncing' = FALSE
  /\ loop' = [pc |-> "top", init |-> FALSE]
  /\ UNCHANGED <<backendVars, stream, cursor, ready, resyncs, writer, faults>>

(* The cursor starts at the backend's head; a failed call is retried. *)
Initialize ==
  /\ LoopAt("top")
  /\ resyncs = 0
  /\ ready' = FALSE
  /\ \/ /\ loop.init
        /\ loop' = [loop EXCEPT !.pc = "open"]
        /\ UNCHANGED <<cursor, faults>>
     \/ /\ ~loop.init
        /\ \E reply \in HeadReplies :
             /\ CountError(reply)
             /\ cursor' = IF reply = -1 THEN cursor ELSE reply
             /\ loop' = IF reply = -1 THEN loop
                        ELSE [pc |-> "open", init |-> TRUE]
  /\ UNCHANGED <<backendVars, stream, cache, syncing, resyncs, reader, writer>>

(* watch and prepare_watch_registration: history that is compacted or too  *)
(* long to replay is refused.                                              *)
WatchAccepted ==
  /\ cursor + 1 > Compacted
  /\ Committed - cursor <= MaxBacklog

OpenStream ==
  /\ LoopAt("open")
  /\ \/ /\ WatchAccepted
        /\ stream' = [open |-> TRUE, intact |-> TRUE, chan |-> <<>>,
                      next |-> (IF cursor > Committed THEN cursor
                                ELSE Committed) + 1,
                      backlog |-> [i \in 1..(Committed - cursor) |->
                                     Item(cursor + i, log[cursor + i])]]
        /\ ready' = TRUE
        /\ loop' = [loop EXCEPT !.pc = "stream"]
        /\ UNCHANGED <<syncing, faults>>
     \/ /\ ~WatchAccepted \/ faults < MaxFaults
        /\ faults' = IF WatchAccepted THEN faults + 1 ELSE faults
        /\ syncing' = TRUE
        /\ loop' = [loop EXCEPT !.pc = "clear"]
        /\ UNCHANGED <<stream, ready>>
  /\ UNCHANGED <<backendVars, cache, cursor, resyncs, reader, writer>>

(* Leave the stream for a full resync. *)
LeaveForResync ==
  /\ ready' = FALSE
  /\ syncing' = TRUE
  /\ stream' = NoStream
  /\ loop' = [loop EXCEPT !.pc = "clear"]
  /\ UNCHANGED <<cache, cursor>>

Receive ==
  /\ LoopAt("stream")
  /\ Items # <<>>
  /\ LET seq == Items[1].seq
     IN \/ /\ seq = cursor + 1
           /\ cache' = Invalidated(cache, Items[1])
           /\ cursor' = seq
           /\ stream' = Popped
           /\ UNCHANGED <<ready, syncing, loop>>
        \/ /\ seq \in 1..cursor
           /\ stream' = Popped
           /\ UNCHANGED <<cache, cursor, ready, syncing, loop>>
        \/ (seq = 0 \/ seq > cursor + 1) /\ LeaveForResync
  /\ UNCHANGED <<backendVars, resyncs, reader, writer, faults>>

StreamEnds ==
  /\ LoopAt("stream")
  /\ Items = <<>> /\ ~stream.open
  /\ ready' = FALSE
  /\ stream' = NoStream
  /\ loop' = [loop EXCEPT !.pc = "top"]
  /\ UNCHANGED <<backendVars, cache, cursor, syncing, resyncs, reader, writer,
                 faults>>

ManualResync ==
  /\ LoopAt("stream")
  /\ resyncs > 0
  /\ resyncs' = resyncs - 1
  /\ LeaveForResync
  /\ UNCHANGED <<backendVars, reader, writer, faults>>

ResyncClear ==
  /\ LoopAt("clear")
  /\ cache' = Cleared
  /\ reader' = Unquiet
  /\ loop' = [loop EXCEPT !.pc = "rehead"]
  /\ UNCHANGED <<backendVars, stream, cursor, ready, syncing, resyncs, writer,
                 faults>>

(* After a pause the cursor jumps to the backend's head. *)
ResyncHead ==
  /\ LoopAt("rehead")
  /\ \E reply \in HeadReplies :
       /\ CountError(reply)
       /\ cursor' = IF reply = -1 THEN cursor ELSE reply
       /\ loop' = [pc |-> "top", init |-> reply # -1]
  /\ syncing' = FALSE
  /\ UNCHANGED <<backendVars, stream, cache, ready, resyncs, reader, writer>>

-----------------------------------------------------------------------------
Init ==
  /\ log = <<>>
  /\ record = [k \in Keys |-> None]
  /\ stream = NoStream
  /\ cache = Cleared
  /\ cursor = 0
  /\ ready = FALSE
  /\ syncing = FALSE
  /\ loop = [pc |-> "top", init |-> FALSE]
  /\ resyncs = 0
  /\ reader = [r \in Readers |-> IdleReader]
  /\ writer = [w \in Writers |-> IdleWriter]
  /\ faults = 0
  /\ shrunk = FALSE

ReaderStep(r) ==
  \/ SampleHead(r)
  \/ CompareHead(r)
  \/ ClearOnLag(r)
  \/ Lookup(r)
  \/ EvictExpired(r)
  \/ Fetch(r)
  \/ Recheck(r)
  \/ Insert(r)

WriterStep(w) ==
  \/ Evict(w)
  \/ WriteCommits(w)
  \/ WriteRefused(w)
  \/ Rebuild(w)
  \/ RebuildRefused(w)
  \/ ClearRebuilt(w)

LoopStep ==
  \/ DrainResync
  \/ DrainClear
  \/ Initialize
  \/ OpenStream
  \/ Receive
  \/ StreamEnds
  \/ ManualResync
  \/ ResyncClear
  \/ ResyncHead

Next ==
  \/ External
  \/ StreamBreaks
  \/ StreamMisdelivers
  \/ Resync
  \/ Clear
  \/ \E k \in Keys : Invalidate(k)
  \/ LoopStep
  \/ \E r \in Readers : ReaderStep(r) \/ \E k \in Keys : BeginGet(r, k)
  \/ \E w \in Writers :
       \/ WriterStep(w)
       \/ BeginRebuild(w)
       \/ \E call \in Calls : BeginWrite(w, call[1], call[2][1], call[2][2])

Spec == Init /\ [][Next]_vars

(* The watch loop and the calls in progress are tokio tasks whose awaits   *)
(* all complete (locks are held for bounded work, sleeps are bounded,      *)
(* calls answer or fail). Nobody has to commit, read, write or resync.     *)
Fairness ==
  /\ WF_vars(LoopStep)
  /\ \A r \in Readers : WF_vars(ReaderStep(r))
  /\ \A w \in Writers : WF_vars(WriterStep(w))

FairSpec == Spec /\ Fairness

-----------------------------------------------------------------------------
(* Correctness.                                                            *)

(* Types, the capacity of the watch channel, and a cursor that is ahead of *)
(* the backend only once a rebuild has dropped entries.                    *)
TypeOK ==
  /\ log \in Seq([kind : {"put", "refresh", "delete", "lease"},
                  keys : SUBSET Keys, gen : Nat])
  /\ record \in [Keys -> Version \cup {None}]
  /\ stream.open \in BOOLEAN
  /\ Items \in Seq([seq : Nat, keys : SUBSET Keys])
  /\ Len(stream.chan) <= WatchCapacity
  /\ cache \in [Keys -> Cached \cup {None}]
  /\ cursor \in Nat /\ (shrunk \/ cursor <= Committed)
  /\ ready \in BOOLEAN /\ syncing \in BOOLEAN
  /\ loop \in [pc : {"top", "drain", "open", "stream", "clear", "rehead"},
               init : BOOLEAN]
  /\ resyncs \in 0..MaxFaults /\ shrunk \in BOOLEAN

(* The reader is about to serve this cached record. *)
Hit(r) == At(r, "lookup") /\ cache[reader[r].key] # None

HitIsCurrent(r) ==
  cache[reader[r].key].ver >= LastChange(log, reader[r].key, reader[r].head)

(* The crate's promise (lib.rs:22, "stays coherent with the authoritative  *)
(* session store by consuming its replication watch stream"): a hit        *)
(* returns a record no older than the head this get checked the cursor     *)
(* against.                                                                *)
CoherentHits == \A r \in Readers : Hit(r) => HitIsCurrent(r)

(* What the code does guarantee: a hit is current if nothing was committed *)
(* and the loop cleared nothing while the record was on its way from the   *)
(* backend into the cache. Lost streams, gaps, compaction, resyncs and     *)
(* concurrent readers' clears then never leave a stale record behind. A    *)
(* rebuild to a shorter journal is excepted: it leaves the cursor above    *)
(* the head, where the loop takes new entries for duplicates.              *)
QuietHitsCurrent ==
  \A r \in Readers :
    Hit(r) /\ cache[reader[r].key].quiet /\ ~shrunk => HitIsCurrent(r)

(* While the backend has the loop's watcher registered, every entry above  *)
(* the cursor is in the stream: a slow loop is cut off, never skipped.     *)
WatchLosesNothing ==
  LoopAt("stream") /\ stream.open /\ stream.intact
    => \A seq \in cursor + 1..Committed : \E i \in 1..Len(Items) : Items[i].seq = seq

(* Once the backend stops committing and failing, the cursor reaches its   *)
(* head and stays there (an entry lost without a later one is never        *)
(* noticed by the loop, nor is a shorter journal).                         *)
CursorCatchesUp == <>[](cursor = Committed \/ ~stream.intact \/ shrunk)

=============================================================================
