------------------------ MODULE SessionCache_proofs ------------------------
(***************************************************************************)
(* Theorems about SessionCache, for any keys, readers, writers, channel    *)
(* capacity, backlog limit, retained history and number of faults.         *)
(*                                                                         *)
(* A cached record is current because of what happened on its way: a fill  *)
(* that nothing disturbed brings the backend's own record, the cursor then *)
(* only moves over entries whose keys the loop evicts, and where the       *)
(* cursor jumps instead no undisturbed record has survived.                *)
(***************************************************************************)
EXTENDS SessionCache, TLAPS, FiniteSetTheorems, SequenceTheorems

Kinds == {"put", "refresh", "delete", "lease"}
EntryT == [kind : Kinds, keys : SUBSET Keys, gen : Nat]
ItemT == [seq : Nat, keys : SUBSET Keys]
ReaderT == [pc : {"idle", "head", "compare", "clear", "lookup", "evict",
                  "fetch", "recheck", "insert"},
            key : Keys \cup {None}, second : BOOLEAN, head : Int,
            rec : Version \cup {None}, quiet : BOOLEAN]
WriterT == [pc : {"idle", "pre", "call", "post", "rebuild", "clear"},
            kind : Kinds \cup {None}, keys : SUBSET Keys, left : SUBSET Keys]
StreamT == [open : BOOLEAN, intact : BOOLEAN, next : Nat,
            backlog : Seq(ItemT), chan : Seq(ItemT)]

(* The items of a queue, and those between the backend and the loop. *)
Held(q) == {q[i] : i \in 1..Len(q)}
Carried(s) == Held(s.backlog) \cup Held(s.chan)

-----------------------------------------------------------------------------
(* The inductive invariant.                                                *)

Types ==
  /\ log \in Seq(EntryT)
  /\ record = Replayed(log)
  /\ stream \in StreamT
  /\ Len(stream.chan) <= WatchCapacity
  /\ cache \in [Keys -> Cached \cup {None}]
  /\ cursor \in Nat
  /\ ready \in BOOLEAN /\ syncing \in BOOLEAN /\ shrunk \in BOOLEAN
  /\ loop \in [pc : {"top", "drain", "open", "stream", "clear", "rehead"},
               init : BOOLEAN]
  /\ reader \in [Readers -> ReaderT]
  /\ writer \in [Writers -> WriterT]
  /\ faults \in 0..MaxFaults
  /\ resyncs \in 0..faults

WritersNamed(ws) ==
  \A w \in Writers : ws[w].pc \in {"pre", "call", "post"} => ws[w].kind \in Kinds

(* The registered watcher: everything above the cursor up to its position  *)
(* is on its way, and its position is above the backend's head n.          *)
WatchSafe(lp, s, n, cur) ==
  lp.pc = "stream" /\ s.open /\ s.intact =>
    /\ n < s.next
    /\ \A seq \in cur + 1..s.next - 1 : \E item \in Carried(s) : item.seq = seq

(* An item is what was committed. *)
ItemsSafe(s, lg) ==
  \A item \in Carried(s) :
    item.seq # 0 => item.seq <= Len(lg) /\ item.keys = lg[item.seq].keys

(* A stream is opened only from a cursor that was read. *)
Started(lp) == lp.pc \in {"open", "stream"} => lp.init

(* Between a clear of the loop and the jump of the cursor. *)
Jumping(lp) == lp.pc = "rehead" \/ (lp.pc = "top" /\ ~lp.init)

(* A get: a fill nothing has disturbed carries the backend's record, none  *)
(* is past its recheck while the cursor is about to jump, and the head of  *)
(* a lookup is not ahead of the cursor.                                    *)
ReaderSafe(st, recs, jump, lost, cur) ==
  /\ st.pc # "idle" => st.key \in Keys
  /\ st.pc \in {"recheck", "insert"} => st.second
  /\ st.second => st.rec # None
  /\ st.quiet => /\ st.second
                 /\ st.pc \in {"recheck", "head", "compare", "clear", "insert"}
                 /\ st.rec = recs[st.key]
  /\ jump /\ st.pc \in {"head", "compare", "insert"} => ~st.quiet
  /\ ~lost /\ st.pc = "lookup" => st.head <= cur

ReadersSafe(rs, recs, jump, lost, cur) ==
  \A r \in Readers : ReaderSafe(rs[r], recs, jump, lost, cur)

(* An undisturbed record is as new as the cursor, and none is cached while *)
(* the cursor is about to jump.                                            *)
CacheSafe(c, lg, jump, lost, cur) ==
  \A k \in Keys :
    c[k] # None /\ c[k].quiet =>
      /\ ~jump
      /\ ~lost => LastChange(lg, k, cur) <= c[k].ver

Inv ==
  /\ Types
  /\ WritersNamed(writer)
  /\ ready => loop.pc = "stream"
  /\ Started(loop)
  /\ WatchSafe(loop, stream, Len(log), cursor)
  /\ ~shrunk => cursor <= Len(log) /\ ItemsSafe(stream, log)
  /\ ReadersSafe(reader, record, Jumping(loop), shrunk, cursor)
  /\ CacheSafe(cache, log, Jumping(loop), shrunk, cursor)

-----------------------------------------------------------------------------
(* Queues.                                                                 *)

LEMMA QueueFacts ==
  ASSUME NEW T, NEW q \in Seq(T)
  PROVE  /\ Len(q) \in Nat /\ Held(q) \subseteq T
         /\ q # <<>> <=> Len(q) > 0
         /\ q # <<>> => /\ q[1] \in T /\ Tail(q) \in Seq(T)
                        /\ Len(Tail(q)) = Len(q) - 1
                        /\ q[1] \in Held(q)
                        /\ Held(Tail(q)) \subseteq Held(q)
                        /\ Held(q) \subseteq Held(Tail(q)) \cup {q[1]}
<1>1. Len(q) \in Nat /\ Held(q) \subseteq T /\ (q # <<>> <=> Len(q) > 0)
  BY DEF Held
<1>2. ASSUME q # <<>>
      PROVE  /\ q[1] \in T /\ Tail(q) \in Seq(T)
             /\ Len(Tail(q)) = Len(q) - 1
             /\ \A i \in 1..Len(q) - 1 : Tail(q)[i] = q[i + 1]
             /\ q[1] \in Held(q)
  BY <1>2 DEF Held
<1>3. ASSUME q # <<>>
      PROVE  Held(Tail(q)) \subseteq Held(q)
  <2> SUFFICES ASSUME NEW i \in 1..Len(q) - 1 PROVE Tail(q)[i] \in Held(q)
    BY <1>2, <1>3 DEF Held
  <2>1. i + 1 \in 1..Len(q) /\ Tail(q)[i] = q[i + 1]
    BY <1>1, <1>2, <1>3
  <2> QED BY <2>1 DEF Held
<1>4. ASSUME q # <<>>
      PROVE  Held(q) \subseteq Held(Tail(q)) \cup {q[1]}
  <2> SUFFICES ASSUME NEW i \in 1..Len(q), i # 1 PROVE q[i] \in Held(Tail(q))
    BY DEF Held
  <2>1. i - 1 \in 1..Len(q) - 1 /\ Tail(q)[i - 1] = q[i]
    BY <1>1, <1>2, <1>4
  <2> QED BY <1>2, <1>4, <2>1 DEF Held
<1> QED BY <1>1, <1>2, <1>3, <1>4

LEMMA AppendHeld ==
  ASSUME NEW T, NEW q \in Seq(T), NEW x \in T
  PROVE  /\ Append(q, x) \in Seq(T) /\ Len(Append(q, x)) = Len(q) + 1
         /\ Held(Append(q, x)) = Held(q) \cup {x}
<1>1. /\ Append(q, x) \in Seq(T) /\ Len(Append(q, x)) = Len(q) + 1 /\ Len(q) \in Nat
      /\ \A i \in 1..Len(q) : Append(q, x)[i] = q[i]
      /\ Append(q, x)[Len(q) + 1] = x
  OBVIOUS
<1>2. 1..Len(q) + 1 = 1..Len(q) \cup {Len(q) + 1}
  BY <1>1
<1>3. Held(Append(q, x)) = {Append(q, x)[i] : i \in 1..Len(q) \cup {Len(q) + 1}}
  BY <1>1, <1>2 DEF Held
<1> QED BY <1>1, <1>3 DEF Held

LEMMA ConcatHeld ==
  ASSUME NEW T, NEW p \in Seq(T), NEW q \in Seq(T)
  PROVE  /\ p \o q \in Seq(T) /\ Len(p \o q) = Len(p) + Len(q)
         /\ Held(p \o q) = Held(p) \cup Held(q)
         /\ p # <<>> => (p \o q)[1] = p[1]
         /\ p = <<>> => p \o q = q
<1>1. /\ p \o q \in Seq(T) /\ Len(p \o q) = Len(p) + Len(q)
      /\ Len(p) \in Nat /\ Len(q) \in Nat
      /\ \A i \in 1..Len(p) : (p \o q)[i] = p[i]
      /\ \A i \in 1..Len(q) : (p \o q)[Len(p) + i] = q[i]
  OBVIOUS
<1>2. p # <<>> => (p \o q)[1] = p[1]
  BY <1>1
<1>3. p = <<>> => p \o q = q
  OBVIOUS
<1>4. Held(p) \subseteq Held(p \o q)
  <2> SUFFICES ASSUME NEW i \in 1..Len(p) PROVE p[i] \in Held(p \o q)
    BY DEF Held
  <2>1. i \in 1..Len(p \o q) /\ (p \o q)[i] = p[i]
    BY <1>1
  <2> QED BY <2>1 DEF Held
<1>5. Held(q) \subseteq Held(p \o q)
  <2> SUFFICES ASSUME NEW i \in 1..Len(q) PROVE q[i] \in Held(p \o q)
    BY DEF Held
  <2>1. Len(p) + i \in 1..Len(p \o q) /\ (p \o q)[Len(p) + i] = q[i]
    BY <1>1
  <2> QED BY <2>1 DEF Held
<1>6. Held(p \o q) \subseteq Held(p) \cup Held(q)
  <2> SUFFICES ASSUME NEW i \in 1..Len(p \o q)
               PROVE  (p \o q)[i] \in Held(p) \cup Held(q)
    BY DEF Held
  <2>1. CASE i <= Len(p)
    <3>1. i \in 1..Len(p) /\ (p \o q)[i] = p[i]
      BY <1>1, <2>1
    <3> QED BY <3>1 DEF Held
  <2>2. CASE i > Len(p)
    <3>1. PICK j : j = i - Len(p)
      OBVIOUS
    <3>2. j \in 1..Len(q) /\ (p \o q)[i] = q[j]
      <4>1. j \in 1..Len(q) /\ i = Len(p) + j
        BY <1>1, <2>2, <3>1
      <4> QED BY <1>1, <4>1
    <3> QED BY <3>2 DEF Held
  <2> QED BY <1>1, <2>1, <2>2
<1> QED BY <1>1, <1>2, <1>3, <1>4, <1>5, <1>6

-----------------------------------------------------------------------------
(* The newest change to a record.                                          *)

(* A set of positions has a last one: the intervals above its members are  *)
(* finite sets, which strict inclusion orders well.                        *)
LEMMA LastPosition ==
  ASSUME NEW n \in Nat, NEW T, T \subseteq 1..n, T # {}
  PROVE  \E m \in T : \A k \in T : k <= m
<1> DEFINE U == {m + 1..n : m \in T}
<1>1. U \subseteq FiniteSubsetsOf(Nat)
  <2>1. ASSUME NEW m \in T PROVE m + 1..n \in FiniteSubsetsOf(Nat)
    <3>1. m + 1 \in Int /\ n \in Int /\ m + 1..n \subseteq Nat
      BY m \in 1..n
    <3>2. IsFiniteSet(m + 1..n)
      BY <3>1, FS_Interval
    <3> QED BY <3>1, <3>2 DEF FiniteSubsetsOf
  <2> QED BY <2>1
<1>2. U # {}
  OBVIOUS
<1>3. IsWellFoundedOn(StrictSubsetOrdering(Nat), FiniteSubsetsOf(Nat))
  BY FS_StrictSubsetOrderingWellFounded
<1>4. PICK x \in U : \A y \in U : <<y, x>> \notin StrictSubsetOrdering(Nat)
  <2> HIDE DEF U
  <2> QED BY <1>1, <1>2, <1>3, WFMin
<1>5. PICK m \in T : x = m + 1..n
  OBVIOUS
<1>6. ASSUME NEW k \in T, m < k PROVE FALSE
  <2>1. m \in 1..n /\ k \in 1..n
    OBVIOUS
  <2>2. k + 1..n \in U /\ k + 1..n \in SUBSET Nat /\ m + 1..n \in SUBSET Nat
    BY <2>1
  <2>3. k + 1..n \subseteq m + 1..n /\ k \in m + 1..n /\ k \notin k + 1..n
    BY <1>6, <2>1
  <2>4. <<k + 1..n, m + 1..n>> \in StrictSubsetOrdering(Nat)
    BY <2>2, <2>3 DEF StrictSubsetOrdering
  <2> QED BY <1>4, <1>5, <2>2, <2>4
<1>7. ASSUME NEW k \in T PROVE k <= m
  <2>1. m \in Nat /\ k \in Nat
    BY m \in 1..n, k \in 1..n
  <2> QED BY <1>6, <2>1
<1> QED BY <1>7

Changes(lg, k, n) ==
  {i \in 1..Len(lg) : i <= n /\ k \in lg[i].keys /\ lg[i].kind # "lease"}

LEMMA LastChangeOf ==
  ASSUME NEW lg \in Seq(EntryT), NEW k, NEW n
  PROVE  LastChange(lg, k, n)
           = IF Changes(lg, k, n) = {} THEN 0
             ELSE CHOOSE i \in Changes(lg, k, n) :
                    \A j \in Changes(lg, k, n) : j <= i
<1>1. DOMAIN lg = 1..Len(lg)
  OBVIOUS
<1> QED BY <1>1 DEF LastChange, Changes

(* LastChange is the largest change, or 0. *)
LEMMA LastChangeIs ==
  ASSUME NEW lg \in Seq(EntryT), NEW k, NEW n \in Int
  PROVE  /\ LastChange(lg, k, n) \in Nat
         /\ Changes(lg, k, n) = {} => LastChange(lg, k, n) = 0
         /\ LastChange(lg, k, n) # 0 => LastChange(lg, k, n) \in Changes(lg, k, n)
         /\ \A j \in Changes(lg, k, n) : j <= LastChange(lg, k, n)
<1> DEFINE c == Changes(lg, k, n)
<1>1. c \subseteq 1..Len(lg) /\ Len(lg) \in Nat /\ DOMAIN lg = 1..Len(lg)
  BY DEF Changes
<1>2. LastChange(lg, k, n)
        = IF c = {} THEN 0 ELSE CHOOSE i \in c : \A j \in c : j <= i
  BY LastChangeOf
<1> HIDE DEF c
<1>3. CASE c = {}
  BY <1>2, <1>3 DEF c
<1>4. CASE c # {}
  <2>1. \E i \in c : \A j \in c : j <= i
    BY <1>1, <1>4, LastPosition
  <2>2. LastChange(lg, k, n) \in c /\ \A j \in c : j <= LastChange(lg, k, n)
    BY <1>2, <1>4, <2>1
  <2> QED BY <1>1, <1>4, <2>2 DEF c
<1> QED BY <1>3, <1>4

(* A later bound has a later last change. *)
LEMMA LastChangeMonotone ==
  ASSUME NEW lg \in Seq(EntryT), NEW k, NEW m \in Int, NEW n \in Int, m <= n
  PROVE  LastChange(lg, k, m) <= LastChange(lg, k, n)
<1>1. Changes(lg, k, m) \subseteq Changes(lg, k, n)
  BY DEF Changes
<1>2. /\ LastChange(lg, k, m) \in Nat /\ LastChange(lg, k, n) \in Nat
      /\ LastChange(lg, k, m) # 0 => LastChange(lg, k, m) \in Changes(lg, k, m)
      /\ \A j \in Changes(lg, k, n) : j <= LastChange(lg, k, n)
  BY LastChangeIs
<1> QED BY <1>1, <1>2

(* A journal that only grew keeps the changes it had. *)
LEMMA LastChangeExtends ==
  ASSUME NEW lg \in Seq(EntryT), NEW more \in Seq(EntryT), NEW k, NEW n \in Nat,
         n <= Len(lg), Len(lg) <= Len(more), \A i \in 1..Len(lg) : more[i] = lg[i]
  PROVE  LastChange(more, k, n) = LastChange(lg, k, n)
<1>1. Changes(more, k, n) = Changes(lg, k, n)
  BY DEF Changes
<1> QED BY <1>1, LastChangeOf

(* One entry more changes only its own keys. *)
LEMMA LastChangeStep ==
  ASSUME NEW lg \in Seq(EntryT), NEW k, NEW n \in Nat, n + 1 <= Len(lg),
         k \notin lg[n + 1].keys
  PROVE  LastChange(lg, k, n + 1) = LastChange(lg, k, n)
<1>1. Changes(lg, k, n + 1) = Changes(lg, k, n)
  <2>1. ASSUME NEW i \in 1..Len(lg), k \in lg[i].keys, i <= n + 1 PROVE i <= n
    BY <2>1
  <2> QED BY <2>1 DEF Changes
<1> QED BY <1>1, LastChangeOf

(* The records a journal leaves: each is the newest change to its key. *)
LEMMA ReplayedRecords ==
  ASSUME NEW lg \in Seq(EntryT)
  PROVE  /\ Replayed(lg) \in [Keys -> Version \cup {None}]
         /\ \A k \in Keys : Replayed(lg)[k] # None =>
              /\ Replayed(lg)[k] \in Version
              /\ Replayed(lg)[k].ver = LastChange(lg, k, Len(lg))
<1> SUFFICES ASSUME NEW k \in Keys
             PROVE  /\ Replayed(lg)[k] \in Version \cup {None}
                    /\ Replayed(lg)[k] # None =>
                         Replayed(lg)[k].ver = LastChange(lg, k, Len(lg))
  BY DEF Replayed
<1>1. Len(lg) \in Int
  OBVIOUS
<1>2. PICK i : i = LastChange(lg, k, Len(lg))
  OBVIOUS
<1>3. i \in Nat /\ (i # 0 => i \in Changes(lg, k, Len(lg)))
  BY <1>1, <1>2, LastChangeIs
<1>4. Replayed(lg)[k] = IF i = 0 THEN None
                        ELSE IF lg[i].kind = "delete" THEN None
                        ELSE [gen |-> lg[i].gen, ver |-> i]
  BY <1>2 DEF Replayed
<1>5. i # 0 => lg[i].gen \in Nat
  <2>1. i # 0 => i \in 1..Len(lg)
    BY <1>3 DEF Changes
  <2>2. i # 0 => lg[i] \in EntryT
    BY <2>1
  <2> QED BY <2>2 DEF EntryT
<1> QED BY <1>2, <1>3, <1>4, <1>5 DEF Version

-----------------------------------------------------------------------------
(* The watcher.                                                            *)

(* ReplicationWatcher::notify either delivers the next entry or ends the   *)
(* stream.                                                                 *)
LEMMA NotifiedSafe ==
  ASSUME NEW s \in StreamT, Len(s.chan) <= WatchCapacity,
         NEW n \in Nat, NEW cur \in Nat, NEW lp, WatchSafe(lp, s, n, cur),
         NEW item \in ItemT, item.seq = n + 1
  PROVE  LET t == Notified(s, item)
         IN /\ t \in StreamT /\ Len(t.chan) <= WatchCapacity
            /\ WatchSafe(lp, t, n + 1, cur)
            /\ Carried(t) \subseteq Carried(s) \cup {item, Error}
<1>1. PICK t : t = Notified(s, item)
  OBVIOUS
<1>2. /\ s.open \in BOOLEAN /\ s.intact \in BOOLEAN /\ s.next \in Nat
      /\ s.chan \in Seq(ItemT) /\ s.backlog \in Seq(ItemT)
  BY DEF StreamT
<1>3. Error \in ItemT /\ WatchCapacity \in Nat
  BY CacheAssumption DEF Error, ItemT
<1>4. CASE ~s.open \/ item.seq < s.next
  <2>1. t = s
    <3>1. /\ ~(s.open /\ item.seq > s.next)
          /\ ~(s.open /\ item.seq = s.next /\ Len(s.chan) < WatchCapacity)
      BY <1>2, <1>4
    <3> QED BY <1>1, <1>4, <3>1 DEF Notified
  <2> QED BY <1>1, <1>2, <1>4, <2>1 DEF WatchSafe
<1>5. CASE s.open /\ item.seq > s.next
  <2>1. PICK q : q = IF Len(s.chan) < WatchCapacity THEN Append(s.chan, Error)
                     ELSE s.chan
    OBVIOUS
  <2>2. q \in Seq(ItemT) /\ Len(q) <= WatchCapacity /\ Held(q) \subseteq Held(s.chan) \cup {Error}
    <3>1. /\ Append(s.chan, Error) \in Seq(ItemT)
          /\ Len(Append(s.chan, Error)) = Len(s.chan) + 1
          /\ Held(Append(s.chan, Error)) = Held(s.chan) \cup {Error}
          /\ Len(s.chan) \in Nat
      BY <1>2, <1>3, AppendHeld, QueueFacts
    <3> QED BY <1>2, <1>3, <2>1, <3>1
  <2>3. t = [s EXCEPT !.open = FALSE, !.chan = q]
    <3>1. ~(~s.open \/ item.seq < s.next)
      BY <1>2, <1>5
    <3> QED BY <1>1, <1>5, <2>1, <3>1 DEF Notified
  <2>4. /\ t \in StreamT /\ t.chan = q /\ t.backlog = s.backlog /\ t.open = FALSE
    BY <2>2, <2>3 DEF StreamT
  <2> QED BY <1>1, <2>2, <2>4 DEF WatchSafe, Carried
<1>6. CASE s.open /\ item.seq = s.next /\ Len(s.chan) < WatchCapacity
  <2>1. PICK q : q = Append(s.chan, item)
    OBVIOUS
  <2>2. /\ q \in Seq(ItemT) /\ Len(q) = Len(s.chan) + 1 /\ Held(q) = Held(s.chan) \cup {item}
        /\ Len(s.chan) \in Nat
    BY <1>2, <2>1, AppendHeld, QueueFacts
  <2>3. t = [s EXCEPT !.chan = q, !.next = item.seq + 1]
    <3>1. ~(~s.open \/ item.seq < s.next) /\ ~(s.open /\ item.seq > s.next)
      BY <1>2, <1>6
    <3> QED BY <1>1, <1>6, <2>1, <3>1 DEF Notified, Sent
  <2>4. item.seq + 1 \in Nat
    BY DEF ItemT
  <2>5. /\ t \in StreamT /\ t.chan = q /\ t.backlog = s.backlog /\ t.next = s.next + 1
        /\ t.open = s.open /\ t.intact = s.intact
    BY <1>6, <2>2, <2>3, <2>4 DEF StreamT
  <2>6. Carried(t) = Carried(s) \cup {item}
    BY <2>2, <2>5 DEF Carried
  <2>7. WatchSafe(lp, t, n + 1, cur)
    <3> SUFFICES ASSUME lp.pc = "stream", s.intact
                 PROVE  /\ n + 1 < t.next
                        /\ \A seq \in cur + 1..t.next - 1 :
                             \E x \in Carried(t) : x.seq = seq
      BY <2>5 DEF WatchSafe
    <3>1. n < s.next /\ \A seq \in cur + 1..s.next - 1 : \E x \in Carried(s) : x.seq = seq
      BY <1>6 DEF WatchSafe
    <3>2. ASSUME NEW seq \in cur + 1..t.next - 1
          PROVE  \E x \in Carried(t) : x.seq = seq
      <4>1. seq \in cur + 1..s.next - 1 \/ seq = item.seq
        BY <1>2, <1>6, <2>5
      <4> QED BY <2>6, <3>1, <4>1
    <3> QED BY <1>2, <1>6, <2>5, <3>2
  <2> QED BY <1>1, <1>2, <1>3, <1>6, <2>2, <2>5, <2>6, <2>7
<1>7. CASE s.open /\ item.seq = s.next /\ ~(Len(s.chan) < WatchCapacity)
  <2>1. t = [s EXCEPT !.open = FALSE]
    <3>1. ~(~s.open \/ item.seq < s.next) /\ ~(s.open /\ item.seq > s.next)
      BY <1>2, <1>7
    <3> QED BY <1>1, <1>7, <3>1 DEF Notified
  <2>2. /\ t \in StreamT /\ t.chan = s.chan /\ t.backlog = s.backlog /\ t.open = FALSE
    BY <2>1 DEF StreamT
  <2> QED BY <1>1, <2>2 DEF WatchSafe, Carried
<1>8. item.seq \in Nat
  BY DEF ItemT
<1> QED BY <1>2, <1>4, <1>5, <1>6, <1>7, <1>8

-----------------------------------------------------------------------------
(* Steps by what they touch.                                               *)

(* Evicting keeps the cache safe. *)
LEMMA EvictSafe ==
  ASSUME NEW c \in [Keys -> Cached \cup {None}], NEW keys, NEW lg, NEW jump,
         NEW lost, NEW cur, CacheSafe(c, lg, jump, lost, cur)
  PROVE  /\ Evicted(c, keys) \in [Keys -> Cached \cup {None}]
         /\ CacheSafe(Evicted(c, keys), lg, jump, lost, cur)
BY DEF Evicted, CacheSafe

LEMMA ClearedSafe ==
  ASSUME NEW lg, NEW jump, NEW lost, NEW cur
  PROVE  /\ Cleared \in [Keys -> Cached \cup {None}]
         /\ CacheSafe(Cleared, lg, jump, lost, cur)
BY DEF Cleared, CacheSafe

(* A step of one get. *)
LEMMA ReaderMoves ==
  ASSUME Inv, NEW r \in Readers, NEW st \in ReaderT,
         ReaderSafe(st, record, Jumping(loop), shrunk, cursor), Move(r, st),
         UNCHANGED <<backendVars, stream, loopVars, writer>>,
         cache' \in [Keys -> Cached \cup {None}],
         CacheSafe(cache', log, Jumping(loop), shrunk, cursor),
         ready' \in BOOLEAN, ready' => ready,
         faults' \in 0..MaxFaults, faults <= faults'
  PROVE  Inv'
<1>1. /\ log' = log /\ record' = record /\ shrunk' = shrunk /\ stream' = stream
      /\ cursor' = cursor /\ syncing' = syncing /\ loop' = loop
      /\ resyncs' = resyncs /\ writer' = writer
  BY DEF backendVars, loopVars
<1>2. reader \in [Readers -> ReaderT] /\ reader' = [reader EXCEPT ![r] = st]
  BY DEF Inv, Types, Move
<1>3. reader' \in [Readers -> ReaderT]
  BY <1>2
<1>4. ReadersSafe(reader', record, Jumping(loop), shrunk, cursor)
  BY <1>2 DEF Inv, ReadersSafe
<1>5. resyncs \in 0..faults'
  BY CacheAssumption DEF Inv, Types
<1>6. Types'
  BY <1>1, <1>3, <1>5 DEF Inv, Types
<1> QED BY <1>1, <1>4, <1>6 DEF Inv

(* A step that only evicts. *)
LEMMA CacheMoves ==
  ASSUME Inv, cache' \in [Keys -> Cached \cup {None}],
         CacheSafe(cache', log, Jumping(loop), shrunk, cursor),
         UNCHANGED <<backendVars, stream, ready, loopVars, reader>>,
         writer' \in [Writers -> WriterT], WritersNamed(writer'),
         faults' \in 0..MaxFaults, faults <= faults'
  PROVE  Inv'
<1>1. /\ log' = log /\ record' = record /\ shrunk' = shrunk /\ stream' = stream
      /\ cursor' = cursor /\ syncing' = syncing /\ loop' = loop
      /\ resyncs' = resyncs /\ ready' = ready /\ reader' = reader
  BY DEF backendVars, loopVars
<1>2. resyncs \in 0..faults'
  BY CacheAssumption DEF Inv, Types
<1>3. Types'
  BY <1>1, <1>2 DEF Inv, Types
<1> QED BY <1>1, <1>3 DEF Inv

(* A fill that was disturbed. *)
LEMMA UnquietSafe ==
  ASSUME Inv, NEW jump, NEW recs, NEW lost, shrunk => lost
  PROVE  /\ Unquiet \in [Readers -> ReaderT]
         /\ ReadersSafe(Unquiet, recs, jump, lost, cursor)
<1>1. reader \in [Readers -> ReaderT]
      /\ ReadersSafe(reader, record, Jumping(loop), shrunk, cursor)
  BY DEF Inv, Types
<1> SUFFICES ASSUME NEW r \in Readers
             PROVE  Unquiet[r] \in ReaderT /\ ReaderSafe(Unquiet[r], recs, jump, lost, cursor)
  BY DEF Unquiet, ReadersSafe
<1>2. PICK st : st = Unquiet[r]
  OBVIOUS
<1>3. st = [reader[r] EXCEPT !.quiet = FALSE] /\ reader[r] \in ReaderT
  BY <1>1, <1>2 DEF Unquiet
<1>4. /\ st \in ReaderT /\ st.pc = reader[r].pc /\ st.key = reader[r].key
      /\ st.second = reader[r].second /\ st.head = reader[r].head
      /\ st.rec = reader[r].rec /\ st.quiet = FALSE
  BY <1>3 DEF ReaderT
<1>5. ReaderSafe(reader[r], record, Jumping(loop), shrunk, cursor)
  BY <1>1 DEF ReadersSafe
<1>6. ReaderSafe(st, recs, jump, lost, cursor)
  BY <1>4, <1>5 DEF ReaderSafe
<1> QED BY <1>2, <1>4, <1>6

(* The backend replaces its journal. *)
LEMMA JournalMoves ==
  ASSUME Inv, NEW lg \in Seq(EntryT), log' = lg, record' = Replayed(lg),
         reader' = Unquiet, shrunk' \in BOOLEAN, shrunk => shrunk',
         ~shrunk' => /\ Len(log) <= Len(lg)
                     /\ \A i \in 1..Len(log) : lg[i] = log[i]
                     /\ ItemsSafe(stream', lg),
         stream' \in StreamT, Len(stream'.chan) <= WatchCapacity,
         WatchSafe(loop, stream', Len(lg), cursor),
         UNCHANGED <<cache, ready, loopVars>>,
         writer' \in [Writers -> WriterT], WritersNamed(writer'),
         faults' \in 0..MaxFaults, faults <= faults'
  PROVE  Inv'
<1>1. /\ cursor' = cursor /\ syncing' = syncing /\ loop' = loop
      /\ resyncs' = resyncs /\ ready' = ready /\ cache' = cache
  BY DEF loopVars
<1>2. resyncs \in 0..faults'
  BY CacheAssumption DEF Inv, Types
<1>3. /\ reader' \in [Readers -> ReaderT]
      /\ ReadersSafe(reader', record', Jumping(loop), shrunk', cursor)
  BY UnquietSafe
<1>4. Types'
  BY <1>1, <1>2, <1>3 DEF Inv, Types
<1>5. cursor \in Nat /\ log \in Seq(EntryT) /\ Len(log) \in Nat /\ Len(lg) \in Nat
  BY DEF Inv, Types
<1>6. ~shrunk' => cursor <= Len(log)
  BY DEF Inv
<1>7. CacheSafe(cache, lg, Jumping(loop), shrunk', cursor)
  <2> SUFFICES ASSUME NEW k \in Keys, cache[k] # None, cache[k].quiet
               PROVE  /\ ~Jumping(loop)
                      /\ ~shrunk' => LastChange(lg, k, cursor) <= cache[k].ver
    BY DEF CacheSafe
  <2>1. ~Jumping(loop) /\ (~shrunk => LastChange(log, k, cursor) <= cache[k].ver)
    BY DEF Inv, CacheSafe
  <2>2. ~shrunk' => LastChange(lg, k, cursor) = LastChange(log, k, cursor)
    BY <1>5, <1>6, LastChangeExtends
  <2> QED BY <2>1, <2>2
<1>8. ~shrunk' => cursor <= Len(lg)
  BY <1>5, <1>6
<1> QED BY <1>1, <1>3, <1>4, <1>7, <1>8 DEF Inv

-----------------------------------------------------------------------------
(* The backend's steps.                                                    *)

(* One commit, of this process or of another. *)
LEMMA CommitSafe ==
  ASSUME Inv, NEW kind \in Kinds, NEW keys \in SUBSET Keys, Commits(kind, keys),
         UNCHANGED <<cache, ready, loopVars>>,
         writer' \in [Writers -> WriterT], WritersNamed(writer'),
         faults' \in 0..MaxFaults, faults <= faults'
  PROVE  Inv'
<1>1. PICK entry \in Entries(kind, keys) :
        /\ log' = Append(log, entry)
        /\ stream' = Notified(stream, Item(Len(log) + 1, entry))
  BY DEF Commits, Committed
<1>2. /\ log \in Seq(EntryT) /\ record = Replayed(log) /\ Len(log) \in Nat
      /\ stream \in StreamT /\ Len(stream.chan) <= WatchCapacity /\ cursor \in Nat
      /\ shrunk \in BOOLEAN
  BY DEF Inv, Types
<1>3. entry \in EntryT
  <2>1. PICK gen : /\ entry = [kind |-> kind, keys |-> keys, gen |-> gen]
                   /\ \/ gen \in Generations
                      \/ kind = "refresh" /\ \E k \in keys : gen = record[k].gen
                      \/ gen = 0
    BY <1>1 DEF Entries
  <2>2. kind = "refresh" => \A k \in keys : record[k] # None
    BY DEF Commits
  <2>3. \A k \in Keys : record[k] # None => record[k] \in Version
    BY <1>2, ReplayedRecords
  <2>4. kind = "refresh" => \A k \in keys : record[k].gen \in Nat
    BY <2>2, <2>3 DEF Version
  <2>5. gen \in Nat
    <3>1. Generations \subseteq Nat /\ 0 \in Nat
      BY CacheAssumption
    <3> QED BY <2>1, <2>4, <3>1, Zenon
  <2> QED BY <2>1, <2>5 DEF EntryT
<1>4. PICK item : item = Item(Len(log) + 1, entry)
  OBVIOUS
<1>5. item \in ItemT /\ item.seq = Len(log) + 1 /\ item.keys = entry.keys
  BY <1>2, <1>3, <1>4 DEF Item, ItemT, EntryT
<1>6. /\ stream' \in StreamT /\ Len(stream'.chan) <= WatchCapacity
      /\ WatchSafe(loop, stream', Len(log) + 1, cursor)
      /\ Carried(stream') \subseteq Carried(stream) \cup {item, Error}
  BY <1>1, <1>2, <1>4, <1>5, NotifiedSafe DEF Inv
<1>7. PICK lg : lg = Append(log, entry)
  OBVIOUS
<1>8. /\ lg \in Seq(EntryT) /\ Len(lg) = Len(log) + 1
      /\ \A i \in 1..Len(log) : lg[i] = log[i]
      /\ lg[Len(log) + 1] = entry
  BY <1>2, <1>3, <1>7
<1>9. ~shrunk => ItemsSafe(stream', lg)
  <2> SUFFICES ASSUME ~shrunk, NEW x \in Carried(stream'), x.seq # 0
               PROVE  x.seq <= Len(lg) /\ x.keys = lg[x.seq].keys
    BY DEF ItemsSafe
  <2>1. CASE x \in Carried(stream)
    <3>1. x.seq <= Len(log) /\ x.keys = log[x.seq].keys
      BY <2>1 DEF Inv, ItemsSafe
    <3>2. x.seq \in Nat
      <4>1. stream.backlog \in Seq(ItemT) /\ stream.chan \in Seq(ItemT)
        BY <1>2 DEF StreamT
      <4>2. x \in ItemT
        BY <2>1, <4>1, QueueFacts DEF Carried
      <4> QED BY <4>2 DEF ItemT
    <3>3. x.seq \in 1..Len(log)
      BY <1>2, <3>1, <3>2
    <3> QED BY <1>2, <1>8, <3>1, <3>3
  <2>2. CASE x = item
    BY <1>2, <1>5, <1>8, <2>2
  <2>3. CASE x = Error
    BY <2>3 DEF Error
  <2> QED BY <1>6, <2>1, <2>2, <2>3
<1>10. log' = lg /\ record' = Replayed(lg) /\ reader' = Unquiet /\ shrunk' = shrunk
  BY <1>1, <1>7 DEF Commits
<1>11. Len(log) <= Len(lg) /\ WatchSafe(loop, stream', Len(lg), cursor)
  BY <1>2, <1>6, <1>8
<1> QED BY <1>2, <1>6, <1>8, <1>9, <1>10, <1>11, JournalMoves

(* The commands and batches of a caller. *)
LEMMA CommandsTyped ==
  ASSUME NEW c \in Mutations \cup Batches \cup LeaseCommands
  PROVE  c[1] \in Kinds /\ c[2] \in SUBSET Keys
BY DEF Mutations, Batches, LeaseCommands, Kinds

LEMMA ExternalKeeps ==
  ASSUME Inv, External
  PROVE  Inv'
<1>1. PICK c \in Mutations \cup Batches \cup LeaseCommands : Commits(c[1], c[2])
  BY DEF External
<1>2. c[1] \in Kinds /\ c[2] \in SUBSET Keys
  BY CommandsTyped
<1>3. /\ UNCHANGED <<cache, ready, loopVars>>
      /\ writer' \in [Writers -> WriterT] /\ WritersNamed(writer')
      /\ faults' \in 0..MaxFaults /\ faults <= faults'
  BY CacheAssumption DEF External, Inv, Types
<1> QED BY <1>1, <1>2, <1>3, CommitSafe

(* What the stream carries is made of items. *)
LEMMA CarriedItems ==
  ASSUME NEW s \in StreamT
  PROVE  /\ s.backlog \in Seq(ItemT) /\ s.chan \in Seq(ItemT)
         /\ Carried(s) \subseteq ItemT
BY QueueFacts DEF StreamT, Carried

(* A step of the stream alone. *)
LEMMA StreamMoves ==
  ASSUME Inv, stream' \in StreamT, Len(stream'.chan) <= WatchCapacity,
         WatchSafe(loop, stream', Len(log), cursor),
         ~shrunk => ItemsSafe(stream', log),
         UNCHANGED <<backendVars, cache, ready, loopVars, reader, writer>>,
         faults' \in 0..MaxFaults, faults <= faults'
  PROVE  Inv'
<1>1. /\ log' = log /\ record' = record /\ shrunk' = shrunk
      /\ cursor' = cursor /\ syncing' = syncing /\ loop' = loop /\ cache' = cache
      /\ resyncs' = resyncs /\ ready' = ready /\ reader' = reader /\ writer' = writer
  BY DEF backendVars, loopVars
<1>2. resyncs \in 0..faults'
  BY CacheAssumption DEF Inv, Types
<1>3. Types'
  BY <1>1, <1>2 DEF Inv, Types
<1> QED BY <1>1, <1>3 DEF Inv

LEMMA FaultCounts ==
  ASSUME Inv, Fault
  PROVE  faults' \in 0..MaxFaults /\ faults <= faults' /\ faults' = faults + 1
BY CacheAssumption DEF Inv, Types, Fault

LEMMA StreamBreaksKeeps ==
  ASSUME Inv, StreamBreaks
  PROVE  Inv'
<1>1. PICK last \in {<<>>, <<Error>>} :
        /\ Len(stream.chan) + Len(last) <= WatchCapacity
        /\ stream' = [stream EXCEPT !.open = FALSE, !.chan = stream.chan \o last]
  BY DEF StreamBreaks
<1>2. stream \in StreamT
  BY DEF Inv, Types
<1>3. stream.backlog \in Seq(ItemT) /\ stream.chan \in Seq(ItemT)
  BY <1>2, CarriedItems
<1>4. last \in Seq(ItemT) /\ Held(last) \subseteq {Error}
  <2>1. Error \in ItemT
    BY DEF Error, ItemT
  <2>2. <<Error>> \in Seq(ItemT) /\ <<>> \in Seq(ItemT)
    BY <2>1
  <2>3. Held(<<Error>>) \subseteq {Error} /\ Held(<<>>) \subseteq {Error}
    BY DEF Held
  <2> QED BY <2>2, <2>3
<1>5. PICK q : q = stream.chan \o last
  OBVIOUS
<1>6. q \in Seq(ItemT) /\ Len(q) = Len(stream.chan) + Len(last)
      /\ Held(q) = Held(stream.chan) \cup Held(last)
  BY <1>3, <1>4, <1>5, ConcatHeld
<1>7. /\ stream' \in StreamT /\ stream'.chan = q /\ stream'.backlog = stream.backlog
      /\ stream'.open = FALSE
  BY <1>1, <1>2, <1>5, <1>6 DEF StreamT
<1>8. Carried(stream') \subseteq Carried(stream) \cup {Error}
  BY <1>4, <1>6, <1>7 DEF Carried
<1>9. ~shrunk => ItemsSafe(stream', log)
  BY <1>8 DEF Inv, ItemsSafe, Error
<1>10. WatchSafe(loop, stream', Len(log), cursor) /\ Len(stream'.chan) <= WatchCapacity
  BY <1>1, <1>6, <1>7 DEF WatchSafe
<1>11. /\ Fault /\ UNCHANGED <<backendVars, cache, ready, loopVars, reader, writer>>
  BY DEF StreamBreaks
<1> QED BY <1>7, <1>9, <1>10, <1>11, FaultCounts, StreamMoves

(* Taking the first item leaves all others. *)
LEMMA PoppedSafe ==
  ASSUME Inv, Items # <<>>
  PROVE  /\ Popped \in StreamT /\ Len(Popped.chan) <= WatchCapacity
         /\ Popped.open = stream.open /\ Popped.intact = stream.intact
         /\ Popped.next = stream.next
         /\ Items[1] \in ItemT /\ Items[1] \in Carried(stream)
         /\ Carried(Popped) \subseteq Carried(stream)
         /\ Carried(stream) \subseteq Carried(Popped) \cup {Items[1]}
<1>1. stream \in StreamT /\ Len(stream.chan) <= WatchCapacity
  BY DEF Inv, Types
<1>2. stream.backlog \in Seq(ItemT) /\ stream.chan \in Seq(ItemT)
  BY <1>1, CarriedItems
<1>3. CASE stream.backlog # <<>>
  <2>1. PICK q : q = Tail(stream.backlog)
    OBVIOUS
  <2>2. PICK first : first = stream.backlog[1]
    OBVIOUS
  <2>3. /\ q \in Seq(ItemT) /\ first \in ItemT /\ first \in Held(stream.backlog)
        /\ Held(q) \subseteq Held(stream.backlog)
        /\ Held(stream.backlog) \subseteq Held(q) \cup {first}
    BY <1>2, <1>3, <2>1, <2>2, QueueFacts
  <2>4. PICK s : s = Popped
    OBVIOUS
  <2>5. s = [stream EXCEPT !.backlog = q]
    BY <1>3, <2>1, <2>4 DEF Popped
  <2>6. /\ s \in StreamT /\ s.backlog = q /\ s.chan = stream.chan
        /\ s.open = stream.open /\ s.intact = stream.intact /\ s.next = stream.next
    BY <1>1, <2>3, <2>5 DEF StreamT
  <2>7. Items[1] = first
    BY <1>2, <1>3, <2>2, ConcatHeld DEF Items
  <2>8. /\ first \in Carried(stream) /\ Carried(s) \subseteq Carried(stream)
        /\ Carried(stream) \subseteq Carried(s) \cup {first}
    BY <2>3, <2>6 DEF Carried
  <2> QED BY <1>1, <2>3, <2>4, <2>6, <2>7, <2>8
<1>4. CASE stream.backlog = <<>>
  <2>1. Items = stream.chan /\ stream.chan # <<>>
    BY <1>2, <1>4, ConcatHeld DEF Items
  <2>2. PICK q : q = Tail(stream.chan)
    OBVIOUS
  <2>3. PICK first : first = stream.chan[1]
    OBVIOUS
  <2>4. /\ q \in Seq(ItemT) /\ first \in ItemT /\ first \in Held(stream.chan)
        /\ Held(q) \subseteq Held(stream.chan) /\ Len(q) = Len(stream.chan) - 1
        /\ Held(stream.chan) \subseteq Held(q) \cup {first} /\ Len(stream.chan) \in Nat
    BY <1>2, <2>1, <2>2, <2>3, QueueFacts
  <2>5. PICK s : s = Popped
    OBVIOUS
  <2>6. s = [stream EXCEPT !.chan = q]
    BY <1>4, <2>2, <2>5 DEF Popped
  <2>7. /\ s \in StreamT /\ s.chan = q /\ s.backlog = stream.backlog
        /\ s.open = stream.open /\ s.intact = stream.intact /\ s.next = stream.next
    BY <1>1, <2>4, <2>6 DEF StreamT
  <2>8. /\ first \in Carried(stream) /\ Carried(s) \subseteq Carried(stream)
        /\ Carried(stream) \subseteq Carried(s) \cup {first}
    BY <2>4, <2>7 DEF Carried
  <2>9. Len(q) <= WatchCapacity
    BY <1>1, <2>4, CacheAssumption
  <2> QED BY <2>1, <2>3, <2>4, <2>5, <2>7, <2>8, <2>9
<1> QED BY <1>3, <1>4

LEMMA StreamMisdeliversKeeps ==
  ASSUME Inv, StreamMisdelivers
  PROVE  Inv'
<1>1. stream \in StreamT /\ Len(stream.chan) <= WatchCapacity /\ cursor \in Nat
      /\ log \in Seq(EntryT) /\ Len(log) \in Nat
  BY DEF Inv, Types
<1>2. /\ Fault /\ UNCHANGED <<backendVars, cache, ready, loopVars, reader, writer>>
  BY DEF StreamMisdelivers
<1>3. CASE Items # <<>> /\ stream' = [Popped EXCEPT !.intact = FALSE]
  <2>1. PICK s : s = Popped
    OBVIOUS
  <2>2. s \in StreamT /\ Len(s.chan) <= WatchCapacity /\ Carried(s) \subseteq Carried(stream)
    BY <1>3, <2>1, PoppedSafe
  <2>3. /\ stream' \in StreamT /\ stream'.chan = s.chan /\ stream'.backlog = s.backlog
        /\ stream'.intact = FALSE
    BY <1>3, <2>1, <2>2 DEF StreamT
  <2>4. WatchSafe(loop, stream', Len(log), cursor)
    BY <2>3 DEF WatchSafe
  <2>5. ~shrunk => ItemsSafe(stream', log)
    BY <2>2, <2>3 DEF Inv, ItemsSafe, Carried
  <2>6. Len(stream'.chan) <= WatchCapacity
    BY <2>2, <2>3
  <2> QED BY <1>2, <2>3, <2>4, <2>5, <2>6, FaultCounts, StreamMoves
<1>4. CASE /\ cursor \in 1..Committed
           /\ stream' = [stream EXCEPT
                !.backlog = <<Item(cursor, log[cursor])>> \o stream.backlog]
  <2>1. PICK item : item = Item(cursor, log[cursor])
    OBVIOUS
  <2>2. log[cursor] \in EntryT
    BY <1>1, <1>4 DEF Committed
  <2>3. item \in ItemT /\ item.seq = cursor /\ item.keys = log[cursor].keys
    BY <1>1, <2>1, <2>2 DEF Item, ItemT, EntryT
  <2>4. <<item>> \in Seq(ItemT) /\ Held(<<item>>) = {item}
    BY <2>3 DEF Held
  <2>5. PICK q : q = <<item>> \o stream.backlog
    OBVIOUS
  <2>6. q \in Seq(ItemT) /\ Held(q) = {item} \cup Held(stream.backlog)
    <3>1. stream.backlog \in Seq(ItemT)
      BY <1>1, CarriedItems
    <3>2. PICK one : one = <<item>>
      OBVIOUS
    <3>3. one \in Seq(ItemT) /\ Held(one) = {item} /\ q = one \o stream.backlog
      BY <2>4, <2>5, <3>2
    <3> QED BY <3>1, <3>3, ConcatHeld
  <2>7. /\ stream' \in StreamT /\ stream'.chan = stream.chan /\ stream'.backlog = q
        /\ stream'.open = stream.open /\ stream'.intact = stream.intact
        /\ stream'.next = stream.next
    BY <1>1, <1>4, <2>1, <2>5, <2>6 DEF StreamT
  <2>8. Carried(stream') = Carried(stream) \cup {item}
    BY <2>6, <2>7 DEF Carried
  <2>9. WatchSafe(loop, stream', Len(log), cursor)
    BY <2>7, <2>8 DEF Inv, WatchSafe
  <2>10. ~shrunk => ItemsSafe(stream', log)
    <3> SUFFICES ASSUME ~shrunk, NEW x \in Carried(stream'), x.seq # 0
                 PROVE  x.seq <= Len(log) /\ x.keys = log[x.seq].keys
      BY DEF ItemsSafe
    <3>1. CASE x = item
      BY <1>1, <1>4, <2>3, <3>1 DEF Committed
    <3>2. CASE x \in Carried(stream)
      BY <3>2 DEF Inv, ItemsSafe
    <3> QED BY <2>8, <3>1, <3>2
  <2>11. Len(stream'.chan) <= WatchCapacity
    BY <1>1, <2>7
  <2> QED BY <1>2, <2>7, <2>9, <2>10, <2>11, FaultCounts, StreamMoves
<1> QED BY <1>3, <1>4 DEF StreamMisdelivers

-----------------------------------------------------------------------------
(* The gets.                                                               *)

LEMMA ReaderFacts ==
  ASSUME Inv, NEW r \in Readers
  PROVE  /\ reader[r] \in ReaderT
         /\ ReaderSafe(reader[r], record, Jumping(loop), shrunk, cursor)
BY DEF Inv, Types, ReadersSafe

LEMMA IdleSafe ==
  ASSUME NEW recs, NEW jump, NEW lost, NEW cur
  PROVE  IdleReader \in ReaderT /\ ReaderSafe(IdleReader, recs, jump, lost, cur)
BY DEF IdleReader, ReaderT, ReaderSafe

LEMMA SameFaults ==
  ASSUME Inv, faults' = faults
  PROVE  faults' \in 0..MaxFaults /\ faults <= faults'
BY CacheAssumption DEF Inv, Types

LEMMA ReplyCounts ==
  ASSUME Inv, NEW reply \in HeadReplies, CountError(reply)
  PROVE  /\ faults' \in 0..MaxFaults /\ faults <= faults'
         /\ reply = Len(log) \/ reply = -1
         /\ reply \in Int
<1>1. faults \in 0..MaxFaults /\ MaxFaults \in Nat /\ Len(log) \in Nat
  BY CacheAssumption DEF Inv, Types
<1>2. reply = Len(log) \/ (reply = -1 /\ faults < MaxFaults)
  BY DEF HeadReplies, Committed
<1>3. faults' = IF reply = -1 THEN faults + 1 ELSE faults
  BY DEF CountError
<1> QED BY <1>1, <1>2, <1>3

(* The step of a get that leaves the cache alone. *)
LEMMA GetMoves ==
  ASSUME Inv, NEW r \in Readers, NEW st \in ReaderT,
         ReaderSafe(st, record, Jumping(loop), shrunk, cursor), Move(r, st),
         UNCHANGED <<backendVars, stream, cache, loopVars, writer>>,
         ready' = ready \/ ready' = FALSE,
         faults' \in 0..MaxFaults, faults <= faults'
  PROVE  Inv'
<1>1. /\ UNCHANGED <<backendVars, stream, loopVars, writer>>
      /\ cache' \in [Keys -> Cached \cup {None}]
      /\ CacheSafe(cache', log, Jumping(loop), shrunk, cursor)
  BY DEF Inv, Types
<1>2. ready \in BOOLEAN
  BY DEF Inv, Types
<1>3. ready' \in BOOLEAN /\ (ready' => ready)
  <2>1. CASE ready' = ready
    BY <1>2, <2>1, Zenon
  <2>2. CASE ready' = FALSE
    BY <2>2, Zenon
  <2> QED BY <2>1, <2>2
<1> QED BY <1>1, <1>3, ReaderMoves

LEMMA BeginGetKeeps ==
  ASSUME Inv, NEW r \in Readers, NEW k \in Keys, BeginGet(r, k)
  PROVE  Inv'
<1>0. PICK pc \in {"head", "fetch"} : pc = IF FlagsAllow THEN "head" ELSE "fetch"
  OBVIOUS
<1>1. PICK st : st = [IdleReader EXCEPT !.key = k, !.pc = pc]
  OBVIOUS
<1>2. /\ st \in ReaderT /\ st.pc \in {"head", "fetch"} /\ st.key = k
      /\ st.second = FALSE /\ st.quiet = FALSE
  <2>1. st = [pc |-> pc, key |-> k, second |-> FALSE, head |-> 0, rec |-> None,
              quiet |-> FALSE]
    BY <1>1 DEF IdleReader
  <2>2. pc \in {"idle", "head", "compare", "clear", "lookup", "evict",
                "fetch", "recheck", "insert"}
    OBVIOUS
  <2> QED BY <2>1, <2>2 DEF ReaderT
<1>3. ReaderSafe(st, record, Jumping(loop), shrunk, cursor)
  BY <1>2 DEF ReaderSafe
<1>4. Move(r, st) /\ UNCHANGED <<backendVars, stream, cache, ready, loopVars, writer, faults>>
  BY <1>0, <1>1 DEF BeginGet
<1> QED BY <1>2, <1>3, <1>4, SameFaults, GetMoves

LEMMA SampleHeadKeeps ==
  ASSUME Inv, NEW r \in Readers, SampleHead(r)
  PROVE  Inv'
<1>1. PICK reply \in HeadReplies :
        CountError(reply) /\ Move(r, [reader[r] EXCEPT !.head = reply, !.pc = "compare"])
  BY DEF SampleHead
<1>2. faults' \in 0..MaxFaults /\ faults <= faults' /\ reply \in Int
  BY <1>1, ReplyCounts
<1>3. PICK st : st = [reader[r] EXCEPT !.head = reply, !.pc = "compare"]
  OBVIOUS
<1>4. /\ reader[r] \in ReaderT /\ reader[r].pc = "head"
      /\ ReaderSafe(reader[r], record, Jumping(loop), shrunk, cursor)
  BY ReaderFacts DEF SampleHead, At
<1>5. /\ st \in ReaderT /\ st.pc = "compare" /\ st.key = reader[r].key
      /\ st.second = reader[r].second /\ st.quiet = reader[r].quiet
      /\ st.rec = reader[r].rec
  BY <1>2, <1>3, <1>4 DEF ReaderT
<1>6. ReaderSafe(st, record, Jumping(loop), shrunk, cursor)
  BY <1>4, <1>5 DEF ReaderSafe
<1> QED BY <1>1, <1>2, <1>3, <1>5, <1>6, GetMoves DEF SampleHead

LEMMA CompareHeadKeeps ==
  ASSUME Inv, NEW r \in Readers, CompareHead(r)
  PROVE  Inv'
<1>1. /\ reader[r] \in ReaderT /\ reader[r].pc = "compare"
      /\ ReaderSafe(reader[r], record, Jumping(loop), shrunk, cursor)
      /\ UNCHANGED <<backendVars, stream, cache, loopVars, writer, faults>>
  BY ReaderFacts DEF CompareHead, At
<1>2. CASE /\ Coherent(r) /\ ready' = ready
           /\ Move(r, [reader[r] EXCEPT !.pc = IF reader[r].second
                                               THEN "insert" ELSE "lookup"])
  <2>1. PICK st : st = [reader[r] EXCEPT !.pc = IF reader[r].second
                                                THEN "insert" ELSE "lookup"]
    OBVIOUS
  <2>2. /\ st \in ReaderT /\ st.pc = (IF reader[r].second THEN "insert" ELSE "lookup")
        /\ st.key = reader[r].key /\ st.head = reader[r].head
        /\ st.second = reader[r].second /\ st.quiet = reader[r].quiet
        /\ st.rec = reader[r].rec
    BY <1>1, <2>1 DEF ReaderT
  <2>3. st.head <= cursor
    BY <1>1, <1>2, <2>2 DEF Coherent, ReaderT, Inv, Types
  <2>4. ReaderSafe(st, record, Jumping(loop), shrunk, cursor)
    BY <1>1, <2>2, <2>3 DEF ReaderSafe
  <2> QED BY <1>1, <1>2, <2>1, <2>2, <2>4, SameFaults, GetMoves
<1>3. CASE ready' = FALSE /\ Move(r, [reader[r] EXCEPT !.pc = "clear"])
  <2>1. PICK st : st = [reader[r] EXCEPT !.pc = "clear"]
    OBVIOUS
  <2>2. /\ st \in ReaderT /\ st.pc = "clear" /\ st.key = reader[r].key
        /\ st.second = reader[r].second /\ st.quiet = reader[r].quiet
        /\ st.rec = reader[r].rec
    BY <1>1, <2>1 DEF ReaderT
  <2>3. ReaderSafe(st, record, Jumping(loop), shrunk, cursor)
    BY <1>1, <2>2 DEF ReaderSafe
  <2> QED BY <1>1, <1>3, <2>1, <2>2, <2>3, SameFaults, GetMoves
<1> QED BY <1>2, <1>3 DEF CompareHead

(* The two evictions of a get. *)
LEMMA EvictingGets ==
  ASSUME Inv, NEW r \in Readers, ClearOnLag(r) \/ EvictExpired(r)
  PROVE  Inv'
<1>1. /\ reader[r] \in ReaderT /\ reader[r].pc \in {"clear", "evict"}
      /\ ReaderSafe(reader[r], record, Jumping(loop), shrunk, cursor)
      /\ UNCHANGED <<backendVars, stream, ready, loopVars, writer, faults>>
  BY ReaderFacts DEF ClearOnLag, EvictExpired, At
<1>2. PICK st : st = [reader[r] EXCEPT !.pc = "fetch"]
  OBVIOUS
<1>3. /\ st \in ReaderT /\ st.pc = "fetch" /\ st.key = reader[r].key
      /\ st.second = reader[r].second /\ st.quiet = reader[r].quiet
      /\ st.rec = reader[r].rec
  BY <1>1, <1>2 DEF ReaderT
<1>4. ~reader[r].second => ReaderSafe(st, record, Jumping(loop), shrunk, cursor)
  BY <1>1, <1>3 DEF ReaderSafe
<1>5. reader[r].pc = "evict" => ~reader[r].quiet
  BY <1>1 DEF ReaderSafe
<1>6. reader[r].pc = "evict" => ReaderSafe(st, record, Jumping(loop), shrunk, cursor)
  BY <1>1, <1>3, <1>5 DEF ReaderSafe
<1>7. PICK next \in {IdleReader, st} :
        /\ Move(r, next)
        /\ next = st => ReaderSafe(st, record, Jumping(loop), shrunk, cursor)
  <2>1. CASE ClearOnLag(r)
    BY <1>2, <1>4, <2>1, IdleSafe DEF ClearOnLag
  <2>2. CASE EvictExpired(r)
    BY <1>2, <1>6, <2>2 DEF EvictExpired, At
  <2> QED BY <2>1, <2>2
<1>8. next \in ReaderT /\ ReaderSafe(next, record, Jumping(loop), shrunk, cursor)
  BY <1>3, <1>7, IdleSafe
<1>9. /\ cache' \in [Keys -> Cached \cup {None}]
      /\ CacheSafe(cache', log, Jumping(loop), shrunk, cursor)
  <2>1. /\ cache \in [Keys -> Cached \cup {None}]
        /\ CacheSafe(cache, log, Jumping(loop), shrunk, cursor)
    BY DEF Inv, Types
  <2>2. cache' = Cleared \/ \E keys : cache' = Evicted(cache, keys)
    BY DEF ClearOnLag, EvictExpired
  <2> QED BY <2>1, <2>2, EvictSafe, ClearedSafe
<1>10. ready' \in BOOLEAN /\ (ready' => ready)
  BY <1>1 DEF Inv, Types
<1> QED BY <1>1, <1>7, <1>8, <1>9, <1>10, SameFaults, ReaderMoves

LEMMA LookupKeeps ==
  ASSUME Inv, NEW r \in Readers, Lookup(r)
  PROVE  Inv'
<1>1. /\ reader[r] \in ReaderT /\ reader[r].pc = "lookup"
      /\ ReaderSafe(reader[r], record, Jumping(loop), shrunk, cursor)
      /\ UNCHANGED <<backendVars, stream, cache, ready, loopVars, writer, faults>>
  BY ReaderFacts DEF Lookup, At
<1>2. ~reader[r].quiet /\ reader[r].key \in Keys
  BY <1>1 DEF ReaderSafe
<1>3. ASSUME NEW pc \in {"evict", "fetch"}, Move(r, [reader[r] EXCEPT !.pc = pc])
      PROVE  Inv'
  <2>1. PICK st : st = [reader[r] EXCEPT !.pc = pc]
    OBVIOUS
  <2>2. /\ st \in ReaderT /\ st.pc = pc /\ st.key = reader[r].key
        /\ st.second = reader[r].second /\ st.quiet = reader[r].quiet
        /\ st.rec = reader[r].rec
    BY <1>1, <2>1 DEF ReaderT
  <2>3. ReaderSafe(st, record, Jumping(loop), shrunk, cursor)
    BY <1>1, <1>2, <2>2 DEF ReaderSafe
  <2> QED BY <1>1, <1>3, <2>1, <2>2, <2>3, SameFaults, GetMoves
<1>4. CASE Move(r, IdleReader)
  BY <1>1, <1>4, IdleSafe, SameFaults, GetMoves
<1> QED BY <1>3, <1>4 DEF Lookup

(* backend.get brings the backend's own record. *)
LEMMA FetchKeeps ==
  ASSUME Inv, NEW r \in Readers, Fetch(r)
  PROVE  Inv'
<1>1. PICK rec : rec = record[reader[r].key]
  OBVIOUS
<1>2. /\ reader[r] \in ReaderT /\ reader[r].pc = "fetch"
      /\ ReaderSafe(reader[r], record, Jumping(loop), shrunk, cursor)
      /\ UNCHANGED <<backendVars, stream, cache, ready, loopVars, writer, faults>>
  BY ReaderFacts DEF Fetch, At
<1>3. reader[r].key \in Keys
  BY <1>2 DEF ReaderSafe
<1>4. CASE Move(r, IdleReader)
  BY <1>2, <1>4, IdleSafe, SameFaults, GetMoves
<1>5. CASE /\ rec # None
           /\ Move(r, [reader[r] EXCEPT !.pc = "recheck", !.rec = rec,
                                        !.quiet = TRUE, !.second = TRUE])
  <2>1. rec \in Version
    BY <1>1, <1>3, <1>5, ReplayedRecords DEF Inv, Types
  <2>2. PICK st : st = [reader[r] EXCEPT !.pc = "recheck", !.rec = rec,
                                         !.quiet = TRUE, !.second = TRUE]
    OBVIOUS
  <2>3. /\ st \in ReaderT /\ st.pc = "recheck" /\ st.key = reader[r].key
        /\ st.second = TRUE /\ st.rec = rec
    BY <1>2, <2>1, <2>2 DEF ReaderT
  <2>4. ReaderSafe(st, record, Jumping(loop), shrunk, cursor)
    BY <1>1, <1>3, <1>5, <2>3 DEF ReaderSafe
  <2> QED BY <1>2, <1>5, <2>2, <2>3, <2>4, SameFaults, GetMoves
<1> QED BY <1>1, <1>4, <1>5 DEF Fetch

(* A recheck passes only while the loop listens to a stream. *)
LEMMA RecheckKeeps ==
  ASSUME Inv, NEW r \in Readers, Recheck(r)
  PROVE  Inv'
<1>1. /\ reader[r] \in ReaderT /\ reader[r].pc = "recheck"
      /\ ReaderSafe(reader[r], record, Jumping(loop), shrunk, cursor)
      /\ UNCHANGED <<backendVars, stream, cache, ready, loopVars, writer, faults>>
  BY ReaderFacts DEF Recheck, At
<1>2. CASE Move(r, IdleReader)
  BY <1>1, <1>2, IdleSafe, SameFaults, GetMoves
<1>3. CASE FlagsAllow /\ Move(r, [reader[r] EXCEPT !.pc = "head"])
  <2>1. ~Jumping(loop)
    BY <1>3 DEF FlagsAllow, Inv, Jumping
  <2>2. PICK st : st = [reader[r] EXCEPT !.pc = "head"]
    OBVIOUS
  <2>3. /\ st \in ReaderT /\ st.pc = "head" /\ st.key = reader[r].key
        /\ st.second = reader[r].second /\ st.quiet = reader[r].quiet
        /\ st.rec = reader[r].rec
    BY <1>1, <2>2 DEF ReaderT
  <2>4. ReaderSafe(st, record, Jumping(loop), shrunk, cursor)
    BY <1>1, <2>1, <2>3 DEF ReaderSafe
  <2> QED BY <1>1, <1>3, <2>2, <2>3, <2>4, SameFaults, GetMoves
<1> QED BY <1>2, <1>3 DEF Recheck

(* An undisturbed fill is as new as the backend, so as new as the cursor. *)
LEMMA InsertKeeps ==
  ASSUME Inv, NEW r \in Readers, Insert(r)
  PROVE  Inv'
<1>1. PICK st : st = reader[r]
  OBVIOUS
<1>2. /\ st \in ReaderT /\ st.pc = "insert"
      /\ ReaderSafe(st, record, Jumping(loop), shrunk, cursor)
      /\ UNCHANGED <<backendVars, stream, ready, loopVars, writer, faults>>
  BY <1>1, ReaderFacts DEF Insert, At
<1>3. PICK k : k = st.key
  OBVIOUS
<1>4. k \in Keys /\ st.rec \in Version /\ st.quiet \in BOOLEAN
  BY <1>1, <1>2, <1>3 DEF ReaderSafe, ReaderT
<1>5. PICK new : new = [gen |-> st.rec.gen, ver |-> st.rec.ver, quiet |-> st.quiet]
  OBVIOUS
<1>6. new \in Cached /\ new.quiet = st.quiet /\ new.ver = st.rec.ver
  BY <1>4, <1>5 DEF Cached, Version
<1>7. /\ cache \in [Keys -> Cached \cup {None}] /\ cursor \in Nat
      /\ log \in Seq(EntryT) /\ record = Replayed(log) /\ Len(log) \in Nat
      /\ CacheSafe(cache, log, Jumping(loop), shrunk, cursor)
  BY DEF Inv, Types
<1>8. cache' = [cache EXCEPT ![k] = new] \/ cache' = cache
  BY <1>1, <1>3, <1>5 DEF Insert, Inserted
<1>9. st.quiet => /\ ~Jumping(loop)
                  /\ ~shrunk => LastChange(log, k, cursor) <= new.ver
  <2> SUFFICES ASSUME st.quiet
               PROVE  ~Jumping(loop) /\ (~shrunk => LastChange(log, k, cursor) <= new.ver)
    OBVIOUS
  <2>1. ~Jumping(loop) /\ st.rec = record[k]
    BY <1>2, <1>3 DEF ReaderSafe
  <2>2. record[k] # None
    BY <1>4, <2>1, CacheAssumption
  <2>3. new.ver = LastChange(log, k, Len(log))
    BY <1>4, <1>6, <1>7, <2>1, <2>2, ReplayedRecords
  <2>4. ~shrunk => cursor <= Len(log)
    BY DEF Inv
  <2>5. ~shrunk => LastChange(log, k, cursor) <= LastChange(log, k, Len(log))
    BY <1>7, <2>4, LastChangeMonotone
  <2> QED BY <2>1, <2>3, <2>5
<1>10. cache' \in [Keys -> Cached \cup {None}]
  BY <1>6, <1>7, <1>8
<1>11. CacheSafe(cache', log, Jumping(loop), shrunk, cursor)
  <2> SUFFICES ASSUME NEW j \in Keys, cache'[j] # None, cache'[j].quiet
               PROVE  /\ ~Jumping(loop)
                      /\ ~shrunk => LastChange(log, j, cursor) <= cache'[j].ver
    BY DEF CacheSafe
  <2>1. CASE cache'[j] = cache[j]
    BY <1>7, <2>1 DEF CacheSafe
  <2>2. CASE j = k /\ cache'[j] = new
    BY <1>6, <1>9, <2>2
  <2>3. cache'[j] = cache[j] \/ (j = k /\ cache'[j] = new)
    BY <1>7, <1>8
  <2> QED BY <2>1, <2>2, <2>3
<1>12. Move(r, IdleReader) /\ ready' \in BOOLEAN /\ (ready' => ready)
  BY <1>2 DEF Insert, Inv, Types
<1> QED BY <1>2, <1>10, <1>11, <1>12, IdleSafe, SameFaults, ReaderMoves

-----------------------------------------------------------------------------
(* Evictions, wrapper writes and rebuilds.                                 *)

LEMMA CacheFacts ==
  ASSUME Inv
  PROVE  /\ cache \in [Keys -> Cached \cup {None}]
         /\ CacheSafe(cache, log, Jumping(loop), shrunk, cursor)
         /\ \A keys :
              /\ Evicted(cache, keys) \in [Keys -> Cached \cup {None}]
              /\ CacheSafe(Evicted(cache, keys), log, Jumping(loop), shrunk, cursor)
         /\ Cleared \in [Keys -> Cached \cup {None}]
         /\ CacheSafe(Cleared, log, Jumping(loop), shrunk, cursor)
<1>1. /\ cache \in [Keys -> Cached \cup {None}]
      /\ CacheSafe(cache, log, Jumping(loop), shrunk, cursor)
  BY DEF Inv, Types
<1> QED BY <1>1, EvictSafe, ClearedSafe

LEMMA WriterFacts ==
  ASSUME Inv
  PROVE  /\ writer \in [Writers -> WriterT] /\ WritersNamed(writer)
         /\ \A w \in Writers : \A st \in WriterT :
              (st.pc \in {"pre", "call", "post"} => st.kind \in Kinds) =>
                /\ [writer EXCEPT ![w] = st] \in [Writers -> WriterT]
                /\ WritersNamed([writer EXCEPT ![w] = st])
         /\ IdleWriter \in WriterT /\ IdleWriter.pc = "idle"
<1>1. writer \in [Writers -> WriterT] /\ WritersNamed(writer)
  BY DEF Inv, Types
<1>2. IdleWriter \in WriterT /\ IdleWriter.pc = "idle"
  BY DEF IdleWriter, WriterT
<1> QED BY <1>1, <1>2 DEF WritersNamed

(* The public invalidate and clear. *)
LEMMA PublicEvictionsKeep ==
  ASSUME Inv, Clear \/ \E k \in Keys : Invalidate(k)
  PROVE  Inv'
<1>1. UNCHANGED <<backendVars, stream, ready, loopVars, reader, writer, faults>>
  BY DEF Clear, Invalidate
<1>2. cache' = Cleared \/ \E keys : cache' = Evicted(cache, keys)
  BY DEF Clear, Invalidate
<1> QED BY <1>1, <1>2, CacheFacts, WriterFacts, SameFaults, CacheMoves

(* A step of one writer that keeps the backend as it is. *)
LEMMA WriterMoves ==
  ASSUME Inv, NEW w \in Writers, NEW st \in WriterT,
         st.pc \in {"pre", "call", "post"} => st.kind \in Kinds,
         writer' = [writer EXCEPT ![w] = st],
         cache' = cache \/ cache' = Cleared \/ \E keys : cache' = Evicted(cache, keys),
         UNCHANGED <<backendVars, stream, ready, loopVars, reader>>,
         faults' \in 0..MaxFaults, faults <= faults'
  PROVE  Inv'
<1>1. writer' \in [Writers -> WriterT] /\ WritersNamed(writer')
  BY WriterFacts
<1>2. /\ cache' \in [Keys -> Cached \cup {None}]
      /\ CacheSafe(cache', log, Jumping(loop), shrunk, cursor)
  BY CacheFacts
<1> QED BY <1>1, <1>2, CacheMoves

LEMMA BeginWriteKeeps ==
  ASSUME Inv, NEW w \in Writers, NEW call \in Calls,
         BeginWrite(w, call[1], call[2][1], call[2][2])
  PROVE  Inv'
<1>1. PICK c \in Mutations \cup Batches \cup LeaseCommands :
        call[2] = c /\ call[1] \in {"pre", "call"}
  BY DEF Calls
<1>2. c[1] \in Kinds /\ c[2] \in SUBSET Keys
  BY CommandsTyped
<1>3. PICK st : st = [pc |-> call[1], kind |-> c[1], keys |-> c[2], left |-> c[2]]
  OBVIOUS
<1>4. st \in WriterT /\ st.kind \in Kinds
  BY <1>1, <1>2, <1>3 DEF WriterT
<1>5. /\ writer' = [writer EXCEPT ![w] = st] /\ cache' = cache
      /\ UNCHANGED <<backendVars, stream, ready, loopVars, reader, faults>>
  BY <1>1, <1>3 DEF BeginWrite
<1> QED BY <1>4, <1>5, SameFaults, WriterMoves

LEMMA EvictKeeps ==
  ASSUME Inv, NEW w \in Writers, Evict(w)
  PROVE  Inv'
<1>1. PICK st : st = writer[w]
  OBVIOUS
<1>2. st \in WriterT /\ st.pc \in {"pre", "post"} /\ st.kind \in Kinds
  BY <1>1, WriterFacts DEF Evict, WritersNamed
<1>3. PICK k \in writer[w].left :
        /\ cache' = Evicted(cache, {k})
        /\ writer' = [writer EXCEPT ![w] =
             IF writer[w].left # {k}
             THEN [writer[w] EXCEPT !.left = writer[w].left \ {k}]
             ELSE IF writer[w].pc = "pre"
             THEN [writer[w] EXCEPT !.pc = "call", !.left = writer[w].keys]
             ELSE IdleWriter]
  BY DEF Evict
<1>4. PICK next : next = IF st.left # {k} THEN [st EXCEPT !.left = st.left \ {k}]
             ELSE IF st.pc = "pre" THEN [st EXCEPT !.pc = "call", !.left = st.keys]
             ELSE IdleWriter
  OBVIOUS
<1>5. next \in WriterT /\ (next.pc \in {"pre", "call", "post"} => next.kind \in Kinds)
  <2>1. PICK a : a = [st EXCEPT !.left = st.left \ {k}]
    OBVIOUS
  <2>2. PICK b : b = [st EXCEPT !.pc = "call", !.left = st.keys]
    OBVIOUS
  <2>3. a \in WriterT /\ a.kind = st.kind /\ b \in WriterT /\ b.kind = st.kind
    BY <1>2, <2>1, <2>2 DEF WriterT
  <2> QED BY <1>2, <1>4, <2>1, <2>2, <2>3, WriterFacts
<1>6. writer' = [writer EXCEPT ![w] = next]
  BY <1>1, <1>3, <1>4
<1>7. UNCHANGED <<backendVars, stream, ready, loopVars, reader, faults>>
  BY DEF Evict
<1> QED BY <1>3, <1>5, <1>6, <1>7, SameFaults, WriterMoves

LEMMA WriteCommitsKeeps ==
  ASSUME Inv, NEW w \in Writers, WriteCommits(w)
  PROVE  Inv'
<1>1. PICK st : st = writer[w]
  OBVIOUS
<1>2. st \in WriterT /\ st.pc = "call" /\ st.kind \in Kinds /\ st.keys \in SUBSET Keys
  BY <1>1, WriterFacts DEF WriteCommits, WritersNamed, WriterT
<1>3. PICK done : done = [st EXCEPT !.pc = "post"]
  OBVIOUS
<1>4. done \in WriterT /\ done.kind = st.kind
  BY <1>2, <1>3 DEF WriterT
<1>5. [writer EXCEPT ![w].pc = "post"] = [writer EXCEPT ![w] = done]
  BY <1>1, <1>3
<1>6. writer' \in [Writers -> WriterT] /\ WritersNamed(writer')
  BY <1>2, <1>4, <1>5, WriterFacts DEF WriteCommits
<1>7. faults' \in 0..MaxFaults /\ faults <= faults'
  BY SameFaults, FaultCounts DEF WriteCommits
<1>8. Commits(st.kind, st.keys) /\ UNCHANGED <<cache, ready, loopVars>>
  BY <1>1 DEF WriteCommits
<1> QED BY <1>2, <1>6, <1>7, <1>8, CommitSafe

(* Refused calls, and the two clears around a rebuild. *)
LEMMA WriterEndsKeep ==
  ASSUME Inv, NEW w \in Writers,
         WriteRefused(w) \/ BeginRebuild(w) \/ RebuildRefused(w) \/ ClearRebuilt(w)
  PROVE  Inv'
<1>1. PICK st : st = writer[w]
  OBVIOUS
<1>2. st \in WriterT
  BY <1>1, WriterFacts
<1>3. PICK a : a = [st EXCEPT !.pc = "rebuild"]
  OBVIOUS
<1>4. PICK b : b = [st EXCEPT !.pc = "clear"]
  OBVIOUS
<1>5. a \in WriterT /\ a.pc = "rebuild" /\ b \in WriterT /\ b.pc = "clear"
  BY <1>2, <1>3, <1>4 DEF WriterT
<1>6. /\ [writer EXCEPT ![w].pc = "rebuild"] = [writer EXCEPT ![w] = a]
      /\ [writer EXCEPT ![w].pc = "clear"] = [writer EXCEPT ![w] = b]
  BY <1>1, <1>3, <1>4
<1>7. PICK next \in {IdleWriter, a, b} : writer' = [writer EXCEPT ![w] = next]
  BY <1>6 DEF WriteRefused, BeginRebuild, RebuildRefused, ClearRebuilt
<1>8. next \in WriterT /\ next.pc \notin {"pre", "call", "post"}
  BY <1>5, <1>7, WriterFacts
<1>9. /\ UNCHANGED <<backendVars, stream, ready, loopVars, reader>>
      /\ cache' = cache \/ cache' = Cleared
  BY DEF WriteRefused, BeginRebuild, RebuildRefused, ClearRebuilt
<1>10. faults' \in 0..MaxFaults /\ faults <= faults'
  BY SameFaults, FaultCounts DEF WriteRefused, BeginRebuild, RebuildRefused, ClearRebuilt
<1> QED BY <1>7, <1>8, <1>9, <1>10, WriterMoves

(* The journals a rebuild installs. *)
LEMMA JournalsTyped ==
  ASSUME Inv, NEW journal \in Journals
  PROVE  journal \in Seq(EntryT)
<1>1. log \in Seq(EntryT) /\ Len(log) \in Nat
  BY DEF Inv, Types
<1>2. \A n \in 0..Committed : SubSeq(log, 1, n) \in Seq(EntryT)
  BY <1>1 DEF Committed
<1>3. ASSUME NEW k \in Keys, NEW e \in Entries("put", {k}) PROVE e \in EntryT
  <2>1. PICK gen \in Generations : e = [kind |-> "put", keys |-> {k}, gen |-> gen]
    BY <1>3 DEF Entries
  <2> QED BY <2>1, CacheAssumption DEF EntryT, Kinds
<1> DEFINE prefixes == {SubSeq(log, 1, n) : n \in 0..Committed}
           puts == UNION {Entries("put", {k}) : k \in Keys}
<1>4. prefixes \subseteq Seq(EntryT) /\ puts \subseteq EntryT
  BY <1>2, <1>3
<1>5. Journals = prefixes \cup {Append(p, e) : p \in prefixes, e \in puts}
  BY DEF Journals
<1> HIDE DEF prefixes, puts
<1>6. CASE journal \in prefixes
  BY <1>4, <1>6
<1>7. ASSUME NEW p \in prefixes, NEW e \in puts, journal = Append(p, e)
      PROVE  journal \in Seq(EntryT)
  BY <1>4, <1>7
<1> QED BY <1>5, <1>6, <1>7

(* A rebuild: the watcher hears nothing of it. *)
LEMMA RebuildKeeps ==
  ASSUME Inv, NEW w \in Writers, Rebuild(w)
  PROVE  Inv'
<1>1. PICK lg \in Journals :
        /\ log' = lg /\ record' = Replayed(lg)
        /\ stream' = [stream EXCEPT !.intact = stream.intact /\ Len(lg) <= Committed]
        /\ shrunk' = (shrunk \/ Len(lg) < Committed \/ SubSeq(lg, 1, Committed) # log)
  BY DEF Rebuild
<1>2. lg \in Seq(EntryT) /\ Len(lg) \in Nat
  BY JournalsTyped
<1>3. /\ log \in Seq(EntryT) /\ Len(log) \in Nat /\ shrunk \in BOOLEAN
      /\ stream \in StreamT /\ Len(stream.chan) <= WatchCapacity /\ cursor \in Nat
  BY DEF Inv, Types
<1>4. shrunk' \in BOOLEAN /\ (shrunk => shrunk')
  BY <1>1, <1>3
<1>5. PICK intact \in BOOLEAN : intact = (stream.intact /\ Len(lg) <= Committed)
  OBVIOUS
<1>6. /\ stream' \in StreamT /\ stream'.chan = stream.chan
      /\ stream'.backlog = stream.backlog /\ stream'.open = stream.open
      /\ stream'.next = stream.next /\ stream'.intact = intact
  BY <1>1, <1>3, <1>5 DEF StreamT
<1>7. Carried(stream') = Carried(stream)
  BY <1>6 DEF Carried
<1>8. WatchSafe(loop, stream', Len(lg), cursor)
  <2> SUFFICES ASSUME loop.pc = "stream", stream.open, intact
               PROVE  /\ Len(lg) < stream.next
                      /\ \A seq \in cursor + 1..stream.next - 1 :
                           \E item \in Carried(stream) : item.seq = seq
    BY <1>6, <1>7 DEF WatchSafe
  <2>1. stream.intact /\ Len(lg) <= Len(log)
    BY <1>5 DEF Committed
  <2>2. /\ Len(log) < stream.next
        /\ \A seq \in cursor + 1..stream.next - 1 :
             \E item \in Carried(stream) : item.seq = seq
    BY <2>1 DEF Inv, WatchSafe
  <2>3. stream.next \in Nat
    BY <1>3 DEF StreamT
  <2> QED BY <1>2, <1>3, <2>1, <2>2, <2>3
<1>9. ~shrunk' => ~shrunk /\ Len(log) <= Len(lg) /\ SubSeq(lg, 1, Len(log)) = log
  <2>1. ~shrunk' => ~shrunk /\ ~(Len(lg) < Committed) /\ SubSeq(lg, 1, Committed) = log
    BY <1>1, Zenon
  <2> QED BY <1>2, <1>3, <2>1 DEF Committed
<1>10. ~shrunk' => \A i \in 1..Len(log) : lg[i] = log[i]
  <2> SUFFICES ASSUME ~shrunk', NEW i \in 1..Len(log) PROVE lg[i] = log[i]
    OBVIOUS
  <2>1. SubSeq(lg, 1, Len(log))[i] = lg[i]
    BY <1>2, <1>3, <1>9
  <2> QED BY <1>9, <2>1
<1>11. ~shrunk' => ItemsSafe(stream', lg)
  <2> SUFFICES ASSUME ~shrunk', NEW x \in Carried(stream), x.seq # 0
               PROVE  x.seq <= Len(lg) /\ x.keys = lg[x.seq].keys
    BY <1>7 DEF ItemsSafe
  <2>1. x.seq <= Len(log) /\ x.keys = log[x.seq].keys
    BY <1>9 DEF Inv, ItemsSafe
  <2>2. x.seq \in Nat
    BY <1>3, CarriedItems DEF ItemT
  <2>3. x.seq \in 1..Len(log)
    BY <1>3, <2>1, <2>2
  <2> QED BY <1>2, <1>3, <1>9, <1>10, <2>1, <2>3
<1>12. writer' \in [Writers -> WriterT] /\ WritersNamed(writer')
  <2>1. PICK st : st = [writer[w] EXCEPT !.pc = "clear"]
    OBVIOUS
  <2>2. st \in WriterT /\ st.pc = "clear" /\ writer' = [writer EXCEPT ![w] = st]
    BY <2>1, WriterFacts DEF Rebuild, WriterT
  <2> QED BY <2>2, WriterFacts
<1>13. reader' = Unquiet /\ UNCHANGED <<cache, ready, loopVars, faults>>
  BY DEF Rebuild
<1>14. Len(stream'.chan) <= WatchCapacity
  BY <1>3, <1>6
<1> QED BY <1>1, <1>2, <1>4, <1>6, <1>8, <1>9, <1>10, <1>11, <1>12, <1>13, <1>14,
           SameFaults, JournalMoves

-----------------------------------------------------------------------------
(* The watch loop.                                                         *)

LoopT == [pc : {"top", "drain", "open", "stream", "clear", "rehead"}, init : BOOLEAN]

LEMMA LoopFacts ==
  ASSUME Inv
  PROVE  /\ loop \in LoopT /\ loop.init \in BOOLEAN
         /\ \A pc \in {"top", "drain", "open", "stream", "clear", "rehead"} :
              \A next : next = [loop EXCEPT !.pc = pc] =>
                next \in LoopT /\ next.pc = pc /\ next.init = loop.init
         /\ ready \in BOOLEAN /\ syncing \in BOOLEAN
<1>1. loop \in LoopT /\ ready \in BOOLEAN /\ syncing \in BOOLEAN
  BY DEF Inv, Types, LoopT
<1> QED BY <1>1 DEF LoopT

(* A closed stream without items promises nothing. *)
LEMMA NoStreamSafe ==
  ASSUME NEW lp, NEW lg, NEW n, NEW cur
  PROVE  /\ NoStream \in StreamT /\ Len(NoStream.chan) <= WatchCapacity
         /\ WatchSafe(lp, NoStream, n, cur) /\ ItemsSafe(NoStream, lg)
<1>1. PICK s : s = NoStream
  OBVIOUS
<1>2. s = [open |-> FALSE, intact |-> TRUE, next |-> 0, backlog |-> <<>>, chan |-> <<>>]
  BY <1>1 DEF NoStream
<1>3. <<>> \in Seq(ItemT) /\ Len(<<>>) = 0 /\ Held(<<>>) = {}
  BY DEF Held
<1>4. s \in StreamT /\ s.open = FALSE /\ s.chan = <<>> /\ s.backlog = <<>>
  BY <1>2, <1>3 DEF StreamT
<1>5. Carried(s) = {}
  BY <1>3, <1>4 DEF Carried
<1>6. Len(s.chan) <= WatchCapacity
  BY <1>3, <1>4, CacheAssumption
<1> QED BY <1>1, <1>4, <1>5, <1>6 DEF WatchSafe, ItemsSafe

(* A step of the loop that leaves the backend and the writers alone. *)
LEMMA LoopMoves ==
  ASSUME Inv, UNCHANGED <<backendVars, writer>>,
         NEW lp \in LoopT, loop' = lp, Started(lp),
         stream' \in StreamT, Len(stream'.chan) <= WatchCapacity,
         cursor' \in Nat, ~shrunk => cursor' <= Len(log) /\ ItemsSafe(stream', log),
         WatchSafe(lp, stream', Len(log), cursor'),
         ready' \in BOOLEAN, ready' => lp.pc = "stream", syncing' \in BOOLEAN,
         cache' \in [Keys -> Cached \cup {None}],
         CacheSafe(cache', log, Jumping(lp), shrunk, cursor'),
         reader' \in [Readers -> ReaderT],
         ReadersSafe(reader', record, Jumping(lp), shrunk, cursor'),
         faults' \in 0..MaxFaults, resyncs' \in 0..faults'
  PROVE  Inv'
<1>1. log' = log /\ record' = record /\ shrunk' = shrunk /\ writer' = writer
  BY DEF backendVars
<1>2. Types'
  BY <1>1 DEF Inv, Types, LoopT
<1> QED BY <1>1, <1>2 DEF Inv

(* What a step keeps by leaving it alone. *)
LEMMA LoopKeepsGets ==
  ASSUME Inv, NEW jump, NEW cur \in Nat, cursor <= cur \/ shrunk,
         jump => Jumping(loop)
  PROVE  /\ reader \in [Readers -> ReaderT]
         /\ ReadersSafe(reader, record, jump, shrunk, cur)
<1>1. /\ reader \in [Readers -> ReaderT] /\ cursor \in Nat
      /\ ReadersSafe(reader, record, Jumping(loop), shrunk, cursor)
  BY DEF Inv, Types
<1> SUFFICES ASSUME NEW r \in Readers
             PROVE  ReaderSafe(reader[r], record, jump, shrunk, cur)
  BY <1>1 DEF ReadersSafe
<1>2. PICK st : st = reader[r]
  OBVIOUS
<1>3. /\ st \in ReaderT /\ st.head \in Int
      /\ ReaderSafe(st, record, Jumping(loop), shrunk, cursor)
  BY <1>1, <1>2 DEF ReadersSafe, ReaderT
<1>4. ~shrunk /\ st.pc = "lookup" => st.head <= cur
  <2>1. ~shrunk /\ st.pc = "lookup" => st.head <= cursor
    BY <1>3 DEF ReaderSafe
  <2> QED BY <1>1, <1>3, <2>1
<1>5. ReaderSafe(st, record, jump, shrunk, cur)
  BY <1>3, <1>4 DEF ReaderSafe
<1> QED BY <1>2, <1>5

LEMMA LoopKeepsCache ==
  ASSUME Inv, NEW jump, jump => Jumping(loop)
  PROVE  /\ cache \in [Keys -> Cached \cup {None}]
         /\ CacheSafe(cache, log, jump, shrunk, cursor)
<1>1. /\ cache \in [Keys -> Cached \cup {None}]
      /\ CacheSafe(cache, log, Jumping(loop), shrunk, cursor)
  BY DEF Inv, Types
<1> QED BY <1>1 DEF CacheSafe

LEMMA LoopKeepsStream ==
  ASSUME Inv, NEW lp, lp.pc = "stream" => loop.pc = "stream"
  PROVE  /\ stream \in StreamT /\ Len(stream.chan) <= WatchCapacity
         /\ WatchSafe(lp, stream, Len(log), cursor)
         /\ cursor \in Nat
         /\ ~shrunk => cursor <= Len(log) /\ ItemsSafe(stream, log)
BY DEF Inv, Types, WatchSafe

LEMMA CountersKept ==
  ASSUME Inv
  PROVE  /\ faults \in 0..MaxFaults /\ resyncs \in 0..faults
         /\ \A n \in 0..MaxFaults : faults <= n => resyncs \in 0..n
         /\ resyncs > 0 => resyncs - 1 \in 0..faults
BY CacheAssumption DEF Inv, Types

LEMMA ResyncKeeps ==
  ASSUME Inv, Resync
  PROVE  Inv'
<1>1. faults' \in 0..MaxFaults /\ faults' = faults + 1
  BY FaultCounts DEF Resync
<1>2. resyncs' \in 0..faults'
  BY <1>1, CountersKept, CacheAssumption DEF Resync
<1>3. /\ UNCHANGED <<backendVars, writer>> /\ loop' = loop /\ stream' = stream
      /\ cursor' = cursor /\ ready' = ready /\ syncing' = syncing
      /\ cache' = cache /\ reader' = reader
  BY DEF Resync
<1>4. cursor \in Nat /\ cursor <= cursor /\ (ready => loop.pc = "stream") /\ Started(loop)
  BY DEF Inv, Types
<1> QED BY <1>1, <1>2, <1>3, <1>4, LoopFacts, LoopKeepsGets, LoopKeepsCache,
           LoopKeepsStream, LoopMoves

(* Nothing cached while the cursor is about to jump is undisturbed. *)
LEMMA JumpKeepsCache ==
  ASSUME Inv, Jumping(loop), NEW jump, NEW cur
  PROVE  /\ cache \in [Keys -> Cached \cup {None}]
         /\ CacheSafe(cache, log, jump, shrunk, cur)
<1>1. /\ cache \in [Keys -> Cached \cup {None}]
      /\ CacheSafe(cache, log, Jumping(loop), shrunk, cursor)
  BY DEF Inv, Types
<1> QED BY <1>1 DEF CacheSafe

LEMMA DrainResyncKeeps ==
  ASSUME Inv, DrainResync
  PROVE  Inv'
<1>1. PICK lp : lp = [loop EXCEPT !.pc = "drain"]
  OBVIOUS
<1>2. lp \in LoopT /\ lp.pc = "drain"
  BY <1>1, LoopFacts
<1>3. ~Jumping(lp) /\ Started(lp)
  BY <1>2 DEF Jumping, Started
<1>4. /\ UNCHANGED <<backendVars, writer>> /\ loop' = lp /\ stream' = stream
      /\ cursor' = cursor /\ ready' = FALSE /\ syncing' = TRUE /\ cache' = cache
      /\ reader' = reader /\ faults' = faults /\ resyncs' = resyncs - 1 /\ resyncs > 0
  BY <1>1 DEF DrainResync
<1>5. /\ cursor \in Nat /\ cursor <= cursor
      /\ faults' \in 0..MaxFaults /\ resyncs' \in 0..faults'
  BY <1>4, CountersKept DEF Inv, Types
<1>6. /\ stream \in StreamT /\ Len(stream.chan) <= WatchCapacity
      /\ WatchSafe(lp, stream, Len(log), cursor)
      /\ ~shrunk => cursor <= Len(log) /\ ItemsSafe(stream, log)
  BY <1>2, LoopKeepsStream
<1>7. /\ reader \in [Readers -> ReaderT]
      /\ ReadersSafe(reader, record, Jumping(lp), shrunk, cursor)
  BY <1>3, <1>5, LoopKeepsGets
<1>8. /\ cache \in [Keys -> Cached \cup {None}]
      /\ CacheSafe(cache, log, Jumping(lp), shrunk, cursor)
  BY <1>3, LoopKeepsCache
<1> QED BY <1>2, <1>3, <1>4, <1>5, <1>6, <1>7, <1>8, LoopMoves

(* The two clears of the loop before the cursor jumps. *)
LEMMA LoopClearsKeep ==
  ASSUME Inv, DrainClear \/ ResyncClear
  PROVE  Inv'
<1>1. PICK lp \in LoopT : loop' = lp /\ lp.pc \in {"top", "rehead"}
  <2>1. PICK a : a = [loop EXCEPT !.pc = "rehead"]
    OBVIOUS
  <2>2. PICK b : b = [pc |-> "top", init |-> FALSE]
    OBVIOUS
  <2>3. a \in LoopT /\ a.pc = "rehead" /\ b \in LoopT /\ b.pc = "top"
    <3>1. a \in LoopT /\ a.pc = "rehead"
      BY <2>1, LoopFacts
    <3>2. b \in LoopT /\ b.pc = "top"
      BY <2>2 DEF LoopT
    <3> QED BY <3>1, <3>2
  <2> QED BY <2>1, <2>2, <2>3 DEF DrainClear, ResyncClear
<1>2. loop.pc \in {"drain", "clear"} /\ Started(lp)
  BY <1>1 DEF DrainClear, ResyncClear, LoopAt, Started
<1>3. /\ UNCHANGED <<backendVars, writer>> /\ stream' = stream
      /\ cursor' = cursor /\ ready' = ready /\ cache' = Cleared
      /\ reader' = Unquiet /\ faults' = faults /\ resyncs' = resyncs
      /\ syncing' = FALSE \/ syncing' = syncing
  BY DEF DrainClear, ResyncClear
<1>4. ready' = FALSE /\ syncing' \in BOOLEAN
  BY <1>2, <1>3, LoopFacts DEF Inv
<1>5. /\ stream \in StreamT /\ Len(stream.chan) <= WatchCapacity
      /\ WatchSafe(lp, stream, Len(log), cursor) /\ cursor \in Nat
      /\ ~shrunk => cursor <= Len(log) /\ ItemsSafe(stream, log)
  BY <1>1, LoopKeepsStream
<1>6. /\ Unquiet \in [Readers -> ReaderT]
      /\ ReadersSafe(Unquiet, record, Jumping(lp), shrunk, cursor)
  BY UnquietSafe
<1>7. /\ Cleared \in [Keys -> Cached \cup {None}]
      /\ CacheSafe(Cleared, log, Jumping(lp), shrunk, cursor)
  BY ClearedSafe
<1> QED BY <1>1, <1>2, <1>3, <1>4, <1>5, <1>6, <1>7, CountersKept, LoopMoves

(* The cursor jumps to the backend's head, or the call fails. *)
LEMMA HeadJumps ==
  ASSUME Inv, Jumping(loop), NEW reply \in HeadReplies, CountError(reply),
         cursor' = IF reply = -1 THEN cursor ELSE reply,
         NEW lp \in LoopT, loop' = lp, lp.pc # "stream", Started(lp),
         ready' = FALSE, syncing' \in BOOLEAN,
         UNCHANGED <<backendVars, stream, cache, resyncs, reader, writer>>
  PROVE  Inv'
<1>1. /\ faults' \in 0..MaxFaults /\ faults <= faults'
      /\ reply = Len(log) \/ reply = -1
  BY ReplyCounts
<1>2. /\ cursor \in Nat /\ log \in Seq(EntryT) /\ Len(log) \in Nat
      /\ ~shrunk => cursor <= Len(log) /\ ItemsSafe(stream, log)
      /\ stream \in StreamT /\ Len(stream.chan) <= WatchCapacity
  BY DEF Inv, Types
<1>3. PICK cur : cur = IF reply = -1 THEN cursor ELSE reply
  OBVIOUS
<1>4. cur \in Nat /\ (cursor <= cur \/ shrunk) /\ (~shrunk => cur <= Len(log))
  <2>1. cur = cursor \/ cur = Len(log)
    BY <1>1, <1>3
  <2> QED BY <1>2, <2>1
<1>5. WatchSafe(lp, stream, Len(log), cur)
  BY DEF WatchSafe
<1>6. /\ reader \in [Readers -> ReaderT]
      /\ ReadersSafe(reader, record, Jumping(lp), shrunk, cur)
  BY <1>4, LoopKeepsGets
<1>7. /\ cache \in [Keys -> Cached \cup {None}]
      /\ CacheSafe(cache, log, Jumping(lp), shrunk, cur)
  BY JumpKeepsCache
<1>8. /\ stream' = stream /\ cache' = cache /\ resyncs' = resyncs
      /\ reader' = reader /\ UNCHANGED <<backendVars, writer>> /\ cursor' = cur
  BY <1>3
<1>9. resyncs \in 0..faults'
  BY <1>1, CountersKept
<1> QED BY <1>1, <1>2, <1>4, <1>5, <1>6, <1>7, <1>8, <1>9, LoopMoves

LEMMA InitializeKeeps ==
  ASSUME Inv, Initialize
  PROVE  Inv'
<1>1. /\ loop.pc = "top" /\ ready' = FALSE
      /\ UNCHANGED <<backendVars, stream, cache, syncing, resyncs, reader, writer>>
  BY DEF Initialize, LoopAt
<1>2. CASE /\ loop.init /\ loop' = [loop EXCEPT !.pc = "open"]
           /\ UNCHANGED <<cursor, faults>>
  <2>1. PICK lp : lp = [loop EXCEPT !.pc = "open"]
    OBVIOUS
  <2>2. lp \in LoopT /\ lp.pc = "open" /\ lp.init = loop.init
    BY <2>1, LoopFacts
  <2>3. ~Jumping(lp) /\ Started(lp)
    BY <1>2, <2>2 DEF Jumping, Started
  <2>4. /\ stream \in StreamT /\ Len(stream.chan) <= WatchCapacity
        /\ WatchSafe(lp, stream, Len(log), cursor) /\ cursor \in Nat /\ cursor <= cursor
        /\ ~shrunk => cursor <= Len(log) /\ ItemsSafe(stream, log)
    BY <2>2, LoopKeepsStream
  <2>5. /\ reader \in [Readers -> ReaderT]
        /\ ReadersSafe(reader, record, Jumping(lp), shrunk, cursor)
    BY <2>3, <2>4, LoopKeepsGets
  <2>6. /\ cache \in [Keys -> Cached \cup {None}]
        /\ CacheSafe(cache, log, Jumping(lp), shrunk, cursor)
    BY <2>3, LoopKeepsCache
  <2>7. /\ loop' = lp /\ cursor' = cursor /\ faults' = faults /\ stream' = stream
        /\ cache' = cache /\ syncing' = syncing /\ resyncs' = resyncs
        /\ reader' = reader /\ UNCHANGED <<backendVars, writer>>
    BY <1>1, <1>2, <2>1
  <2> QED BY <1>1, <2>2, <2>3, <2>4, <2>5, <2>6, <2>7, LoopFacts, CountersKept, LoopMoves
<1>3. CASE ~loop.init /\ ~(loop.init /\ loop' = [loop EXCEPT !.pc = "open"]
                                     /\ UNCHANGED <<cursor, faults>>)
  <2>1. PICK reply \in HeadReplies :
          /\ CountError(reply)
          /\ cursor' = IF reply = -1 THEN cursor ELSE reply
          /\ loop' = IF reply = -1 THEN loop ELSE [pc |-> "open", init |-> TRUE]
    BY <1>3 DEF Initialize
  <2>2. PICK a : a = [pc |-> "open", init |-> TRUE]
    OBVIOUS
  <2>3. a \in LoopT /\ a.pc = "open" /\ a.init = TRUE
    BY <2>2 DEF LoopT
  <2>4. PICK lp \in LoopT : loop' = lp /\ lp.pc # "stream" /\ Started(lp)
    BY <1>1, <2>1, <2>2, <2>3, LoopFacts DEF Started
  <2>5. Jumping(loop) /\ syncing' \in BOOLEAN
    BY <1>1, <1>3, LoopFacts DEF Jumping
  <2> QED BY <1>1, <2>1, <2>4, <2>5, HeadJumps
<1> QED BY <1>2, <1>3 DEF Initialize

LEMMA ResyncHeadKeeps ==
  ASSUME Inv, ResyncHead
  PROVE  Inv'
<1>1. /\ loop.pc = "rehead" /\ syncing' = FALSE
      /\ UNCHANGED <<backendVars, stream, cache, ready, resyncs, reader, writer>>
  BY DEF ResyncHead, LoopAt
<1>2. PICK reply \in HeadReplies :
        /\ CountError(reply)
        /\ cursor' = IF reply = -1 THEN cursor ELSE reply
        /\ loop' = [pc |-> "top", init |-> reply # -1]
  BY DEF ResyncHead
<1>3. PICK init \in BOOLEAN : init = (reply # -1)
  OBVIOUS
<1>4. PICK lp : lp = [pc |-> "top", init |-> init]
  OBVIOUS
<1>5. lp \in LoopT /\ lp.pc = "top" /\ loop' = lp
  BY <1>2, <1>3, <1>4 DEF LoopT
<1>6. Jumping(loop) /\ ready' = FALSE
  BY <1>1, LoopFacts DEF Jumping, Inv
<1>7. /\ UNCHANGED <<backendVars, stream, cache, resyncs, reader, writer>>
      /\ syncing' \in BOOLEAN /\ lp.pc # "stream" /\ Started(lp)
  BY <1>1, <1>5 DEF Started
<1> QED BY <1>2, <1>5, <1>6, <1>7, HeadJumps

(* The stream that prepare_watch_registration hands out: the entries       *)
(* between the cursor and the head, then everything from the head on.      *)
FreshStream(lg, cur) ==
  [open |-> TRUE, intact |-> TRUE, chan |-> <<>>,
   next |-> (IF cur > Len(lg) THEN cur ELSE Len(lg)) + 1,
   backlog |-> [i \in 1..(Len(lg) - cur) |-> Item(cur + i, lg[cur + i])]]

LEMMA FreshStreamSafe ==
  ASSUME NEW lg \in Seq(EntryT), NEW cur \in Nat, NEW lp, NEW s,
         s = FreshStream(lg, cur)
  PROVE  /\ s \in StreamT /\ Len(s.chan) <= WatchCapacity
         /\ WatchSafe(lp, s, Len(lg), cur)
         /\ ItemsSafe(s, lg)
<1>1. Len(lg) \in Nat
  OBVIOUS
<1>2. \E n \in Nat : n = IF cur > Len(lg) THEN 0 ELSE Len(lg) - cur
  <2>1. CASE cur > Len(lg)
    BY <2>1
  <2>2. CASE ~(cur > Len(lg))
    <3>1. Len(lg) - cur \in Nat
      BY <1>1, <2>2
    <3> QED BY <2>2, <3>1
  <2> QED BY <2>1, <2>2
<1> PICK n \in Nat : n = IF cur > Len(lg) THEN 0 ELSE Len(lg) - cur
  BY <1>2
<1>3. 1..(Len(lg) - cur) = 1..n
  BY <1>1
<1>4. PICK q : q = [i \in 1..(Len(lg) - cur) |-> Item(cur + i, lg[cur + i])]
  OBVIOUS
<1>5. ASSUME NEW i \in 1..n
      PROVE  /\ q[i] \in ItemT /\ q[i].seq = cur + i
             /\ cur + i <= Len(lg) /\ q[i].keys = lg[cur + i].keys
  <2>1. cur + i \in 1..Len(lg) /\ cur + i \in Nat
    BY <1>1
  <2>2. lg[cur + i] \in EntryT
    BY <2>1
  <2>3. PICK item : item = Item(cur + i, lg[cur + i])
    OBVIOUS
  <2>4. item \in ItemT /\ item.seq = cur + i /\ item.keys = lg[cur + i].keys
    BY <2>1, <2>2, <2>3 DEF Item, ItemT, EntryT
  <2>5. q[i] = item
    BY <1>3, <1>4, <2>3
  <2> QED BY <2>1, <2>4, <2>5
<1>6. q \in Seq(ItemT) /\ Len(q) = n
  <2>1. q \in [1..n -> ItemT]
    BY <1>3, <1>4, <1>5
  <2>2. q \in Seq(ItemT)
    BY <2>1, SeqDef
  <2>3. Len(q) \in Nat /\ DOMAIN q = 1..Len(q)
    BY <2>2
  <2> QED BY <2>1, <2>2, <2>3
<1> PICK none : none = <<>>
  OBVIOUS
<1>7. none \in Seq(ItemT) /\ Len(none) = 0 /\ Held(none) = {}
  BY DEF Held
<1>8. PICK next \in Nat : next = (IF cur > Len(lg) THEN cur ELSE Len(lg)) + 1
  BY <1>1
<1>9. s = [open |-> TRUE, intact |-> TRUE, chan |-> none, next |-> next, backlog |-> q]
  BY <1>4, <1>8 DEF FreshStream
<1>10. s \in StreamT /\ s.chan = none /\ s.backlog = q /\ s.next = next
  BY <1>6, <1>7, <1>9 DEF StreamT
<1>11. Carried(s) = Held(q) /\ Len(s.chan) <= WatchCapacity
  <2>1. Held(s.chan) = {} /\ Len(s.chan) = 0
    BY <1>7, <1>10
  <2>2. Carried(s) = Held(q)
    BY <1>10, <2>1 DEF Carried
  <2>3. 0 <= WatchCapacity
    BY CacheAssumption
  <2> QED BY <2>1, <2>2, <2>3
<1>12. ItemsSafe(s, lg)
  <2> SUFFICES ASSUME NEW x \in Held(q)
               PROVE  x.seq <= Len(lg) /\ x.keys = lg[x.seq].keys
    BY <1>11 DEF ItemsSafe
  <2>1. PICK i \in 1..n : x = q[i]
    BY <1>6 DEF Held
  <2> QED BY <1>5, <2>1
<1>13. Len(lg) < next
  BY <1>1, <1>8
<1>14. ASSUME NEW seq \in cur + 1..next - 1
       PROVE  \E item \in Carried(s) : item.seq = seq
  <2>1. PICK i : i = seq - cur
    OBVIOUS
  <2>2. i \in 1..n /\ seq = cur + i
    BY <1>1, <1>8, <2>1
  <2>3. q[i] \in Held(q) /\ q[i].seq = seq
    BY <1>5, <1>6, <2>2 DEF Held
  <2> QED BY <1>11, <2>3
<1>15. WatchSafe(lp, s, Len(lg), cur)
  BY <1>10, <1>13, <1>14 DEF WatchSafe
<1> QED BY <1>10, <1>11, <1>12, <1>15

LEMMA OpenStreamKeeps ==
  ASSUME Inv, OpenStream
  PROVE  Inv'
<1>1. /\ loop.pc = "open" /\ cache' = cache /\ cursor' = cursor /\ resyncs' = resyncs
      /\ reader' = reader /\ UNCHANGED <<backendVars, writer>>
  BY DEF OpenStream, LoopAt
<1>2. /\ cursor \in Nat /\ cursor <= cursor /\ log \in Seq(EntryT)
      /\ faults \in 0..MaxFaults /\ resyncs \in 0..faults /\ MaxFaults \in Nat
      /\ ~shrunk => cursor <= Len(log)
      /\ ready = FALSE /\ syncing \in BOOLEAN
  BY <1>1, LoopFacts, CacheAssumption DEF Inv, Types
<1>3. ASSUME NEW lp, ~Jumping(lp)
      PROVE  /\ reader \in [Readers -> ReaderT]
             /\ ReadersSafe(reader, record, Jumping(lp), shrunk, cursor)
             /\ cache \in [Keys -> Cached \cup {None}]
             /\ CacheSafe(cache, log, Jumping(lp), shrunk, cursor)
  BY <1>2, <1>3, LoopKeepsGets, LoopKeepsCache
<1>4. CASE /\ stream' = FreshStream(log, cursor)
           /\ ready' = TRUE /\ loop' = [loop EXCEPT !.pc = "stream"]
           /\ syncing' = syncing /\ faults' = faults
  <2>1. PICK lp : lp = [loop EXCEPT !.pc = "stream"]
    OBVIOUS
  <2>2. lp \in LoopT /\ lp.pc = "stream" /\ lp.init = loop.init /\ loop' = lp
    BY <1>4, <2>1, LoopFacts
  <2>3. ~Jumping(lp) /\ Started(lp)
    BY <1>1, <2>2 DEF Jumping, Started, Inv
  <2>4. /\ stream' \in StreamT /\ Len(stream'.chan) <= WatchCapacity
        /\ WatchSafe(lp, stream', Len(log), cursor) /\ ItemsSafe(stream', log)
    BY <1>2, <1>4, FreshStreamSafe
  <2>5. ready' \in BOOLEAN /\ syncing' \in BOOLEAN /\ faults' = faults
    BY <1>2, <1>4
  <2>6. /\ reader \in [Readers -> ReaderT]
        /\ ReadersSafe(reader, record, Jumping(lp), shrunk, cursor)
        /\ cache \in [Keys -> Cached \cup {None}]
        /\ CacheSafe(cache, log, Jumping(lp), shrunk, cursor)
    BY <1>3, <2>3
  <2> QED BY <1>1, <1>2, <2>2, <2>3, <2>4, <2>5, <2>6, LoopMoves
<1>5. CASE /\ ~WatchAccepted \/ faults < MaxFaults
           /\ faults' = IF WatchAccepted THEN faults + 1 ELSE faults
           /\ syncing' = TRUE /\ loop' = [loop EXCEPT !.pc = "clear"]
           /\ stream' = stream /\ ready' = ready
  <2>1. PICK lp : lp = [loop EXCEPT !.pc = "clear"]
    OBVIOUS
  <2>2. lp \in LoopT /\ lp.pc = "clear" /\ loop' = lp
    BY <1>5, <2>1, LoopFacts
  <2>3. ~Jumping(lp) /\ Started(lp)
    BY <2>2 DEF Jumping, Started
  <2>4. faults' = faults \/ (faults' = faults + 1 /\ faults < MaxFaults)
    BY <1>5
  <2>5. faults' \in 0..MaxFaults /\ resyncs \in 0..faults'
    BY <1>2, <2>4
  <2>6. /\ stream \in StreamT /\ Len(stream.chan) <= WatchCapacity
        /\ WatchSafe(lp, stream, Len(log), cursor)
        /\ ~shrunk => cursor <= Len(log) /\ ItemsSafe(stream, log)
    BY <2>2, LoopKeepsStream
  <2>7. /\ reader \in [Readers -> ReaderT]
        /\ ReadersSafe(reader, record, Jumping(lp), shrunk, cursor)
        /\ cache \in [Keys -> Cached \cup {None}]
        /\ CacheSafe(cache, log, Jumping(lp), shrunk, cursor)
    BY <1>3, <2>3
  <2>8. ready' = FALSE /\ syncing' \in BOOLEAN /\ stream' = stream
    BY <1>2, <1>5
  <2> QED BY <1>1, <1>2, <2>2, <2>3, <2>5, <2>6, <2>7, <2>8, LoopMoves
<1> QED BY <1>4, <1>5 DEF OpenStream, Committed, FreshStream

(* Leaving the stream: the next step of the loop decides about the cursor. *)
LEMMA LeaveStreamKeeps ==
  ASSUME Inv, stream' = NoStream, ready' = FALSE, syncing' \in BOOLEAN,
         NEW lp \in LoopT, loop' = lp, ~Jumping(lp), Started(lp),
         UNCHANGED <<backendVars, cache, cursor, reader, writer>>,
         faults' = faults, resyncs' \in 0..faults
  PROVE  Inv'
<1>1. /\ cursor \in Nat /\ cursor <= cursor /\ faults \in 0..MaxFaults
      /\ ~shrunk => cursor <= Len(log)
  BY DEF Inv, Types
<1>2. /\ stream' \in StreamT /\ Len(stream'.chan) <= WatchCapacity
      /\ WatchSafe(lp, stream', Len(log), cursor) /\ ItemsSafe(stream', log)
  BY NoStreamSafe
<1>3. /\ reader \in [Readers -> ReaderT]
      /\ ReadersSafe(reader, record, Jumping(lp), shrunk, cursor)
  BY <1>1, LoopKeepsGets
<1>4. /\ cache \in [Keys -> Cached \cup {None}]
      /\ CacheSafe(cache, log, Jumping(lp), shrunk, cursor)
  BY LoopKeepsCache
<1>5. /\ cache' = cache /\ cursor' = cursor /\ reader' = reader
      /\ UNCHANGED <<backendVars, writer>>
  OBVIOUS
<1> QED BY <1>1, <1>2, <1>3, <1>4, <1>5, LoopMoves

LEMMA ResyncLeaves ==
  ASSUME Inv, LeaveForResync, UNCHANGED <<backendVars, reader, writer>>,
         faults' = faults, resyncs' \in 0..faults
  PROVE  Inv'
<1>1. PICK lp : lp = [loop EXCEPT !.pc = "clear"]
  OBVIOUS
<1>2. lp \in LoopT /\ lp.pc = "clear"
  BY <1>1, LoopFacts
<1>3. ~Jumping(lp) /\ Started(lp)
  BY <1>2 DEF Jumping, Started
<1>4. /\ stream' = NoStream /\ ready' = FALSE /\ syncing' = TRUE /\ loop' = lp
      /\ UNCHANGED <<backendVars, cache, cursor, reader, writer>>
  BY <1>1 DEF LeaveForResync
<1>5. syncing' \in BOOLEAN
  BY <1>4
<1> QED BY <1>2, <1>3, <1>4, <1>5, LeaveStreamKeeps

LEMMA ManualResyncKeeps ==
  ASSUME Inv, ManualResync
  PROVE  Inv'
BY CountersKept, ResyncLeaves DEF ManualResync

LEMMA StreamEndsKeeps ==
  ASSUME Inv, StreamEnds
  PROVE  Inv'
<1>1. PICK lp : lp = [loop EXCEPT !.pc = "top"]
  OBVIOUS
<1>2. lp \in LoopT /\ lp.pc = "top" /\ lp.init = loop.init /\ loop.pc = "stream"
  BY <1>1, LoopFacts DEF StreamEnds, LoopAt
<1>3. /\ stream' = NoStream /\ ready' = FALSE /\ syncing' = syncing /\ loop' = lp
      /\ UNCHANGED <<backendVars, cache, cursor, reader, writer>>
      /\ faults' = faults /\ resyncs' = resyncs
  BY <1>1 DEF StreamEnds
<1>4. syncing' \in BOOLEAN /\ resyncs' \in 0..faults
  BY <1>3, LoopFacts, CountersKept
<1>5. ~Jumping(lp) /\ Started(lp)
  BY <1>2 DEF Jumping, Started, Inv
<1> QED BY <1>2, <1>3, <1>4, <1>5, LeaveStreamKeeps

(* The next entry: its keys leave the cache in the step that moves the     *)
(* cursor over it.                                                         *)
LEMMA NextEntrySafe ==
  ASSUME Inv, loop.pc = "stream", NEW item \in Carried(stream), item.seq = cursor + 1
  PROVE  /\ ~shrunk => cursor + 1 <= Len(log)
         /\ Evicted(cache, item.keys) \in [Keys -> Cached \cup {None}]
         /\ CacheSafe(Evicted(cache, item.keys), log, Jumping(loop), shrunk, cursor + 1)
<1>1. /\ cursor \in Nat /\ log \in Seq(EntryT)
      /\ cache \in [Keys -> Cached \cup {None}]
      /\ CacheSafe(cache, log, Jumping(loop), shrunk, cursor)
  BY DEF Inv, Types
<1>2. cursor + 1 # 0
  BY <1>1
<1>3. ~shrunk => cursor + 1 <= Len(log) /\ item.keys = log[cursor + 1].keys
  BY <1>2 DEF Inv, ItemsSafe
<1>4. PICK c : c = Evicted(cache, item.keys)
  OBVIOUS
<1>5. /\ c \in [Keys -> Cached \cup {None}]
      /\ \A k \in Keys : c[k] # None => k \notin item.keys /\ c[k] = cache[k]
  BY <1>1, <1>4 DEF Evicted
<1>6. CacheSafe(c, log, Jumping(loop), shrunk, cursor + 1)
  <2> SUFFICES ASSUME NEW k \in Keys, c[k] # None, c[k].quiet
               PROVE  /\ ~Jumping(loop)
                      /\ ~shrunk => LastChange(log, k, cursor + 1) <= c[k].ver
    BY DEF CacheSafe
  <2>1. k \notin item.keys /\ c[k] = cache[k]
    BY <1>5
  <2>2. ~Jumping(loop) /\ (~shrunk => LastChange(log, k, cursor) <= cache[k].ver)
    BY <1>1, <2>1 DEF CacheSafe
  <2>3. ~shrunk => LastChange(log, k, cursor + 1) = LastChange(log, k, cursor)
    BY <1>1, <1>3, <2>1, LastChangeStep
  <2> QED BY <2>1, <2>2, <2>3
<1> QED BY <1>3, <1>4, <1>5, <1>6

(* Taking an item at most one above the cursor keeps the watch complete. *)
LEMMA PoppedWatch ==
  ASSUME Inv, Items # <<>>, NEW cur \in Nat, Items[1].seq <= cur, cursor <= cur
  PROVE  /\ WatchSafe(loop, Popped, Len(log), cur)
         /\ ~shrunk => ItemsSafe(Popped, log)
<1>1. PICK s : s = Popped
  OBVIOUS
<1>2. PICK first : first = Items[1]
  OBVIOUS
<1>3. /\ s.open = stream.open /\ s.intact = stream.intact /\ s.next = stream.next
      /\ Carried(s) \subseteq Carried(stream) /\ first \in ItemT
      /\ Carried(stream) \subseteq Carried(s) \cup {first}
  BY <1>1, <1>2, PoppedSafe
<1>4. cursor \in Nat /\ stream.next \in Nat /\ first.seq \in Nat
  BY <1>3 DEF Inv, Types, StreamT, ItemT
<1>5. WatchSafe(loop, s, Len(log), cur)
  <2> SUFFICES ASSUME loop.pc = "stream", stream.open, stream.intact
               PROVE  /\ Len(log) < stream.next
                      /\ \A seq \in cur + 1..stream.next - 1 :
                           \E item \in Carried(s) : item.seq = seq
    BY <1>3 DEF WatchSafe
  <2>1. /\ Len(log) < stream.next
        /\ \A seq \in cursor + 1..stream.next - 1 :
             \E item \in Carried(stream) : item.seq = seq
    BY DEF Inv, WatchSafe
  <2>2. ASSUME NEW seq \in cur + 1..stream.next - 1
        PROVE  \E item \in Carried(s) : item.seq = seq
    <3>1. seq \in cursor + 1..stream.next - 1 /\ seq # first.seq
      BY <1>2, <1>4
    <3> QED BY <1>3, <2>1, <3>1
  <2> QED BY <2>1, <2>2
<1>6. ~shrunk => ItemsSafe(s, log)
  BY <1>3 DEF Inv, ItemsSafe
<1> QED BY <1>1, <1>5, <1>6

LEMMA ReceiveKeeps ==
  ASSUME Inv, Receive
  PROVE  Inv'
<1>1. /\ loop.pc = "stream" /\ Items # <<>> /\ resyncs' = resyncs /\ faults' = faults
      /\ reader' = reader /\ UNCHANGED <<backendVars, writer>>
  BY DEF Receive, LoopAt
<1>2. PICK item : item = Items[1]
  OBVIOUS
<1>3. /\ item \in ItemT /\ item \in Carried(stream) /\ item.seq \in Nat
      /\ Popped \in StreamT /\ Len(Popped.chan) <= WatchCapacity
  BY <1>1, <1>2, PoppedSafe DEF ItemT
<1>4. /\ cursor \in Nat /\ cursor + 1 \in Nat /\ cursor <= cursor + 1 /\ cursor <= cursor
      /\ ready \in BOOLEAN /\ syncing \in BOOLEAN /\ loop \in LoopT
      /\ faults \in 0..MaxFaults /\ resyncs \in 0..faults
      /\ (~shrunk => cursor <= Len(log)) /\ Started(loop)
  BY LoopFacts, CountersKept DEF Inv, Types
<1>5. CASE /\ item.seq = cursor + 1
           /\ cache' = Evicted(cache, item.keys) /\ cursor' = cursor + 1
           /\ stream' = Popped /\ ready' = ready /\ syncing' = syncing /\ loop' = loop
  <2>1. /\ ~shrunk => cursor + 1 <= Len(log)
        /\ cache' \in [Keys -> Cached \cup {None}]
        /\ CacheSafe(cache', log, Jumping(loop), shrunk, cursor + 1)
    BY <1>1, <1>3, <1>5, NextEntrySafe
  <2>2. item.seq <= cursor + 1
    BY <1>4, <1>5
  <2>3. /\ WatchSafe(loop, Popped, Len(log), cursor + 1)
        /\ ~shrunk => ItemsSafe(Popped, log)
    BY <1>1, <1>2, <1>4, <2>2, PoppedWatch
  <2>4. /\ reader \in [Readers -> ReaderT]
        /\ ReadersSafe(reader, record, Jumping(loop), shrunk, cursor + 1)
    BY <1>4, LoopKeepsGets
  <2> QED BY <1>1, <1>3, <1>4, <1>5, <2>1, <2>3, <2>4, LoopMoves
<1>6. CASE /\ item.seq \in 1..cursor
           /\ stream' = Popped /\ cache' = cache /\ cursor' = cursor
           /\ ready' = ready /\ syncing' = syncing /\ loop' = loop
  <2>1. item.seq <= cursor
    BY <1>4, <1>6
  <2>2. /\ WatchSafe(loop, Popped, Len(log), cursor)
        /\ ~shrunk => ItemsSafe(Popped, log)
    BY <1>1, <1>2, <1>4, <2>1, PoppedWatch
  <2>3. /\ reader \in [Readers -> ReaderT]
        /\ ReadersSafe(reader, record, Jumping(loop), shrunk, cursor)
    BY <1>4, LoopKeepsGets
  <2>4. /\ cache \in [Keys -> Cached \cup {None}]
        /\ CacheSafe(cache, log, Jumping(loop), shrunk, cursor)
    BY LoopKeepsCache
  <2> QED BY <1>1, <1>3, <1>4, <1>6, <2>2, <2>3, <2>4, LoopMoves
<1>7. CASE LeaveForResync
  BY <1>1, <1>4, <1>7, ResyncLeaves
<1>8. \/ /\ item.seq = cursor + 1
         /\ cache' = Evicted(cache, item.keys) /\ cursor' = item.seq
         /\ stream' = Popped /\ ready' = ready /\ syncing' = syncing /\ loop' = loop
      \/ /\ item.seq \in 1..cursor
         /\ stream' = Popped /\ cache' = cache /\ cursor' = cursor
         /\ ready' = ready /\ syncing' = syncing /\ loop' = loop
      \/ LeaveForResync
  BY <1>2 DEF Receive, Invalidated
<1> QED BY <1>5, <1>6, <1>7, <1>8

-----------------------------------------------------------------------------
LEMMA InitInv ==
  ASSUME Init
  PROVE  Inv
<1>1. log = <<>> /\ log \in Seq(EntryT) /\ Len(log) = 0 /\ cursor = 0
  BY DEF Init
<1>2. record = Replayed(log)
  <2>1. ASSUME NEW k \in Keys PROVE Replayed(log)[k] = None
    <3>1. Changes(log, k, Len(log)) = {}
      BY <1>1 DEF Changes
    <3>2. LastChange(log, k, Len(log)) = 0
      BY <1>1, <3>1, LastChangeOf
    <3> QED BY <3>2 DEF Replayed
  <2>2. Replayed(log) = [k \in Keys |-> Replayed(log)[k]]
    BY DEF Replayed
  <2> QED BY <2>1, <2>2 DEF Init
<1>3. /\ stream \in StreamT /\ Len(stream.chan) <= WatchCapacity
      /\ WatchSafe(loop, stream, Len(log), cursor) /\ ItemsSafe(stream, log)
  BY NoStreamSafe DEF Init
<1>4. /\ cache \in [Keys -> Cached \cup {None}]
      /\ CacheSafe(cache, log, Jumping(loop), shrunk, cursor)
  BY ClearedSafe DEF Init
<1>5. /\ reader \in [Readers -> ReaderT]
      /\ ReadersSafe(reader, record, Jumping(loop), shrunk, cursor)
  BY IdleSafe DEF Init, ReadersSafe
<1>6. writer \in [Writers -> WriterT] /\ WritersNamed(writer)
  BY DEF Init, IdleWriter, WriterT, WritersNamed
<1>7. faults \in 0..MaxFaults /\ resyncs \in 0..faults /\ cursor \in Nat
  BY <1>1, CacheAssumption DEF Init
<1>8. ready = FALSE /\ syncing = FALSE /\ shrunk = FALSE
  BY DEF Init
<1>9. /\ loop \in [pc : {"top", "drain", "open", "stream", "clear", "rehead"},
                   init : BOOLEAN]
      /\ Started(loop)
  BY DEF Init, Started
<1>10. Types
  BY <1>1, <1>2, <1>3, <1>4, <1>5, <1>6, <1>7, <1>8, <1>9 DEF Types
<1>11. cursor <= Len(log)
  BY <1>1
<1> QED BY <1>3, <1>4, <1>5, <1>6, <1>8, <1>9, <1>10, <1>11 DEF Inv

LEMMA StutterKeeps ==
  ASSUME Inv, UNCHANGED vars
  PROVE  Inv'
<1>1. /\ log' = log /\ record' = record /\ shrunk' = shrunk /\ stream' = stream
      /\ cursor' = cursor /\ syncing' = syncing /\ loop' = loop /\ cache' = cache
      /\ resyncs' = resyncs /\ ready' = ready /\ reader' = reader /\ writer' = writer
      /\ faults' = faults
  BY DEF vars
<1>2. Types'
  BY <1>1 DEF Inv, Types
<1> QED BY <1>1, <1>2 DEF Inv

LEMMA ReaderStepKeeps ==
  ASSUME Inv, NEW r \in Readers, ReaderStep(r)
  PROVE  Inv'
BY SampleHeadKeeps, CompareHeadKeeps, EvictingGets, LookupKeeps, FetchKeeps,
   RecheckKeeps, InsertKeeps DEF ReaderStep

LEMMA WriterStepKeeps ==
  ASSUME Inv, NEW w \in Writers, WriterStep(w)
  PROVE  Inv'
BY EvictKeeps, WriteCommitsKeeps, WriterEndsKeep, RebuildKeeps DEF WriterStep

LEMMA LoopStepKeeps ==
  ASSUME Inv, LoopStep
  PROVE  Inv'
BY DrainResyncKeeps, LoopClearsKeep, InitializeKeeps, OpenStreamKeeps, ReceiveKeeps,
   StreamEndsKeeps, ManualResyncKeeps, ResyncHeadKeeps DEF LoopStep

LEMMA NextKeeps ==
  ASSUME Inv, Next
  PROVE  Inv'
<1>1. CASE External
  BY <1>1, ExternalKeeps
<1>2. CASE StreamBreaks \/ StreamMisdelivers \/ Resync
  BY <1>2, StreamBreaksKeeps, StreamMisdeliversKeeps, ResyncKeeps
<1>3. CASE Clear \/ \E k \in Keys : Invalidate(k)
  BY <1>3, PublicEvictionsKeep
<1>4. CASE LoopStep
  BY <1>4, LoopStepKeeps
<1>5. ASSUME NEW r \in Readers, ReaderStep(r) \/ \E k \in Keys : BeginGet(r, k)
      PROVE  Inv'
  BY <1>5, ReaderStepKeeps, BeginGetKeeps
<1>6. ASSUME NEW w \in Writers, WriterStep(w) \/ BeginRebuild(w)
      PROVE  Inv'
  BY <1>6, WriterStepKeeps, WriterEndsKeep
<1>7. ASSUME NEW w \in Writers, NEW call \in Calls,
             BeginWrite(w, call[1], call[2][1], call[2][2])
      PROVE  Inv'
  BY <1>7, BeginWriteKeeps
<1> QED BY <1>1, <1>2, <1>3, <1>4, <1>5, <1>6, <1>7 DEF Next

(* The invariant that the results below rest on. *)
THEOREM Invariance == Spec => []Inv
<1>1. Init => Inv
  BY InitInv
<1>2. Inv /\ [Next]_vars => Inv'
  BY NextKeeps, StutterKeeps
<1> QED BY <1>1, <1>2, PTL DEF Spec

LEMMA InvTyped ==
  ASSUME Inv
  PROVE  TypeOK
<1>1. Types
  BY DEF Inv
<1>2. log \in Seq([kind : {"put", "refresh", "delete", "lease"},
                   keys : SUBSET Keys, gen : Nat])
  BY <1>1 DEF Types, EntryT, Kinds
<1>3. record \in [Keys -> Version \cup {None}]
  BY <1>1, ReplayedRecords DEF Types
<1>4. stream \in StreamT /\ stream.open \in BOOLEAN
  BY <1>1 DEF Types, StreamT
<1>5. Items \in Seq([seq : Nat, keys : SUBSET Keys])
  <2>1. Items \in Seq(ItemT)
    BY <1>4, CarriedItems, ConcatHeld DEF Items
  <2> QED BY <2>1 DEF ItemT
<1>6. shrunk \in BOOLEAN /\ (shrunk \/ cursor <= Committed)
  BY <1>1 DEF Inv, Types, Committed
<1>7. resyncs \in 0..MaxFaults
  BY <1>1, CacheAssumption DEF Types
<1> QED BY <1>1, <1>2, <1>3, <1>4, <1>5, <1>6, <1>7 DEF TypeOK, Types

(* SessionCache, the watch stream and run_watch_loop keep the shape of     *)
(* their state, the watch channel stays within its capacity, and the       *)
(* cursor is ahead of the backend only after a rebuild dropped entries.    *)
THEOREM TypeCorrect == Spec => []TypeOK
<1>1. Inv => TypeOK
  BY InvTyped
<1> QED BY <1>1, Invariance, PTL

LEMMA InvWatches ==
  ASSUME Inv
  PROVE  WatchLosesNothing
<1> SUFFICES ASSUME loop.pc = "stream", stream.open, stream.intact,
                    NEW seq \in cursor + 1..Committed
             PROVE  \E i \in 1..Len(Items) : Items[i].seq = seq
  BY DEF WatchLosesNothing, LoopAt
<1>1. /\ stream \in StreamT /\ stream.next \in Nat /\ cursor \in Nat
      /\ log \in Seq(EntryT) /\ Len(log) \in Nat
  BY DEF Inv, Types, StreamT
<1>2. /\ Len(log) < stream.next
      /\ \A n \in cursor + 1..stream.next - 1 :
           \E item \in Carried(stream) : item.seq = n
  BY DEF Inv, WatchSafe
<1>3. seq \in cursor + 1..stream.next - 1
  BY <1>1, <1>2 DEF Committed
<1>4. PICK item \in Carried(stream) : item.seq = seq
  BY <1>2, <1>3
<1>5. Carried(stream) = Held(Items)
  BY <1>1, CarriedItems, ConcatHeld DEF Items, Carried
<1> QED BY <1>4, <1>5 DEF Held

(* ReplicationWatcher::notify and prepare_watch_registration: as long as   *)
(* the backend has the loop's watcher registered, every committed entry    *)
(* above the cursor is in the stream, however full the channel gets and    *)
(* however often the stream is broken and opened again.                    *)
THEOREM WatchIsComplete == Spec => []WatchLosesNothing
<1>1. Inv => WatchLosesNothing
  BY InvWatches
<1> QED BY <1>1, Invariance, PTL

LEMMA InvHits ==
  ASSUME Inv
  PROVE  QuietHitsCurrent
<1> SUFFICES ASSUME NEW r \in Readers, Hit(r), cache[reader[r].key].quiet, ~shrunk
             PROVE  HitIsCurrent(r)
  BY DEF QuietHitsCurrent
<1>1. PICK k : k = reader[r].key
  OBVIOUS
<1>2. reader[r].pc = "lookup" /\ cache[k] # None /\ cache[k].quiet
  BY <1>1 DEF Hit, At
<1>3. PICK head : head = reader[r].head
  OBVIOUS
<1>4. k \in Keys /\ head \in Int /\ head <= cursor
  BY <1>1, <1>2, <1>3, ReaderFacts DEF ReaderSafe, ReaderT
<1>5. /\ LastChange(log, k, cursor) <= cache[k].ver
      /\ cursor \in Int /\ log \in Seq(EntryT) /\ cache[k] \in Cached \cup {None}
  BY <1>2, <1>4 DEF Inv, Types, CacheSafe
<1>6. cache[k].ver \in Nat
  BY <1>2, <1>5 DEF Cached
<1>7. LastChange(log, k, head) <= LastChange(log, k, cursor)
  BY <1>4, <1>5, LastChangeMonotone
<1>8. LastChange(log, k, head) \in Nat /\ LastChange(log, k, cursor) \in Nat
  BY <1>4, <1>5, LastChangeIs
<1>9. cache[k].ver >= LastChange(log, k, head)
  BY <1>5, <1>6, <1>7, <1>8
<1> QED BY <1>1, <1>3, <1>9 DEF HitIsCurrent

(* SessionCache::get serves a record no older than the head it checked     *)
(* the cursor against, if nothing was committed and the loop cleared       *)
(* nothing while the record was on its way from the backend into the       *)
(* cache: whatever streams break, entries are lost or repeated, resyncs,   *)
(* failing calls and rebuilds that keep the journal come in between.       *)
THEOREM QuietHitsAreCurrent == Spec => []QuietHitsCurrent
<1>1. Inv => QuietHitsCurrent
  BY InvHits
<1> QED BY <1>1, Invariance, PTL

=============================================================================
