------------------------ MODULE ClusterCache_proofs ------------------------
(***************************************************************************)
(* Proofs about ClusterCache, for every set of kinds, keys and namespaces,  *)
(* every history of the API server and every bound: type correctness, that  *)
(* the two maps of the cache agree, that every watch can be stopped where   *)
(* the account's rights are the same in all namespaces, that a kind whose   *)
(* watch is stopped leaves nothing behind where it has one watch, and that  *)
(* a quiet cache shows the server where events are handled one by one.      *)
(***************************************************************************)
EXTENDS MCClusterCache, FiniteSetTheorems, SequenceTheorems, TLAPS

-----------------------------------------------------------------------------
(* Versions                                                                 *)

\* Less than, as a set of pairs.
Less == {p \in Nat \X Nat : p[1] < p[2]}

\* Every set of naturals has a least element.
LEMMA LessWellFounded == IsWellFoundedOn(Less, Nat)
BY NatLessThanWellFounded DEF OpToRel, Less

\* Some versions have a greatest one.
LEMMA GreatestVersion ==
    ASSUME NEW n \in Nat, NEW S \in SUBSET (1..n), S # {}
    PROVE  Max(S) \in S /\ \A y \in S : y <= Max(S)
<1> DEFINE Below == {n - i : i \in S}
<1>1. Below \subseteq Nat /\ Below # {}
  <2>1. \A i \in S : i \in 1..n /\ n - i \in Nat
    OBVIOUS
  <2> QED
    BY <2>1
<1>2. PICK b \in Below : \A c \in Below : <<c, b>> \notin Less
  BY <1>1, WFMin, LessWellFounded
<1>3. PICK m \in S : b = n - m
  OBVIOUS
<1>4. \A y \in S : m >= y
  <2> TAKE y \in S
  <2>1. n - y \in Below /\ n - y \in Nat /\ b \in Nat
    BY <1>1
  <2>2. ~(n - y < b)
    BY <1>2, <2>1 DEF Less
  <2> QED
    BY <1>3, <2>2
<1> QED
  BY <1>4 DEF Max

\* ... and a least one.
LEMMA LeastVersion ==
    ASSUME NEW S \in SUBSET Nat, S # {}
    PROVE  Min(S) \in S /\ \A y \in S : Min(S) <= y
<1>1. PICK m \in S : \A y \in S : <<y, m>> \notin Less
  BY WFMin, LessWellFounded
<1>2. \A y \in S : m =< y
  <2> TAKE y \in S
  <2>1. m \in Nat /\ y \in Nat /\ ~(y < m)
    BY <1>1 DEF Less
  <2> QED
    BY <2>1
<1> QED
  BY <1>2 DEF Min

\* What a list returns of a key is nothing, or a version that the server had then.
LEMMA VersionType ==
    ASSUME NEW k, NEW n \in Nat
    PROVE  VersionAt(k, n) \in 0..n
<1> DEFINE es == EventsOf(k, n)
<1>1. es \subseteq 1..n
  BY DEF EventsOf
<1>2. es # {} => Max(es) \in es
  BY <1>1, GreatestVersion
<1> QED
  BY <1>1, <1>2 DEF VersionAt

-----------------------------------------------------------------------------
(* Types                                                                    *)

\* What a goroutine's record can become, in any of its steps.
SameScope(w, r) ==
    /\ r.gk = watchers[w].gk /\ r.ns = watchers[w].ns
    /\ r.st \in {"event", "sending", "crd"} => r.held # 0

\* One goroutine moves.
LEMMA WatcherMoves ==
    ASSUME CacheTypeOK, NEW w \in DOMAIN watchers, NEW r \in WatcherRecords,
           SameScope(w, r), watchers' = [watchers EXCEPT ![w] = r],
           UNCHANGED <<log, gen, syncs>>
    PROVE  WatchersOK'
<1>1. WatcherRecords' = WatcherRecords
  BY DEF WatcherRecords, Versions
<1>2. w \in 1..Len(watchers) /\ watchers \in Seq(WatcherRecords)
  BY LenProperties DEF CacheTypeOK, WatchersOK
<1>3. watchers' \in Seq(WatcherRecords)
  BY <1>2, ExceptSeq
<1>4. \A v \in DOMAIN watchers' :
         v \in DOMAIN watchers /\ watchers'[v] = IF v = w THEN r ELSE watchers[v]
  BY DEF CacheTypeOK
<1> QED
  BY <1>1, <1>3, <1>4 DEF CacheTypeOK, WatchersOK, SameScope

\* What is known of one goroutine.
LEMMA WatcherType ==
    ASSUME CacheTypeOK, NEW w \in DOMAIN watchers
    PROVE  /\ watchers[w] \in WatcherRecords
           /\ <<watchers[w].gk, watchers[w].ns>> \in Watchable
           /\ watchers[w].st \in {"event", "sending", "crd"} => watchers[w].held # 0
BY LenProperties, ElementOfSeq DEF CacheTypeOK, WatchersOK

\* The numbers that the other types are made of.
LEMMA Numbers ==
    ASSUME CacheTypeOK
    PROVE  /\ Len(log) \in Nat /\ gen \in Nat /\ syncs \in Nat
           /\ watchers \in [DOMAIN watchers -> WatcherRecords]
           /\ faults \in 0..MaxFaults /\ MaxFaults \in Nat
BY CacheAssumption, LenProperties DEF CacheTypeOK, WatchersOK

\* A goroutine that is handling an event has one.
LEMMA HeldType ==
    ASSUME CacheTypeOK, NEW w \in DOMAIN watchers,
           watchers[w].st \in {"event", "sending", "crd"}
    PROVE  watchers[w].held \in 1..Len(log)
<1>1. watchers[w] \in WatcherRecords /\ watchers[w].held # 0 /\ Len(log) \in Nat
  BY WatcherType, Numbers
<1> QED
  BY <1>1 DEF WatcherRecords, Versions

\* The events in the buffer of processEvents are in the history.
LEMMA BufferType ==
    ASSUME CacheTypeOK, NEW p \in DOMAIN procs
    PROVE  /\ procs[p] \in ProcRecords /\ procs[p].buf \in Seq(1..Len(log))
           /\ procs[p].buf # <<>> => Head(procs[p].buf) \in 1..Len(log)
<1>1. procs[p] \in ProcRecords
  BY LenProperties, ElementOfSeq DEF CacheTypeOK
<1>2. procs[p].buf \in Seq(1..Len(log))
  BY <1>1 DEF ProcRecords
<1> QED
  BY <1>1, <1>2, HeadTailProperties

\* The events that a watch has still to deliver.
LEMMA NewsType ==
    ASSUME CacheTypeOK, NEW w \in DOMAIN watchers, News(w) # {}
    PROVE  Min(News(w)) \in News(w) /\ Min(News(w)) \in 1..Len(log)
<1>1. watchers[w].rv \in Nat /\ Len(log) \in Nat
  BY WatcherType, Numbers DEF WatcherRecords, Versions
<1>2. \A i \in News(w) : i \in 1..Len(log)
  BY <1>1 DEF News
<1>3. News(w) \subseteq Nat
  BY <1>2
<1> QED
  BY <1>2, <1>3, LeastVersion

\* A goroutine that holds another event, or has listed again.
LEMMA RecordUpdates ==
    ASSUME NEW me \in WatcherRecords, NEW v \in Versions
    PROVE  /\ [me EXCEPT !.st = "loaded", !.rv = v] \in WatcherRecords
           /\ [me EXCEPT !.st = "event", !.rv = v, !.held = v] \in WatcherRecords
BY DEF WatcherRecords

\* A step that changes one goroutine and nothing that is typed by it.
LEMMA WatchType ==
    ASSUME CacheTypeOK, NEW w \in DOMAIN watchers, NEW r \in WatcherRecords,
           SameScope(w, r), watchers' = [watchers EXCEPT ![w] = r],
           faults' \in 0..MaxFaults, UNCHANGED unlessWatchers
    PROVE  CacheTypeOK'
<1>1. WatchersOK'
  BY WatcherMoves DEF unlessWatchers
<1> QED
  BY <1>1 DEF CacheTypeOK, unlessWatchers, ProcRecords, Versions

\* The steps of a goroutine that leave the two maps alone.
LEMMA WatcherStepTypes ==
    ASSUME CacheTypeOK, NEW w \in DOMAIN watchers,
           \/ Stop(w) \/ List(w) \/ Relist(w) \/ Receive(w)
           \/ SendOnClosed(w) \/ NotFound(w)
    PROVE  CacheTypeOK'
<1> USE WatcherType
<1> DEFINE me == watchers[w]
<1>0. /\ Len(log) \in Nat /\ faults \in 0..MaxFaults /\ MaxFaults \in Nat
      /\ watchers \in [DOMAIN watchers -> WatcherRecords]
  BY Numbers
<1>1. CASE Stop(w)
  <2> DEFINE r == [me EXCEPT !.st = "done"]
  <2>1. r \in WatcherRecords /\ SameScope(w, r) /\ watchers' = [watchers EXCEPT ![w] = r]
    BY <1>1 DEF Stop, WatcherRecords, SameScope
  <2> QED
    BY <1>0, <1>1, <2>1, WatchType DEF Stop
<1>2. CASE List(w)
  <2> DEFINE r == [me EXCEPT !.st = "loaded", !.rv = Len(log)]
  <2>1. r \in WatcherRecords /\ SameScope(w, r)
    <3>1. Len(log) \in Versions /\ me \in WatcherRecords
      BY <1>0 DEF Versions
    <3> QED
      BY <3>1, RecordUpdates DEF WatcherRecords, SameScope
  <2>2. watchers' = [watchers EXCEPT ![w] = r]
    BY <1>0, <1>2 DEF List
  <2> QED
    BY <1>0, <1>2, <2>1, <2>2, WatchType DEF List
<1>3. CASE Relist(w)
  <2> DEFINE r == [me EXCEPT !.st = "list"]
  <2>1. r \in WatcherRecords /\ SameScope(w, r) /\ watchers' = [watchers EXCEPT ![w] = r]
    BY <1>3 DEF Relist, WatcherRecords, SameScope
  <2>2. faults' \in 0..MaxFaults
    BY <1>0, <1>3 DEF Relist
  <2> QED
    BY <1>3, <2>1, <2>2, WatchType DEF Relist
<1>4. CASE Receive(w)
  <2> DEFINE i == Min(News(w))
             r == [me EXCEPT !.st = "event", !.rv = i, !.held = i]
  <2>1. i \in 1..Len(log)
    BY <1>4, NewsType DEF Receive
  <2>2. r \in WatcherRecords /\ SameScope(w, r)
    <3>1. i \in Versions /\ i # 0 /\ me \in WatcherRecords
      BY <1>0, <2>1 DEF Versions
    <3> HIDE DEF i
    <3> QED
      BY <3>1, RecordUpdates DEF WatcherRecords, SameScope
  <2>3. watchers' = [watchers EXCEPT ![w] = r]
    BY <1>0, <1>4 DEF Receive
  <2> QED
    BY <1>0, <1>4, <2>2, <2>3, WatchType DEF Receive
<1>5. CASE SendOnClosed(w)
  <2> DEFINE r == [me EXCEPT !.st = "list"]
  <2>1. r \in WatcherRecords /\ SameScope(w, r) /\ watchers' = [watchers EXCEPT ![w] = r]
    BY <1>5 DEF SendOnClosed, WatcherRecords, SameScope
  <2> QED
    BY <1>0, <1>5, <2>1, WatchType DEF SendOnClosed
<1>6. CASE NotFound(w)
  <2> DEFINE r == [me EXCEPT !.retry = "gone"]
  <2>1. r \in WatcherRecords /\ SameScope(w, r) /\ watchers' = [watchers EXCEPT ![w] = r]
    BY <1>6 DEF NotFound, WatcherRecords, SameScope
  <2> QED
    BY <1>0, <1>6, <2>1, WatchType DEF NotFound
<1> QED
  BY <1>1, <1>2, <1>3, <1>4, <1>5, <1>6

-----------------------------------------------------------------------------
(* The two maps                                                             *)

\* Both maps of a store are typed, and agree as IndexAgrees says.
StoreType(s) == s.res \in [Keys -> Versions] /\ s.idx \in [Keys -> Versions]
StoreAgrees(s) ==
    /\ \A k \in Keys : s.res[k] # 0 => s.idx[k] = s.res[k]
    /\ syncs <= 1 => s.idx = s.res

\* What the server has is a version, and so is what it had.
LEMMA ServerType ==
    ASSUME CacheTypeOK, NEW k
    PROVE  Server(k) \in Versions /\ \A n \in Versions : VersionAt(k, n) \in Versions
<1>1. Len(log) \in Nat
  BY Numbers
<1>2. \A n \in Versions : n \in Nat /\ VersionAt(k, n) \in 0..n
  BY <1>1, VersionType DEF Versions
<1>3. \A n \in Versions : VersionAt(k, n) \in Versions
  BY <1>1, <1>2 DEF Versions
<1> QED
  BY <1>1, <1>3 DEF Server, Versions

\* The store of the present state.
LEMMA StoreIsGood ==
    ASSUME CacheTypeOK
    PROVE  StoreType(Store) /\ (StoreAgrees(Store) <=> IndexAgrees)
BY DEF CacheTypeOK, StoreType, StoreAgrees, Store, IndexAgrees

\* setNode and onNodeRemoved keep the two maps in agreement (processEvent).
LEMMA ProcessedIsGood ==
    ASSUME CacheTypeOK, NEW i \in 1..Len(log), NEW s, StoreType(s)
    PROVE  /\ StoreType(Processed(s, i))
           /\ StoreAgrees(s) => StoreAgrees(Processed(s, i))
<1>1. log[i].key \in Keys /\ i \in Versions /\ 0 \in Versions
  <2>1. Len(log) \in Nat /\ log[i] \in [key : Keys, type : {"Added", "Modified", "Deleted"}]
    BY LenProperties, ElementOfSeq DEF CacheTypeOK
  <2> QED
    BY <2>1 DEF Versions
<1> DEFINE k == log[i].key
<1>2. \A v \in Versions :
         /\ StoreType(Set(s, k, v))
         /\ StoreAgrees(s) => StoreAgrees(Set(s, k, v))
  BY <1>1 DEF StoreType, StoreAgrees, Set
<1>3. StoreType(Removed(s, k)) /\ (StoreAgrees(s) => StoreAgrees(Removed(s, k)))
  BY <1>1, <1>2 DEF Removed
<1> QED
  BY <1>1, <1>2, <1>3 DEF Processed

\* So does replaceResourceCache, whatever was listed and for whichever scopes.
LEMMA ReplacedIsGood ==
    ASSUME CacheTypeOK, NEW n \in Versions, NEW scopes, NEW s, StoreType(s)
    PROVE  /\ StoreType(Replaced(s, scopes, n))
           /\ StoreAgrees(s) => StoreAgrees(Replaced(s, scopes, n))
<1>1. \A k \in Keys : VersionAt(k, n) \in Versions
  BY ServerType
<1> QED
  BY <1>1 DEF StoreType, StoreAgrees, Replaced

\* And the setNode of each resource that sync() lists.
LEMMA ListedIsGood ==
    ASSUME CacheTypeOK, NEW gk, NEW ns, NEW s, StoreType(s)
    PROVE  /\ StoreType(Listed(s, gk, ns))
           /\ StoreAgrees(s) => StoreAgrees(Listed(s, gk, ns))
<1>1. \A k \in Keys : Server(k) \in Versions
  BY ServerType
<1> QED
  BY <1>1 DEF StoreType, StoreAgrees, Listed

-----------------------------------------------------------------------------
(* Types: the steps that change the maps, or more than a goroutine          *)

\* A step of a goroutine that may change the maps, stop a kind, or hand an
\* event to processEvents.
LEMMA HandlerType ==
    ASSUME CacheTypeOK, NEW w \in DOMAIN watchers, NEW r \in WatcherRecords,
           SameScope(w, r), watchers' = [watchers EXCEPT ![w] = r],
           faults' \in 0..MaxFaults,
           resources' \in [Keys -> Versions], index' \in [Keys -> Versions],
           apis' \in [Gks -> 0..gen], cancelled' \subseteq Gks \X (1..gen),
           procs' \in Seq(ProcRecords),
           UNCHANGED <<log, locked, status, apisNil, gen, toList, channel, closed, syncs>>
    PROVE  CacheTypeOK'
<1>1. WatchersOK'
  BY WatcherMoves
<1>2. ProcRecords' = ProcRecords /\ Versions' = Versions
  BY DEF ProcRecords, Versions
<1> QED
  BY <1>1, <1>2 DEF CacheTypeOK

\* The two maps after a step that sets them to a store.
LEMMA SetStoreType ==
    ASSUME NEW s, StoreType(s), SetStore(s)
    PROVE  resources' \in [Keys -> Versions] /\ index' \in [Keys -> Versions]
BY DEF StoreType, SetStore

\* What a goroutine does next is one of its states.
LEMMA HandledType ==
    ASSUME NEW me \in WatcherRecords, NEW i
    PROVE  [me EXCEPT !.st = Handled(i)] \in WatcherRecords
BY DEF WatcherRecords, Handled

\* Replace: the second half of loadInitialState.
LEMMA ReplaceType ==
    ASSUME CacheTypeOK, NEW w \in DOMAIN watchers, Replace(w)
    PROVE  CacheTypeOK'
<1> DEFINE me == watchers[w]
           r == [me EXCEPT !.st = "watch"]
           s == Replaced(Store, {<<me.gk, me.ns>>}, me.rv)
<1>1. me \in WatcherRecords
  BY WatcherType
<1>2. me.rv \in Versions
  BY <1>1 DEF WatcherRecords
<1>3. StoreType(s)
  BY <1>2, StoreIsGood, ReplacedIsGood
<1>4. resources' \in [Keys -> Versions] /\ index' \in [Keys -> Versions]
  BY <1>3, SetStoreType DEF Replace
<1>5. r \in WatcherRecords /\ SameScope(w, r) /\ watchers' = [watchers EXCEPT ![w] = r]
  BY <1>1 DEF Replace, WatcherRecords, SameScope
<1> QED
  BY <1>4, <1>5, HandlerType DEF Replace, CacheTypeOK

\* Record: recordEvent, with or without the batch.
LEMMA RecordType ==
    ASSUME CacheTypeOK, NEW w \in DOMAIN watchers, Record(w)
    PROVE  CacheTypeOK'
<1> DEFINE me == watchers[w]
           i == me.held
           done == [me EXCEPT !.st = Handled(i)]
           sends == [me EXCEPT !.st = "sending", !.chan = channel]
<1>1. me \in WatcherRecords /\ i # 0 /\ watchers \in [DOMAIN watchers -> WatcherRecords]
  BY WatcherType, Numbers DEF Record
<1>2. i \in 1..Len(log)
  BY HeldType DEF Record
<1>3. done \in WatcherRecords /\ SameScope(w, done)
  BY <1>1, HandledType DEF WatcherRecords, SameScope
<1>4. sends \in WatcherRecords /\ SameScope(w, sends)
  <2>1. channel \in 0..syncs
    BY DEF CacheTypeOK
  <2> QED
    BY <1>1, <2>1 DEF WatcherRecords, SameScope
<1>5. CASE watchers' = [watchers EXCEPT ![w] = done] /\ UNCHANGED <<resources, index>>
  BY <1>3, <1>5, HandlerType DEF Record, CacheTypeOK
<1>6. CASE watchers' = [watchers EXCEPT ![w] = done] /\ SetStore(Processed(Store, i))
  <2>1. resources' \in [Keys -> Versions] /\ index' \in [Keys -> Versions]
    BY <1>2, <1>6, StoreIsGood, ProcessedIsGood, SetStoreType
  <2> QED
    BY <1>3, <1>6, <2>1, HandlerType DEF Record, CacheTypeOK
<1>7. CASE watchers' = [watchers EXCEPT ![w] = sends] /\ UNCHANGED <<resources, index>>
  BY <1>4, <1>7, HandlerType DEF Record, CacheTypeOK
<1> QED
  BY <1>1, <1>5, <1>6, <1>7 DEF Record

\* Send: an event goes into the buffer of processEvents.
LEMMA SendType ==
    ASSUME CacheTypeOK, NEW w \in DOMAIN watchers, NEW p \in DOMAIN procs, Send(w, p)
    PROVE  CacheTypeOK'
<1> DEFINE me == watchers[w]
           r == [me EXCEPT !.st = Handled(me.held)]
           q == [procs[p] EXCEPT !.buf = Append(procs[p].buf, me.held)]
<1>1. me \in WatcherRecords /\ me.held # 0
  BY WatcherType DEF Send
<1>2. me.held \in 1..Len(log)
  BY HeldType DEF Send
<1>3. r \in WatcherRecords /\ SameScope(w, r) /\ watchers' = [watchers EXCEPT ![w] = r]
  BY <1>1, HandledType DEF Send, WatcherRecords, SameScope
<1>4. procs \in Seq(ProcRecords) /\ p \in 1..Len(procs) /\ procs[p] \in ProcRecords
  BY LenProperties, ElementOfSeq DEF CacheTypeOK
<1>5. Append(procs[p].buf, me.held) \in Seq(1..Len(log))
  BY <1>2, <1>4, AppendProperties DEF ProcRecords
<1>6. q \in ProcRecords /\ procs' = [procs EXCEPT ![p] = q]
  BY <1>4, <1>5 DEF ProcRecords, Send
<1>7. procs' \in Seq(ProcRecords)
  BY <1>4, <1>6, ExceptSeq
<1> QED
  BY <1>3, <1>7, HandlerType DEF Send, CacheTypeOK

\* StopWatching: stopWatching.
LEMMA StopWatchingType ==
    ASSUME CacheTypeOK, NEW w \in DOMAIN watchers, StopWatching(w)
    PROVE  CacheTypeOK'
<1> DEFINE me == watchers[w]
           r == [me EXCEPT !.retry = IF apis[me.gk] = 0 THEN "open" ELSE "closed"]
           s == Replaced(Store, {<<me.gk, me.ns>>}, 0)
<1>1. me \in WatcherRecords /\ me.gk \in Gks /\ watchers \in [DOMAIN watchers -> WatcherRecords]
  BY WatcherType, Numbers DEF WatcherRecords
<1>2. r \in WatcherRecords /\ SameScope(w, r)
  BY <1>1, WatcherType DEF WatcherRecords, SameScope
<1>3. watchers' = [watchers EXCEPT ![w] = r]
  BY <1>1 DEF StopWatching
<1>4. CASE UNCHANGED <<cancelled, apis, resources, index>>
  BY <1>2, <1>3, <1>4, HandlerType DEF StopWatching, CacheTypeOK
<1>5. CASE /\ apis[me.gk] # 0
           /\ cancelled' = cancelled \cup {<<me.gk, apis[me.gk]>>}
           /\ apis' = [apis EXCEPT ![me.gk] = 0]
           /\ SetStore(s)
  <2>1. 0 \in Versions
    BY Numbers DEF Versions
  <2>2. resources' \in [Keys -> Versions] /\ index' \in [Keys -> Versions]
    BY <1>5, <2>1, StoreIsGood, ReplacedIsGood, SetStoreType
  <2>3. apis' \in [Gks -> 0..gen] /\ apis[me.gk] \in 1..gen
    BY <1>1, <1>5 DEF CacheTypeOK
  <2>4. cancelled' \subseteq Gks \X (1..gen)
    BY <1>1, <1>5, <2>3 DEF CacheTypeOK
  <2> QED
    BY <1>2, <1>3, <2>2, <2>3, <2>4, HandlerType DEF StopWatching, CacheTypeOK
<1> QED
  BY <1>4, <1>5 DEF StopWatching

\* CrdEvent: a CRD event that starts nothing.
LEMMA CrdEventType ==
    ASSUME CacheTypeOK, NEW w \in DOMAIN watchers, CrdEvent(w)
    PROVE  CacheTypeOK'
<1> DEFINE me == watchers[w]
           r(st) == [me EXCEPT !.st = st]
<1>1. PICK st \in {"watch", "list"} : watchers' = [watchers EXCEPT ![w] = r(st)]
  BY DEF CrdEvent
<1>2. me \in WatcherRecords
  BY WatcherType
<1>3. r(st) \in WatcherRecords /\ SameScope(w, r(st))
  BY <1>2 DEF WatcherRecords, SameScope
<1>4. UNCHANGED <<resources, index, apis, gen>>
  BY DEF CrdEvent
<1>5. faults' \in 0..MaxFaults
  BY Numbers DEF CrdEvent
<1> QED
  BY <1>1, <1>3, <1>4, <1>5, HandlerType DEF CrdEvent, CacheTypeOK

\* ProcStep: the goroutine of processEvents.
LEMMA ProcType ==
    ASSUME CacheTypeOK, NEW p \in DOMAIN procs, ProcStep(p)
    PROVE  CacheTypeOK'
<1>1. procs \in Seq(ProcRecords) /\ p \in 1..Len(procs) /\ procs[p] \in ProcRecords
  BY LenProperties, ElementOfSeq DEF CacheTypeOK
<1>2. procs \in [DOMAIN procs -> ProcRecords]
  BY <1>1, LenProperties
<1>3. SUFFICES ASSUME NEW q \in ProcRecords, procs' = [procs EXCEPT ![p] = q],
                      resources' \in [Keys -> Versions], index' \in [Keys -> Versions],
                      UNCHANGED unlessProcs
               PROVE  CacheTypeOK'
  <2>1. CASE ProcStart(p)
    <3> DEFINE q == [procs[p] EXCEPT !.st = "run", !.chan = channel]
    <3>1. channel \in 0..syncs
      BY DEF CacheTypeOK
    <3>2. q \in ProcRecords
      BY <1>1, <3>1 DEF ProcRecords
    <3> QED
      BY <1>2, <1>3, <2>1, <3>2 DEF ProcStart, CacheTypeOK
  <2>2. CASE ProcEnd(p)
    <3> DEFINE q == [procs[p] EXCEPT !.st = "done", !.buf = <<>>]
    <3>1. <<>> \in Seq(1..Len(log))
      BY EmptySeq
    <3>2. q \in ProcRecords
      BY <1>1, <3>1 DEF ProcRecords
    <3> QED
      BY <1>2, <1>3, <2>2, <3>2 DEF ProcEnd, CacheTypeOK
  <2>3. CASE Flush(p)
    <3> DEFINE buf == procs[p].buf
               st == IF Len(buf) = 1 THEN "run" ELSE "flush"
               q == [procs[p] EXCEPT !.st = st, !.buf = Tail(buf)]
    <3>1. buf \in Seq(1..Len(log)) /\ buf # <<>>
      BY <2>3, BufferType DEF Flush
    <3>2. Head(buf) \in 1..Len(log) /\ Tail(buf) \in Seq(1..Len(log))
      BY <3>1, HeadTailProperties
    <3>3. q \in ProcRecords
      <4>1. st \in {"run", "flush"}
        OBVIOUS
      <4> HIDE DEF st
      <4> QED
        BY <1>1, <3>2, <4>1 DEF ProcRecords
    <3>4. resources' \in [Keys -> Versions] /\ index' \in [Keys -> Versions]
      BY <2>3, <3>2, StoreIsGood, ProcessedIsGood, SetStoreType DEF Flush
    <3>5. procs' = [procs EXCEPT ![p] = q]
      BY <1>2, <2>3 DEF Flush
    <3> QED
      BY <1>3, <2>3, <3>3, <3>4, <3>5 DEF Flush
  <2> QED
    BY <2>1, <2>2, <2>3 DEF ProcStep
<1>4. procs' \in Seq(ProcRecords)
  BY <1>1, <1>3, ExceptSeq
<1>5. WatchersOK' /\ ProcRecords' = ProcRecords /\ Versions' = Versions
  BY <1>3 DEF CacheTypeOK, WatchersOK, WatcherRecords, ProcRecords, Versions, unlessProcs
<1> QED
  BY <1>3, <1>4, <1>5 DEF CacheTypeOK, unlessProcs

\* Versions, contexts and channels are only ever added.
LEMMA Growth ==
    ASSUME CacheTypeOK, Len(log') \in Nat, Len(log) <= Len(log'),
           gen' \in Nat, gen <= gen', syncs' \in Nat, syncs <= syncs'
    PROVE  /\ WatcherRecords \subseteq WatcherRecords'
           /\ ProcRecords \subseteq ProcRecords'
           /\ Versions \subseteq Versions'
           /\ 0..gen \subseteq 0..gen' /\ 1..gen \subseteq 1..gen'
<1>1. /\ Versions \subseteq Versions' /\ 1..Len(log) \subseteq 1..Len(log')
      /\ 1..gen \subseteq 1..gen' /\ 0..gen \subseteq 0..gen'
      /\ 0..syncs \subseteq 0..syncs'
  BY Numbers DEF Versions
<1>2. WatcherRecords \subseteq WatcherRecords'
  BY <1>1 DEF WatcherRecords
<1>3. \A b \in Seq(1..Len(log)) : b \in Seq(1..Len(log'))
  BY <1>1, SeqMonotonic
<1>4. ProcRecords \subseteq ProcRecords'
  BY <1>1, <1>3 DEF ProcRecords
<1> QED
  BY <1>1, <1>2, <1>4

\* Goroutines that do not move keep their types as the history grows.
LEMMA GoroutinesGrow ==
    ASSUME CacheTypeOK, Len(log') \in Nat, Len(log) <= Len(log'),
           gen' \in Nat, gen <= gen', syncs' \in Nat, syncs <= syncs'
    PROVE  /\ watchers' = watchers => WatchersOK'
           /\ procs' = procs => procs' \in Seq(ProcRecords')
<1>1. watchers \in Seq(WatcherRecords') /\ procs \in Seq(ProcRecords')
  BY Growth, SeqMonotonic DEF CacheTypeOK, WatchersOK
<1> QED
  BY <1>1 DEF CacheTypeOK, WatchersOK

\* The API server moves on.
LEMMA EventType ==
    ASSUME CacheTypeOK, NEW k \in Keys, NEW type \in {"Added", "Modified", "Deleted"},
           Event(k, type)
    PROVE  CacheTypeOK'
<1> DEFINE Entries == [key : Keys, type : {"Added", "Modified", "Deleted"}]
           e == [key |-> k, type |-> type]
<1>1. log \in Seq(Entries) /\ e \in Entries /\ log' = Append(log, e)
  BY DEF CacheTypeOK, Event
<1>2. log' \in Seq(Entries) /\ Len(log') = Len(log) + 1
  BY <1>1, AppendProperties
<1>3. Len(log') \in Nat /\ Len(log) <= Len(log') /\ gen \in Nat /\ syncs \in Nat
  BY <1>2, Numbers
<1>4. UNCHANGED unlessLog
  BY DEF Event
<1>5. gen' \in Nat /\ gen <= gen' /\ syncs' \in Nat /\ syncs <= syncs'
  BY <1>3, <1>4 DEF unlessLog
<1>6. WatchersOK' /\ procs' \in Seq(ProcRecords') /\ Versions \subseteq Versions'
  BY <1>3, <1>4, <1>5, Growth, GoroutinesGrow DEF unlessLog
<1>7. resources' \in [Keys -> Versions'] /\ index' \in [Keys -> Versions']
  BY <1>4, <1>6 DEF CacheTypeOK, unlessLog
<1> QED
  BY <1>2, <1>4, <1>6, <1>7 DEF CacheTypeOK, unlessLog

\* Expire and Invalidate.
LEMMA InvalidateType ==
    ASSUME CacheTypeOK, Expire \/ Invalidate
    PROVE  CacheTypeOK'
<1>1. WatchersOK' /\ ProcRecords' = ProcRecords /\ Versions' = Versions
  BY DEF CacheTypeOK, WatchersOK, WatcherRecords, ProcRecords, Versions, Expire, Invalidate
<1>2. CASE Expire
  BY <1>1, <1>2 DEF CacheTypeOK, Expire
<1>3. CASE Invalidate
  <2>1. Contexts \subseteq Gks \X (1..gen)
    BY DEF CacheTypeOK, Contexts
  <2>2. closed' \subseteq 1..syncs
    BY <1>3 DEF CacheTypeOK, Invalidate, CloseChannel
  <2>3. apis' \in [Gks -> 0..gen]
    BY <1>3 DEF CacheTypeOK, Invalidate
  <2>4. 0 \in 0..syncs
    BY Numbers
  <2> QED
    BY <1>1, <1>3, <2>1, <2>2, <2>3, <2>4 DEF CacheTypeOK, Invalidate
<1> QED
  BY <1>2, <1>3

\* SyncStart: sync(), up to the listing of the APIs.
LEMMA SyncStartType ==
    ASSUME CacheTypeOK, SyncStart
    PROVE  CacheTypeOK'
<1> DEFINE q == [st |-> "start", chan |-> 0, buf |-> <<>>]
<1>1. /\ syncs \in Nat /\ syncs < MaxSyncs /\ MaxSyncs \in Nat /\ syncs' = syncs + 1
      /\ UNCHANGED <<log, index, watchers>> /\ Len(log) \in Nat
  BY Numbers, CacheAssumption DEF SyncStart
<1>2. gen' \in Nat /\ gen <= gen'
  BY Numbers DEF SyncStart
<1>3. /\ Versions' = Versions /\ WatchersOK'
      /\ procs' = procs => procs' \in Seq(ProcRecords')
      /\ ProcRecords \subseteq ProcRecords' /\ 1..gen \subseteq 1..gen'
  BY <1>1, <1>2, Growth, GoroutinesGrow DEF Versions
<1>4. procs' \in Seq(ProcRecords')
  <2>1. procs \in Seq(ProcRecords')
    BY <1>3, SeqMonotonic DEF CacheTypeOK
  <2>2. q \in ProcRecords'
    <3>1. <<>> \in Seq(1..Len(log')) /\ 0 \in 0..syncs'
      BY <1>1, EmptySeq
    <3> QED
      BY <3>1 DEF ProcRecords
  <2> QED
    BY <2>1, <2>2, AppendProperties DEF SyncStart
<1>5. cancelled' \subseteq Gks \X (1..gen')
  <2>1. Contexts \subseteq Gks \X (1..gen)
    BY DEF CacheTypeOK, Contexts
  <2> QED
    BY <1>3, <2>1 DEF CacheTypeOK, SyncStart
<1>6. closed' \subseteq 1..syncs' /\ channel' \in 0..syncs'
  <2>1. channel \in 0..syncs /\ closed \subseteq 1..syncs
    BY DEF CacheTypeOK
  <2>2. channel' \in {0, syncs'}
    BY DEF SyncStart
  <2>3. closed' \in {closed, closed \cup {channel}} /\ (channel = 0 => closed' = closed)
    BY DEF SyncStart, CloseChannel
  <2>4. 1..syncs \subseteq 1..syncs'
    BY <1>1
  <2>5. channel' \in 0..syncs'
    BY <1>1, <2>2
  <2>6. channel # 0 => channel \in 1..syncs
    BY <1>1, <2>1
  <2> QED
    BY <2>1, <2>3, <2>4, <2>5, <2>6
<1>7. apis' \in [Gks -> 0..gen']
  BY <1>2, Numbers DEF SyncStart
<1>8. toList' \subseteq Watchable
  BY DEF SyncStart, Watchable, CacheTypeOK
<1>9. resources' \in [Keys -> Versions'] /\ index' \in [Keys -> Versions']
  BY <1>1, <1>3 DEF SyncStart, CacheTypeOK, Versions
<1>10. /\ locked' \in BOOLEAN /\ apisNil' \in BOOLEAN
       /\ status' \in {"unsynced", "synced", "error"}
       /\ faults' \in 0..MaxFaults
       /\ locked' => gen' # 0
  <2>1. /\ locked = FALSE /\ status = "unsynced" /\ gen \in Nat
        /\ faults \in 0..MaxFaults /\ MaxFaults \in Nat
    BY Numbers DEF SyncStart, Free, CacheTypeOK
  <2>2. \/ gen' = gen + 1 /\ locked' = TRUE /\ UNCHANGED <<status, faults>>
        \/ /\ faults < MaxFaults /\ faults' = faults + 1
           /\ status' = "error" /\ locked' = locked
    BY DEF SyncStart
  <2>3. apisNil' \in BOOLEAN
    BY DEF SyncStart
  <2>4. faults' \in 0..MaxFaults
    BY <2>1, <2>2
  <2>5. locked' => gen' # 0
    <3>1. gen + 1 # 0
      BY <2>1
    <3> QED
      BY <2>1, <2>2, <3>1, Zenon
  <2> QED
    BY <2>1, <2>2, <2>3, <2>4, <2>5
<1> QED
  BY <1>1, <1>2, <1>3, <1>4, <1>5, <1>6, <1>7, <1>8, <1>9, <1>10 DEF CacheTypeOK

\* SyncList: one API in one namespace.
LEMMA SyncListType ==
    ASSUME CacheTypeOK, NEW p \in toList, SyncList(p[1], p[2])
    PROVE  CacheTypeOK'
<1> DEFINE r == Watcher(p[1], p[2], gen, "watch", Len(log))
<1>1. p \in Watchable /\ p = <<p[1], p[2]>> /\ p[1] \in Gks /\ p[2] \in Namespaces
  BY DEF CacheTypeOK, Watchable, Namespaces
<1>2. /\ WatcherRecords' = WatcherRecords /\ ProcRecords' = ProcRecords
      /\ Versions' = Versions /\ Len(log) \in Versions /\ 0 \in Versions
      /\ gen \in 1..gen /\ 0 \in 0..syncs
  BY Numbers DEF WatcherRecords, ProcRecords, Versions, SyncList, CacheTypeOK
<1>3. r \in WatcherRecords
  BY <1>1, <1>2 DEF WatcherRecords, Watcher
<1>4. CASE watchers' = Append(watchers, r) /\ SetStore(Listed(Store, p[1], p[2]))
           /\ UNCHANGED apis
  <2>1. watchers \in Seq(WatcherRecords)
    BY DEF CacheTypeOK, WatchersOK
  <2>2. watchers' \in Seq(WatcherRecords)
    BY <1>3, <1>4, <2>1, AppendProperties
  <2>3. \A v \in DOMAIN watchers' :
           watchers'[v] = r \/ (v \in DOMAIN watchers /\ watchers'[v] = watchers[v])
    BY <1>3, <1>4, <2>1, <2>2, AppendProperties, LenProperties
  <2>4. <<r.gk, r.ns>> \in Watchable /\ r.st \notin {"event", "sending", "crd"}
    BY <1>1 DEF Watcher
  <2>5. WatchersOK'
    BY <1>2, <2>2, <2>3, <2>4 DEF CacheTypeOK, WatchersOK
  <2>6. resources' \in [Keys -> Versions] /\ index' \in [Keys -> Versions]
    BY <1>4, StoreIsGood, ListedIsGood, SetStoreType
  <2> QED
    BY <1>2, <1>4, <2>5, <2>6 DEF CacheTypeOK, SyncList
<1>5. CASE apis' = [apis EXCEPT ![p[1]] = 0] /\ UNCHANGED <<resources, index, watchers>>
  <2>1. apis' \in [Gks -> 0..gen]
    <3>1. 0 \in 0..gen /\ apis \in [Gks -> 0..gen]
      BY Numbers DEF CacheTypeOK
    <3> QED
      BY <1>5, <3>1
  <2>2. WatchersOK'
    BY <1>2, <1>5 DEF CacheTypeOK, WatchersOK
  <2> QED
    BY <1>2, <1>5, <2>1, <2>2 DEF CacheTypeOK, SyncList
<1> QED
  BY <1>4, <1>5 DEF SyncList

\* SyncSucceeds and SyncFails.
LEMMA SyncEndType ==
    ASSUME CacheTypeOK, SyncSucceeds \/ SyncFails
    PROVE  CacheTypeOK'
<1>1. /\ UNCHANGED <<log, apisNil, gen, cancelled, resources, index, watchers, channel,
                     closed, procs, syncs>>
      /\ locked' = FALSE /\ toList' = {} /\ status' \in {"synced", "error"}
  BY DEF SyncSucceeds, SyncFails, SyncEnd
<1>2. WatchersOK' /\ ProcRecords' = ProcRecords /\ Versions' = Versions
  BY <1>1 DEF CacheTypeOK, WatchersOK, WatcherRecords, ProcRecords, Versions
<1>3. apis' \in [Gks -> 0..gen]
  <2>1. 0 \in 0..gen /\ apis \in [Gks -> 0..gen]
    BY Numbers DEF CacheTypeOK
  <2> QED
    BY <2>1 DEF SyncSucceeds, SyncFails
<1>4. faults' \in 0..MaxFaults
  BY Numbers DEF SyncSucceeds, SyncFails
<1> QED
  BY <1>1, <1>2, <1>3, <1>4 DEF CacheTypeOK

\* The <<kind, namespace>> of startMissingWatches come in some order.
LEMMA GrantedInOrder ==
    /\ Granted \subseteq Watchable
    /\ SetToSeq(Granted) \in Seq(Granted)
    /\ \A c \in Granted : c = <<c[1], c[2]>> /\ c[1] \in Missing /\ c[2] \in Scopes[c[1]]
<1>1. Granted \subseteq Watchable /\ IsFiniteSet(Granted)
  <2>1. Granted \in SUBSET Watchable
    BY DEF Granted, Missing, Watchable
  <2> QED
    BY <2>1, CacheAssumption, FS_Subset
<1>2. PICK f \in Bijection(1..Cardinality(Granted), Granted) : TRUE
  BY <1>1, FS_CardinalityType DEF ExistsBijection
<1>3. f \in [1..Cardinality(Granted) -> Granted] /\ IsInjective(f)
  BY <1>2 DEF Bijection, Injection, IsInjective
<1>4. SetToSeq(Granted) \in [1..Cardinality(Granted) -> Granted]
  BY <1>3 DEF SetToSeq
<1>5. Cardinality(Granted) \in Nat
  BY <1>1, FS_CardinalityType
<1>6. SetToSeq(Granted) \in Seq(Granted)
  BY <1>4, <1>5, SeqDef
<1> QED
  BY <1>1, <1>6 DEF Granted

\* The goroutines that startMissingWatches starts.
Started(failed) ==
    LET scopes == SetToSeq(Granted) IN
    [j \in 1..Len(scopes) |->
        Watcher(scopes[j][1], scopes[j][2], gen',
                IF scopes[j] \in failed THEN "list" ELSE "watch", Len(log))]

\* A sync that starts leaves the cluster cache well-formed.
LEMMA StartedType ==
    ASSUME CacheTypeOK, NEW failed, gen' = gen + 1, UNCHANGED <<log, syncs>>
    PROVE  /\ Started(failed) \in Seq(WatcherRecords')
           /\ \A j \in DOMAIN Started(failed) :
                 LET r == Started(failed)[j] IN
                 /\ <<r.gk, r.ns>> \in Granted
                 /\ r.gen = gen' /\ r.st \in {"list", "watch"}
<1> DEFINE scopes == SetToSeq(Granted)
           r(j) == Watcher(scopes[j][1], scopes[j][2], gen',
                           IF scopes[j] \in failed THEN "list" ELSE "watch", Len(log))
<1>1. Len(scopes) \in Nat /\ \A j \in 1..Len(scopes) : scopes[j] \in Granted
  BY GrantedInOrder, LenProperties, ElementOfSeq
<1>2. /\ Len(log) \in Versions' /\ 0 \in Versions' /\ 0 \in 0..syncs' /\ gen' \in 1..gen'
  BY Numbers DEF Versions
<1>3. ASSUME NEW j \in 1..Len(scopes)
      PROVE  /\ r(j) \in WatcherRecords' /\ <<r(j).gk, r(j).ns>> \in Granted
             /\ r(j).gen = gen' /\ r(j).st \in {"list", "watch"}
  <2> DEFINE c == scopes[j]
  <2>1. c \in Granted /\ c = <<c[1], c[2]>> /\ c[1] \in Gks /\ c[2] \in Namespaces
    BY <1>1, GrantedInOrder DEF Missing, Namespaces
  <2> HIDE DEF c
  <2> DEFINE x == Watcher(c[1], c[2], gen', IF c \in failed THEN "list" ELSE "watch", Len(log))
  <2>2. x \in WatcherRecords'
    BY <1>2, <2>1 DEF WatcherRecords, Watcher
  <2>3. <<x.gk, x.ns>> \in Granted /\ x.gen = gen' /\ x.st \in {"list", "watch"}
    BY <2>1 DEF Watcher
  <2> QED
    BY <2>2, <2>3 DEF c
<1>4. Started(failed) = [j \in 1..Len(scopes) |-> r(j)]
  BY DEF Started
<1> HIDE DEF scopes, r
<1>5. Started(failed) \in [1..Len(scopes) -> WatcherRecords']
  BY <1>3, <1>4
<1>6. Started(failed) \in Seq(WatcherRecords')
  BY <1>1, <1>5, SeqDef
<1> QED
  BY <1>3, <1>4, <1>6

\* What startMissingWatches makes of the goroutines: the caller watches again, and
\* the others are as they were, or new.
LEMMA StartedWatchers ==
    ASSUME CacheTypeOK, NEW w \in DOMAIN watchers, StartMissingWatches(w)
    PROVE  /\ watchers' \in Seq(WatcherRecords')
           /\ \A v \in DOMAIN watchers' :
                 \/ /\ v \in DOMAIN watchers
                    /\ watchers'[v] = IF v = w THEN [watchers[w] EXCEPT !.st = "watch"]
                                               ELSE watchers[v]
                 \/ /\ <<watchers'[v].gk, watchers'[v].ns>> \in Granted
                    /\ watchers'[v].gen = gen' /\ watchers'[v].st \in {"list", "watch"}
<1> DEFINE r == [watchers[w] EXCEPT !.st = "watch"]
           moved == [watchers EXCEPT ![w] = r]
<1>1. PICK failed \in SUBSET Granted : watchers' = moved \o Started(failed)
  BY DEF StartMissingWatches, Started
<1>2. /\ gen' = gen + 1 /\ UNCHANGED <<log, syncs>>
      /\ gen \in Nat /\ Len(log) \in Nat /\ syncs \in Nat
  BY Numbers DEF StartMissingWatches
<1>3. /\ WatcherRecords \subseteq WatcherRecords'
      /\ watchers \in Seq(WatcherRecords) /\ w \in 1..Len(watchers)
  <2>1. WatcherRecords \subseteq WatcherRecords'
    BY <1>2, Growth
  <2> QED
    BY <2>1, LenProperties DEF CacheTypeOK, WatchersOK
<1>4. r \in WatcherRecords'
  <2>1. r \in WatcherRecords
    BY WatcherType DEF WatcherRecords
  <2> QED
    BY <1>3, <2>1
<1>5. watchers \in Seq(WatcherRecords')
  BY <1>3, SeqMonotonic
<1>6. /\ moved \in Seq(WatcherRecords') /\ Len(moved) = Len(watchers)
      /\ \A v \in 1..Len(watchers) : moved[v] = IF v = w THEN r ELSE watchers[v]
  BY <1>3, <1>4, <1>5, ExceptSeq
<1> DEFINE new == Started(failed)
<1>7. /\ new \in Seq(WatcherRecords')
      /\ \A j \in 1..Len(new) : /\ <<new[j].gk, new[j].ns>> \in Granted
                                /\ new[j].gen = gen' /\ new[j].st \in {"list", "watch"}
  <2>1. /\ new \in Seq(WatcherRecords')
        /\ \A j \in DOMAIN new : /\ <<new[j].gk, new[j].ns>> \in Granted
                                 /\ new[j].gen = gen' /\ new[j].st \in {"list", "watch"}
    BY <1>2, StartedType
  <2> QED
    BY <2>1, LenProperties
<1>8. Len(watchers) \in Nat /\ Len(new) \in Nat /\ DOMAIN watchers = 1..Len(watchers)
  BY <1>3, <1>7, LenProperties
<1>11. watchers' = moved \o new
  BY <1>1
<1> HIDE DEF new, moved
<1>9. /\ watchers' \in Seq(WatcherRecords') /\ Len(watchers') = Len(watchers) + Len(new)
      /\ \A v \in 1..Len(watchers) + Len(new) :
            watchers'[v] = IF v <= Len(watchers) THEN moved[v] ELSE new[v - Len(watchers)]
  <2>1. /\ moved \o new \in Seq(WatcherRecords')
        /\ Len(moved \o new) = Len(moved) + Len(new)
        /\ \A v \in 1..Len(moved) + Len(new) :
              (moved \o new)[v] = IF v <= Len(moved) THEN moved[v] ELSE new[v - Len(moved)]
    <3>1. moved \in Seq(WatcherRecords') /\ new \in Seq(WatcherRecords')
      BY <1>6, <1>7
    <3> HIDE <1>6, <1>7
    <3> QED
      BY <3>1, ConcatProperties, Zenon
  <2>2. Len(moved) = Len(watchers)
    BY <1>6
  <2> QED
    BY <1>11, <2>1, <2>2, Zenon
<1>10. ASSUME NEW v \in DOMAIN watchers'
       PROVE  \/ v \in DOMAIN watchers /\ watchers'[v] = IF v = w THEN r ELSE watchers[v]
              \/ \E j \in 1..Len(new) : watchers'[v] = new[j]
  <2>1. v \in 1..Len(watchers) + Len(new)
    BY <1>9, LenProperties
  <2>2. CASE v <= Len(watchers)
    BY <1>6, <1>8, <1>9, <2>1, <2>2
  <2>3. CASE ~(v <= Len(watchers))
    <3>1. v - Len(watchers) \in 1..Len(new)
      BY <1>8, <2>1, <2>3
    <3> QED
      BY <1>9, <2>1, <2>3, <3>1
  <2> QED
    BY <2>2, <2>3
<1> QED
  BY <1>7, <1>9, <1>10

\* StartMissingWatches: startMissingWatches.
LEMMA StartMissingType ==
    ASSUME CacheTypeOK, NEW w \in DOMAIN watchers, StartMissingWatches(w)
    PROVE  CacheTypeOK'
<1>1. PICK failed \in SUBSET Granted :
         SetStore(Replaced(Store, Granted \ failed, Len(log)))
  BY DEF StartMissingWatches
<1>2. /\ gen' = gen + 1 /\ Len(log) \in Versions
      /\ UNCHANGED <<log, syncs, procs, cancelled, toList, locked, channel, closed,
                     status, apisNil>>
      /\ gen \in Nat /\ Len(log) \in Nat /\ syncs \in Nat
  BY Numbers DEF StartMissingWatches, Versions
<1>3. /\ 1..gen \subseteq 1..gen' /\ 0..gen \subseteq 0..gen' /\ gen' \in 0..gen'
      /\ procs' \in Seq(ProcRecords') /\ Versions' = Versions
  BY <1>2, Growth, GoroutinesGrow DEF Versions
<1>4. resources' \in [Keys -> Versions] /\ index' \in [Keys -> Versions]
  BY <1>1, <1>2, StoreIsGood, ReplacedIsGood, SetStoreType
<1>5. apis' \in [Gks -> 0..gen']
  <2>1. \A gk \in Gks : apis[gk] \in 0..gen'
    BY <1>3 DEF CacheTypeOK
  <2> QED
    BY <1>3, <2>1 DEF StartMissingWatches
<1>6. faults' \in 0..MaxFaults
  <2>1. PICK f \in SUBSET Granted :
           (f # {} => faults < MaxFaults) /\ faults' = IF f = {} THEN faults ELSE faults + 1
    BY DEF StartMissingWatches
  <2> QED
    BY <2>1, Numbers
<1>7. WatchersOK'
  <2>1. /\ watchers' \in Seq(WatcherRecords')
        /\ \A v \in DOMAIN watchers' :
              /\ <<watchers'[v].gk, watchers'[v].ns>> \in Watchable
              /\ watchers'[v].st \in {"event", "sending", "crd"} => watchers'[v].held # 0
    <3>1. ASSUME NEW v \in DOMAIN watchers'
          PROVE  /\ <<watchers'[v].gk, watchers'[v].ns>> \in Watchable
                 /\ watchers'[v].st \in {"event", "sending", "crd"} => watchers'[v].held # 0
      <4>1. CASE v \in DOMAIN watchers /\ watchers'[v] = watchers[v]
        BY <4>1, WatcherType
      <4>2. CASE watchers'[v] = [watchers[w] EXCEPT !.st = "watch"]
        BY <4>2, WatcherType DEF WatcherRecords
      <4>3. CASE /\ <<watchers'[v].gk, watchers'[v].ns>> \in Granted
                 /\ watchers'[v].st \in {"list", "watch"}
        BY <4>3, GrantedInOrder
      <4> QED
        BY <4>1, <4>2, <4>3, StartedWatchers
    <3> QED
      BY <3>1, StartedWatchers
  <2> QED
    BY <2>1 DEF WatchersOK, Watchable
<1> QED
  BY <1>2, <1>3, <1>4, <1>5, <1>6, <1>7 DEF CacheTypeOK

\* In its first state the cache is empty.
LEMMA CacheTypeInit == Init => CacheTypeOK
<1> SUFFICES ASSUME Init PROVE CacheTypeOK
  OBVIOUS
<1> DEFINE Entries == [key : Keys, type : {"Added", "Modified", "Deleted"}]
<1>1. log \in Seq(Entries) /\ Len(log) \in Nat
  <2>1. CASE log = <<>>
    BY <2>1, EmptySeq
  <2>2. CASE \E k \in Mutations : log = <<[key |-> k, type |-> "Added"]>>
    BY <2>2, CacheAssumption
  <2> QED
    BY <2>1, <2>2 DEF Init
<1>2. watchers \in Seq(WatcherRecords) /\ procs \in Seq(ProcRecords) /\ DOMAIN watchers = {}
  BY EmptySeq DEF Init
<1>3. 0 \in Versions /\ MaxSyncs \in Nat /\ MaxFaults \in Nat
  BY <1>1, CacheAssumption DEF Versions
<1>4. resources \in [Keys -> Versions] /\ index \in [Keys -> Versions]
  BY <1>3 DEF Init
<1>5. apis \in [Gks -> 0..gen] /\ cancelled \subseteq Gks \X (1..gen)
  BY DEF Init
<1>6. toList \subseteq Watchable /\ closed \subseteq 1..syncs
  BY DEF Init
<1>7. /\ locked \in BOOLEAN /\ apisNil \in BOOLEAN /\ ~locked
      /\ status \in {"unsynced", "synced", "error"}
  BY DEF Init
<1>8. gen \in Nat /\ syncs \in 0..MaxSyncs /\ faults \in 0..MaxFaults /\ channel \in 0..syncs
  BY <1>3 DEF Init
<1> QED
  BY <1>1, <1>2, <1>4, <1>5, <1>6, <1>7, <1>8 DEF CacheTypeOK, WatchersOK

\* Every step keeps the types.
LEMMA CacheTypeKept == CacheTypeOK /\ [Next]_vars => CacheTypeOK'
<1> SUFFICES ASSUME CacheTypeOK, [Next]_vars PROVE CacheTypeOK'
  OBVIOUS
<1>1. CASE \E k \in Mutations : Write(k)
  BY <1>1, EventType, CacheAssumption DEF Write
<1>2. CASE \E k \in Deletions : Delete(k)
  BY <1>2, EventType, CacheAssumption DEF Delete
<1>3. CASE Expire \/ Invalidate
  BY <1>3, InvalidateType
<1>4. CASE SyncStep
  BY <1>4, SyncStartType, SyncListType, SyncEndType DEF SyncStep
<1>5. ASSUME NEW w \in DOMAIN watchers, WatchStep(w) \/ Relist(w)
      PROVE  CacheTypeOK'
  BY <1>5, WatcherStepTypes, ReplaceType, RecordType, SendType, StopWatchingType,
     CrdEventType, StartMissingType DEF WatchStep
<1>6. CASE \E p \in DOMAIN procs : ProcStep(p)
  BY <1>6, ProcType
<1>7. CASE UNCHANGED vars
  BY <1>7 DEF vars, CacheTypeOK, WatchersOK, WatcherRecords, ProcRecords, Versions
<1> QED
  BY <1>1, <1>2, <1>3, <1>4, <1>5, <1>6, <1>7 DEF Next, Idle

\* Type correctness: every variable of the cache holds a value the code can
\* produce, in every state (pkg/cache/cluster.go).
THEOREM CacheTypeCorrect == Spec => []CacheTypeOK
BY CacheTypeInit, CacheTypeKept, PTL DEF Spec

-----------------------------------------------------------------------------
(* The two maps agree                                                       *)

\* Before the first synchronization nothing has been started or stored.
Starting ==
    syncs = 0 => /\ ~locked /\ watchers = <<>> /\ procs = <<>>
                 /\ \A k \in Keys : index[k] = 0

IndexInv == CacheTypeOK /\ Starting /\ IndexAgrees

\* Only sync() starts the first goroutines and stores the first resources.
LEMMA StartingKept ==
    ASSUME CacheTypeOK, Starting, [Next]_vars
    PROVE  Starting'
<1>1. CASE SyncStart
  <2>1. syncs' # 0
    BY <1>1, Numbers DEF SyncStart
  <2> QED
    BY <2>1 DEF Starting
<1>2. CASE syncs # 0 /\ syncs' = syncs
  BY <1>2 DEF Starting
<1>3. CASE /\ syncs = 0 /\ syncs' = syncs
           /\ UNCHANGED <<locked, watchers, procs, index>>
  BY <1>3 DEF Starting
<1>4. \A k \in Mutations : Write(k) => UNCHANGED <<syncs, locked, watchers, procs, index>>
  BY DEF Write, Event, unlessLog
<1>5. \A k \in Deletions : Delete(k) => UNCHANGED <<syncs, locked, watchers, procs, index>>
  BY DEF Delete, Event, unlessLog
<1>6. Expire \/ Invalidate => UNCHANGED <<syncs, locked, watchers, procs, index>>
  BY DEF Expire, Invalidate
<1>7. SyncStep => SyncStart \/ (syncs # 0 /\ syncs' = syncs)
  BY DEF SyncStep, SyncSucceeds, SyncFails, SyncEnd, SyncList, Starting
<1>8. ASSUME NEW w \in DOMAIN watchers, WatchStep(w) \/ Relist(w)
      PROVE  syncs # 0 /\ syncs' = syncs
  <2>1. syncs # 0
    BY EmptySeq DEF Starting
  <2>2. syncs' = syncs
    BY <1>8 DEF WatchStep, Relist, Stop, List, Replace, Receive, Record, SendOnClosed,
       NotFound, StopWatching, CrdEvent, StartMissingWatches, Send, unlessWatchers
  <2> QED
    BY <2>1, <2>2
<1>9. ASSUME NEW p \in DOMAIN procs, ProcStep(p)
      PROVE  syncs # 0 /\ syncs' = syncs
  <2>1. syncs # 0
    BY EmptySeq DEF Starting
  <2>2. syncs' = syncs
    BY <1>9 DEF ProcStep, ProcStart, ProcEnd, Flush, unlessProcs
  <2> QED
    BY <2>1, <2>2
<1>10. UNCHANGED vars => UNCHANGED <<syncs, locked, watchers, procs, index>>
  BY DEF vars
<1> QED
  BY <1>1, <1>2, <1>3, <1>4, <1>5, <1>6, <1>7, <1>8, <1>9, <1>10 DEF Next, Idle

\* A step that leaves the maps alone leaves them in agreement.
LEMMA MapsAlone ==
    ASSUME IndexAgrees, UNCHANGED <<resources, index, syncs>>
    PROVE  IndexAgrees'
BY DEF IndexAgrees

\* ... and so does one that sets them to a store that agrees.
LEMMA MapsSet ==
    ASSUME NEW s, StoreAgrees(s), SetStore(s), UNCHANGED syncs
    PROVE  IndexAgrees'
BY DEF IndexAgrees, StoreAgrees, SetStore

\* Every step keeps the two maps in agreement: whoever writes one of them writes
\* the other, in the same critical section.
LEMMA AgreementKept ==
    ASSUME IndexInv, [Next]_vars
    PROVE  IndexAgrees'
<1>0. CacheTypeOK /\ Starting /\ IndexAgrees /\ StoreType(Store) /\ StoreAgrees(Store)
  BY StoreIsGood DEF IndexInv
<1>1. CASE SyncStart
  <2>1. /\ syncs' = syncs + 1 /\ resources' = [k \in Keys |-> 0] /\ index' = index
        /\ syncs \in Nat /\ index \in [Keys -> Versions]
    BY <1>0, <1>1, Numbers DEF SyncStart, CacheTypeOK
  <2>2. syncs' <= 1 => syncs = 0
    BY <2>1
  <2>3. syncs = 0 => index = [k \in Keys |-> 0]
    BY <1>0, <2>1 DEF Starting
  <2> QED
    BY <2>1, <2>2, <2>3 DEF IndexAgrees
<1>2. ASSUME NEW p \in toList, SyncList(p[1], p[2])
      PROVE  IndexAgrees'
  <2>1. \/ SetStore(Listed(Store, p[1], p[2])) \/ UNCHANGED <<resources, index>>
    BY <1>2 DEF SyncList
  <2>2. UNCHANGED syncs
    BY <1>2 DEF SyncList
  <2> QED
    BY <1>0, <2>1, <2>2, ListedIsGood, MapsAlone, MapsSet
<1>3. ASSUME NEW w \in DOMAIN watchers, Replace(w)
      PROVE  IndexAgrees'
  <2>1. watchers[w].rv \in Versions
    BY <1>0, WatcherType DEF WatcherRecords
  <2> QED
    BY <1>0, <1>3, <2>1, ReplacedIsGood, MapsSet DEF Replace
<1>4. ASSUME NEW w \in DOMAIN watchers, Record(w)
      PROVE  IndexAgrees'
  <2> DEFINE i == watchers[w].held
  <2>1. i \in 1..Len(log)
    BY <1>0, <1>4, HeldType DEF Record
  <2>2. SetStore(Processed(Store, i)) \/ UNCHANGED <<resources, index>>
    BY <1>4 DEF Record
  <2>3. UNCHANGED syncs
    BY <1>4 DEF Record
  <2> QED
    BY <1>0, <2>1, <2>2, <2>3, ProcessedIsGood, MapsAlone, MapsSet
<1>5. ASSUME NEW w \in DOMAIN watchers, StopWatching(w)
      PROVE  IndexAgrees'
  <2>1. 0 \in Versions
    BY <1>0, Numbers DEF Versions
  <2>2. \/ SetStore(Replaced(Store, {<<watchers[w].gk, watchers[w].ns>>}, 0))
        \/ UNCHANGED <<resources, index>>
    BY <1>5 DEF StopWatching
  <2>3. UNCHANGED syncs
    BY <1>5 DEF StopWatching
  <2> QED
    BY <1>0, <2>1, <2>2, <2>3, ReplacedIsGood, MapsAlone, MapsSet
<1>6. ASSUME NEW w \in DOMAIN watchers, StartMissingWatches(w)
      PROVE  IndexAgrees'
  <2>1. Len(log) \in Versions
    BY <1>0, Numbers DEF Versions
  <2>2. \E failed : SetStore(Replaced(Store, Granted \ failed, Len(log)))
    BY <1>6 DEF StartMissingWatches
  <2>3. UNCHANGED syncs
    BY <1>6 DEF StartMissingWatches
  <2> QED
    BY <1>0, <2>1, <2>2, <2>3, ReplacedIsGood, MapsSet
<1>7. ASSUME NEW p \in DOMAIN procs, Flush(p)
      PROVE  IndexAgrees'
  <2>1. Head(procs[p].buf) \in 1..Len(log)
    BY <1>0, <1>7, BufferType DEF Flush
  <2> QED
    BY <1>0, <1>7, <2>1, ProcessedIsGood, MapsSet DEF Flush, unlessProcs
<1>8. CASE UNCHANGED <<resources, index, syncs>>
  BY <1>0, <1>8, MapsAlone
<1>9. \A k : Write(k) \/ Delete(k) => UNCHANGED <<resources, index, syncs>>
  BY DEF Write, Delete, Event, unlessLog
<1>10. Expire \/ Invalidate \/ SyncSucceeds \/ SyncFails => UNCHANGED <<resources, index, syncs>>
  BY DEF Expire, Invalidate, SyncSucceeds, SyncFails, SyncEnd
<1>11. \A w \in DOMAIN watchers :
          \/ Stop(w) \/ List(w) \/ Relist(w) \/ Receive(w) \/ SendOnClosed(w)
          \/ NotFound(w) \/ CrdEvent(w) \/ \E p \in DOMAIN procs : Send(w, p)
          => UNCHANGED <<resources, index, syncs>>
  BY DEF Stop, List, Relist, Receive, SendOnClosed, NotFound, CrdEvent, Send, unlessWatchers
<1>12. \A p \in DOMAIN procs : ProcStart(p) \/ ProcEnd(p) => UNCHANGED <<resources, index, syncs>>
  BY DEF ProcStart, ProcEnd, unlessProcs
<1>13. UNCHANGED vars => UNCHANGED <<resources, index, syncs>>
  BY DEF vars
<1> QED
  BY <1>1, <1>2, <1>3, <1>4, <1>5, <1>6, <1>7, <1>8, <1>9, <1>10, <1>11, <1>12, <1>13
     DEF Next, SyncStep, WatchStep, ProcStep, Idle

\* The two maps of the cache agree in every state: the index by namespace has
\* whatever c.resources has, and until a second synchronization nothing else
\* (setNode, onNodeRemoved, replaceResourceCache in pkg/cache/cluster.go).
THEOREM IndexCorrect == Spec => []IndexAgrees
<1>1. Init => IndexInv
  <2>1. Init => Starting /\ IndexAgrees
    BY DEF Init, Starting, IndexAgrees
  <2> QED
    BY <2>1, CacheTypeInit DEF IndexInv
<1>2. IndexInv /\ [Next]_vars => IndexInv'
  BY CacheTypeKept, StartingKept, AgreementKept DEF IndexInv
<1>3. IndexInv => IndexAgrees
  BY DEF IndexInv
<1> QED
  BY <1>1, <1>2, <1>3, PTL DEF Spec

-----------------------------------------------------------------------------
(* Every watch can be stopped                                               *)

\* The account may list a kind in all the namespaces that are watched, or in
\* none of them.
Uniform == \A c \in Forbidden : \A d \in Watchable : d[1] = c[1] => d \in Forbidden

Live(w) == watchers[w].st # "done" /\ ~Cancelled(w)

\* Nobody watches what may not be listed.
Allowed == \A w \in DOMAIN watchers : <<watchers[w].gk, watchers[w].ns>> \notin Forbidden

\* While sync() lists the APIs, each one that it has still to list has the context
\* of this synchronization, and nobody watches it yet.
Listing ==
    locked => /\ \A c \in toList \ Forbidden : apis[c[1]] = gen
              /\ \A w \in DOMAIN watchers :
                    Live(w) => <<watchers[w].gk, watchers[w].ns>> \notin toList

StopInv == CacheTypeOK /\ Allowed /\ Listing /\ WatchesAreStoppable

\* No goroutine is new, and none has come back to life.
NoneStarted ==
    \A v \in DOMAIN watchers' :
        /\ v \in DOMAIN watchers
        /\ watchers'[v].gk = watchers[v].gk /\ watchers'[v].ns = watchers[v].ns
        /\ watchers'[v].gen = watchers[v].gen
        /\ watchers'[v].st # "done" => watchers[v].st # "done"

\* A goroutine that goes on stays the goroutine of its kind, namespace and context.
LEMMA MovesStartNone ==
    ASSUME CacheTypeOK, NEW w \in DOMAIN watchers,
           \/ Stop(w) \/ List(w) \/ Replace(w) \/ Relist(w) \/ Receive(w) \/ Record(w)
           \/ SendOnClosed(w) \/ NotFound(w) \/ StopWatching(w) \/ CrdEvent(w)
           \/ \E p \in DOMAIN procs : Send(w, p)
    PROVE  NoneStarted
<1>1. watchers \in [DOMAIN watchers -> WatcherRecords]
  BY Numbers
<1>2. CASE Stop(w)
  BY <1>1, <1>2 DEF Stop, NoneStarted, WatcherRecords
<1>3. CASE List(w)
  BY <1>1, <1>3 DEF List, NoneStarted, WatcherRecords
<1>4. CASE Replace(w)
  BY <1>1, <1>4 DEF Replace, NoneStarted, WatcherRecords
<1>5. CASE Relist(w)
  BY <1>1, <1>5 DEF Relist, NoneStarted, WatcherRecords
<1>6. CASE Receive(w)
  BY <1>1, <1>6 DEF Receive, NoneStarted, WatcherRecords
<1>7. CASE Record(w)
  BY <1>1, <1>7 DEF Record, NoneStarted, WatcherRecords
<1>8. CASE SendOnClosed(w)
  BY <1>1, <1>8 DEF SendOnClosed, NoneStarted, WatcherRecords
<1>9. CASE NotFound(w)
  BY <1>1, <1>9 DEF NotFound, NoneStarted, WatcherRecords
<1>10. CASE StopWatching(w)
  BY <1>1, <1>10 DEF StopWatching, NoneStarted, WatcherRecords
<1>11. CASE CrdEvent(w)
  BY <1>1, <1>11 DEF CrdEvent, NoneStarted, WatcherRecords
<1>12. CASE \E p \in DOMAIN procs : Send(w, p)
  BY <1>1, <1>12 DEF Send, NoneStarted, WatcherRecords
<1> QED
  BY <1>2, <1>3, <1>4, <1>5, <1>6, <1>7, <1>8, <1>9, <1>10, <1>11, <1>12

\* A step that starts no goroutine and leaves the contexts alone.
LEMMA NoneStartedKeeps ==
    ASSUME Allowed, Listing, WatchesAreStoppable, NoneStarted,
           UNCHANGED <<apis, cancelled, toList, locked, gen>>
    PROVE  Allowed' /\ Listing' /\ WatchesAreStoppable'
<1>1. Allowed'
  BY DEF Allowed, NoneStarted
<1>2. \A v \in DOMAIN watchers' : Live(v)' => Live(v)
  BY DEF Live, Cancelled, NoneStarted
<1>3. Listing'
  BY <1>2 DEF Listing, NoneStarted
<1>4. WatchesAreStoppable'
  BY <1>2 DEF WatchesAreStoppable, NoneStarted, Live
<1> QED
  BY <1>1, <1>3, <1>4

\* sync() and Invalidate() cancel every context that c.apisMeta has, so that all
\* goroutines are stopped.
LEMMA AllCancelled ==
    ASSUME CacheTypeOK, WatchesAreStoppable, cancelled' = cancelled \cup Contexts,
           watchers' = watchers
    PROVE  \A w \in DOMAIN watchers' : ~Live(w)'
<1> SUFFICES ASSUME NEW w \in DOMAIN watchers, Live(w)
             PROVE  <<watchers[w].gk, watchers[w].gen>> \in Contexts
  BY DEF Live, Cancelled
<1>1. apis[watchers[w].gk] = watchers[w].gen
  BY DEF WatchesAreStoppable, Live
<1>2. watchers[w].gk \in Gks /\ watchers[w].gen # 0
  BY WatcherType, Numbers DEF WatcherRecords
<1> QED
  BY <1>1, <1>2 DEF Contexts

\* SyncStart.
LEMMA SyncStartStops ==
    ASSUME StopInv, SyncStart
    PROVE  Allowed' /\ Listing' /\ WatchesAreStoppable'
<1>1. cancelled' = cancelled \cup Contexts /\ watchers' = watchers
  BY DEF SyncStart
<1>2. \A w \in DOMAIN watchers' : ~Live(w)'
  BY <1>1, AllCancelled DEF StopInv
<1>3. Allowed' /\ WatchesAreStoppable'
  BY <1>1, <1>2 DEF StopInv, Allowed, WatchesAreStoppable, Live
<1>4. locked' => \A c \in toList' : apis'[c[1]] = gen'
  <2>1. CASE /\ apis' = [gk \in Gks |-> IF Served(gk) THEN gen' ELSE 0]
             /\ toList' = UNION {{gk} \X Scopes[gk] : gk \in {g \in Gks : Served(g)}}
    <3>1. \A c \in toList' : c[1] \in Gks /\ Served(c[1])
      BY <2>1
    <3> QED
      BY <2>1, <3>1
  <2>2. CASE locked' = locked
    BY <2>2 DEF SyncStart, Free
  <2> QED
    BY <2>1, <2>2 DEF SyncStart
<1> QED
  BY <1>2, <1>3, <1>4 DEF Listing

\* Invalidate.
LEMMA InvalidateStops ==
    ASSUME StopInv, Invalidate
    PROVE  Allowed' /\ Listing' /\ WatchesAreStoppable'
<1>1. cancelled' = cancelled \cup Contexts /\ watchers' = watchers /\ ~locked'
  BY DEF Invalidate, Free
<1>2. \A w \in DOMAIN watchers' : ~Live(w)'
  BY <1>1, AllCancelled DEF StopInv
<1> QED
  BY <1>1, <1>2 DEF StopInv, Allowed, Listing, WatchesAreStoppable, Live

\* SyncList: a kind that may not be listed is forgotten, and then nobody watches
\* it, in whatever namespace.
LEMMA SyncListStops ==
    ASSUME StopInv, Uniform, NEW p \in toList, SyncList(p[1], p[2])
    PROVE  Allowed' /\ Listing' /\ WatchesAreStoppable'
<1> USE DEF StopInv
<1> DEFINE r == Watcher(p[1], p[2], gen, "watch", Len(log))
<1>1. /\ locked /\ locked' = locked /\ toList' = toList \ {p}
      /\ UNCHANGED <<cancelled, gen>>
      /\ p \in Watchable /\ p = <<p[1], p[2]>> /\ p[1] \in Gks /\ p[2] \in Namespaces
  BY DEF SyncList, CacheTypeOK, Watchable, Namespaces
<1>2. CASE p \notin Forbidden /\ watchers' = Append(watchers, r) /\ UNCHANGED apis
  <2>1. watchers \in Seq(WatcherRecords) /\ r \in WatcherRecords
    <3>1. Len(log) \in Versions /\ 0 \in Versions /\ gen \in 1..gen /\ 0 \in 0..syncs
      BY <1>1, Numbers DEF Versions, CacheTypeOK
    <3> QED
      BY <1>1, <3>1 DEF CacheTypeOK, WatchersOK, Watcher, WatcherRecords
  <2>2. \A v \in DOMAIN watchers' :
           watchers'[v] = r \/ (v \in DOMAIN watchers /\ watchers'[v] = watchers[v])
    BY <1>2, <2>1, AppendProperties, LenProperties
  <2>3. r.gk = p[1] /\ r.ns = p[2] /\ r.gen = gen /\ apis[p[1]] = gen
    BY <1>1, <1>2 DEF Watcher, Listing
  <2>4. \A v \in DOMAIN watchers' :
           \/ watchers'[v] = r
           \/ v \in DOMAIN watchers /\ watchers'[v] = watchers[v] /\ (Live(v)' => Live(v))
    BY <1>1, <2>2 DEF Live, Cancelled
  <2> HIDE DEF r
  <2>5. Allowed'
    BY <1>1, <1>2, <2>3, <2>4 DEF Allowed
  <2>6. Listing'
    BY <1>1, <1>2, <2>3, <2>4 DEF Listing
  <2>7. WatchesAreStoppable'
    BY <1>2, <2>3, <2>4 DEF WatchesAreStoppable, Live
  <2> QED
    BY <2>5, <2>6, <2>7
<1>3. CASE p \in Forbidden /\ apis' = [apis EXCEPT ![p[1]] = 0] /\ UNCHANGED watchers
  <2>1. \A d \in Watchable : d[1] = p[1] => d \in Forbidden
    BY <1>3 DEF Uniform
  <2>2. \A w \in DOMAIN watchers : watchers[w].gk # p[1]
    <3> SUFFICES ASSUME NEW w \in DOMAIN watchers, watchers[w].gk = p[1]
                 PROVE  FALSE
      OBVIOUS
    <3>1. <<watchers[w].gk, watchers[w].ns>> \in Watchable
      BY WatcherType
    <3> QED
      BY <2>1, <3>1 DEF Allowed
  <2>3. \A c \in toList' \ Forbidden : c[1] # p[1] /\ c[1] \in Gks
    BY <1>1, <2>1 DEF CacheTypeOK, Watchable
  <2>4. \A gk \in Gks : gk # p[1] => apis'[gk] = apis[gk]
    BY <1>3 DEF CacheTypeOK
  <2>5. \A w \in DOMAIN watchers : watchers[w].gk \in Gks /\ (Live(w)' <=> Live(w))
    BY <1>1, <1>3, WatcherType DEF Live, Cancelled, WatcherRecords
  <2>6. Listing'
    BY <1>1, <1>3, <2>3, <2>4, <2>5 DEF Listing
  <2>7. WatchesAreStoppable'
    BY <1>3, <2>2, <2>4, <2>5 DEF WatchesAreStoppable, Live
  <2> QED
    BY <1>3, <2>6, <2>7 DEF Allowed
<1> QED
  BY <1>1, <1>2, <1>3 DEF SyncList

\* SyncSucceeds and SyncFails: a kind that RunAllAsync has not come to has no
\* goroutine.
LEMMA SyncEndStops ==
    ASSUME StopInv, SyncSucceeds \/ SyncFails
    PROVE  Allowed' /\ Listing' /\ WatchesAreStoppable'
<1> USE DEF StopInv
<1>1. locked /\ ~locked' /\ UNCHANGED <<watchers, cancelled>>
  BY DEF SyncSucceeds, SyncFails, SyncEnd
<1>2. ASSUME NEW w \in DOMAIN watchers, Live(w)
      PROVE  apis'[watchers[w].gk] = apis[watchers[w].gk]
  <2>1. /\ <<watchers[w].gk, watchers[w].ns>> \notin toList
        /\ <<watchers[w].gk, watchers[w].ns>> \in Watchable
        /\ watchers[w].gk \in Gks
    BY <1>1, <1>2, WatcherType DEF Listing, WatcherRecords
  <2>2. watchers[w].ns \in Scopes[watchers[w].gk]
    BY <2>1 DEF Watchable
  <2> QED
    BY <2>1, <2>2 DEF SyncSucceeds, SyncFails
<1> QED
  BY <1>1, <1>2 DEF Allowed, Listing, WatchesAreStoppable, Live, Cancelled

\* StopWatching: the context that is cancelled is that of all goroutines of the kind.
LEMMA StopWatchingStops ==
    ASSUME StopInv, NEW w \in DOMAIN watchers, StopWatching(w)
    PROVE  Allowed' /\ Listing' /\ WatchesAreStoppable'
<1> USE DEF StopInv
<1> DEFINE gk == watchers[w].gk
<1>1. NoneStarted /\ ~locked /\ ~locked'
  BY MovesStartNone DEF StopWatching, Free
<1>2. Allowed' /\ Listing'
  BY <1>1 DEF Allowed, Listing, NoneStarted
<1>3. CASE UNCHANGED <<cancelled, apis>>
  BY <1>1, <1>3, NoneStartedKeeps DEF StopWatching
<1>4. CASE cancelled' = cancelled \cup {<<gk, apis[gk]>>} /\ apis' = [apis EXCEPT ![gk] = 0]
  <2>1. \A v \in DOMAIN watchers' : Live(v)' => Live(v) /\ watchers[v].gk \in Gks
    BY <1>1, <1>4, WatcherType DEF Live, Cancelled, NoneStarted, WatcherRecords
  <2>2. \A v \in DOMAIN watchers' : Live(v)' => watchers[v].gk # gk
    BY <1>1, <1>4, <2>1 DEF WatchesAreStoppable, Live, Cancelled, NoneStarted
  <2>3. \A k \in Gks : k # gk => apis'[k] = apis[k]
    BY <1>4 DEF CacheTypeOK
  <2> QED
    BY <1>1, <1>2, <2>1, <2>2, <2>3 DEF WatchesAreStoppable, Live, NoneStarted
<1> QED
  BY <1>3, <1>4 DEF StopWatching

\* StartMissingWatches: the kinds that get a context had none, so that nobody was
\* watching them.
LEMMA StartMissingStops ==
    ASSUME StopInv, Uniform, NEW w \in DOMAIN watchers, StartMissingWatches(w)
    PROVE  Allowed' /\ Listing' /\ WatchesAreStoppable'
<1> USE DEF StopInv
<1> DEFINE r == [watchers[w] EXCEPT !.st = "watch"]
<1>1. ~locked' /\ UNCHANGED cancelled /\ watchers[w].st = "crd"
  BY DEF StartMissingWatches, Free
<1>2. watchers[w] \in WatcherRecords
  BY WatcherType
<1>3. ASSUME NEW v \in DOMAIN watchers'
      PROVE  \/ /\ v \in DOMAIN watchers /\ (Live(v)' => Live(v))
                /\ watchers'[v].gk = watchers[v].gk /\ watchers'[v].ns = watchers[v].ns
                /\ watchers'[v].gen = watchers[v].gen
             \/ /\ <<watchers'[v].gk, watchers'[v].ns>> \in Granted
                /\ watchers'[v].gen = gen'
  <2>1. CASE v \in DOMAIN watchers /\ watchers'[v] = IF v = w THEN r ELSE watchers[v]
    BY <1>1, <1>2, <2>1 DEF Live, Cancelled, WatcherRecords
  <2>2. CASE <<watchers'[v].gk, watchers'[v].ns>> \in Granted /\ watchers'[v].gen = gen'
    BY <2>2
  <2> QED
    BY <2>1, <2>2, StartedWatchers
<1>4. Allowed'
  <2>1. \A c \in Granted : c \notin Forbidden
    BY DEF Granted
  <2> QED
    BY <1>3, <2>1 DEF Allowed
<1>5. Listing'
  BY <1>1 DEF Listing
<1>6. WatchesAreStoppable'
  <2> SUFFICES ASSUME NEW v \in DOMAIN watchers', Live(v)'
               PROVE  apis'[watchers'[v].gk] = watchers'[v].gen
    BY DEF WatchesAreStoppable, Live
  <2>1. apis' = [gk \in Gks |-> IF gk \in Missing \ {p[1] : p \in Forbidden}
                               THEN gen' ELSE apis[gk]]
    BY DEF StartMissingWatches
  <2>2. CASE /\ v \in DOMAIN watchers /\ Live(v)
             /\ watchers'[v].gk = watchers[v].gk /\ watchers'[v].gen = watchers[v].gen
    <3>1. apis[watchers[v].gk] = watchers[v].gen
      BY <2>2 DEF WatchesAreStoppable, Live
    <3>2. watchers[v].gk \in Gks /\ watchers[v].gen # 0
      BY <2>2, WatcherType, Numbers DEF WatcherRecords
    <3> QED
      BY <2>1, <2>2, <3>1, <3>2 DEF Missing
  <2>3. CASE <<watchers'[v].gk, watchers'[v].ns>> \in Granted /\ watchers'[v].gen = gen'
    <3> DEFINE d == <<watchers'[v].gk, watchers'[v].ns>>
    <3>1. d \in Granted /\ d \in Watchable /\ d \notin Forbidden /\ d[1] = watchers'[v].gk
      BY <2>3, GrantedInOrder DEF Granted
    <3>2. d[1] \in Missing /\ d[1] \in Gks
      BY <3>1, GrantedInOrder DEF Missing
    <3>3. d[1] \notin {p[1] : p \in Forbidden}
      BY <3>1 DEF Uniform
    <3> HIDE DEF d
    <3> QED
      BY <2>1, <2>3, <3>1, <3>2, <3>3
  <2> QED
    BY <1>3, <2>2, <2>3
<1> QED
  BY <1>4, <1>5, <1>6

\* Every step keeps the goroutines stoppable.
LEMMA StopKept ==
    ASSUME StopInv, Uniform, [Next]_vars
    PROVE  StopInv'
<1> SUFFICES Allowed' /\ Listing' /\ WatchesAreStoppable'
  BY CacheTypeKept DEF StopInv
<1> USE DEF StopInv
<1>1. CASE NoneStarted /\ UNCHANGED <<apis, cancelled, toList, locked, gen>>
  BY <1>1, NoneStartedKeeps
<1>2. UNCHANGED watchers => NoneStarted
  BY DEF NoneStarted
<1>3. ASSUME NEW k, Write(k) \/ Delete(k)
      PROVE  UNCHANGED <<watchers, apis, cancelled, toList, locked, gen>>
  BY <1>3 DEF Write, Delete, Event, unlessLog
<1>4. Expire => UNCHANGED <<watchers, apis, cancelled, toList, locked, gen>>
  BY DEF Expire
<1>5. ASSUME NEW w \in DOMAIN watchers,
             \/ Stop(w) \/ List(w) \/ Replace(w) \/ Relist(w) \/ Receive(w) \/ Record(w)
             \/ SendOnClosed(w) \/ NotFound(w) \/ CrdEvent(w)
             \/ \E p \in DOMAIN procs : Send(w, p)
      PROVE  NoneStarted /\ UNCHANGED <<apis, cancelled, toList, locked, gen>>
  <2>1. NoneStarted
    BY <1>5, MovesStartNone
  <2>2. UNCHANGED <<apis, cancelled, toList, locked, gen>>
    BY <1>5 DEF Stop, List, Replace, Relist, Receive, Record, SendOnClosed, NotFound,
       CrdEvent, Send, unlessWatchers
  <2> QED
    BY <2>1, <2>2
<1>6. ASSUME NEW p \in DOMAIN procs, ProcStep(p)
      PROVE  UNCHANGED <<watchers, apis, cancelled, toList, locked, gen>>
  BY <1>6 DEF ProcStep, ProcStart, ProcEnd, Flush, unlessProcs
<1>7. UNCHANGED vars => UNCHANGED <<watchers, apis, cancelled, toList, locked, gen>>
  BY DEF vars
<1>8. CASE SyncStep
  BY <1>8, SyncStartStops, SyncListStops, SyncEndStops DEF SyncStep
<1>9. CASE Invalidate
  BY <1>9, InvalidateStops
<1>10. ASSUME NEW w \in DOMAIN watchers, StopWatching(w) \/ StartMissingWatches(w)
       PROVE  Allowed' /\ Listing' /\ WatchesAreStoppable'
  BY <1>10, StopWatchingStops, StartMissingStops
<1> QED
  BY <1>1, <1>2, <1>3, <1>4, <1>5, <1>6, <1>7, <1>8, <1>9, <1>10 DEF Next, WatchStep, Idle

\* Whoever watches can be stopped: the context of every goroutine that has not been
\* cancelled is the one that c.apisMeta holds for its kind, so that stopWatching,
\* sync() and Invalidate() reach it.  It takes an account whose rights do not differ
\* from one namespace to the next: processApi forgets the kind at the first
\* namespace that is forbidden, whoever watches the others (cluster.go, sync()).
THEOREM StopCorrect == Uniform => (Spec => []WatchesAreStoppable)
<1> SUFFICES ASSUME Uniform PROVE Spec => []WatchesAreStoppable
  OBVIOUS
<1>1. Init => StopInv
  <2>1. Init => Allowed /\ Listing /\ WatchesAreStoppable
    BY DEF Init, Allowed, Listing, WatchesAreStoppable
  <2> QED
    BY <2>1, CacheTypeInit DEF StopInv
<1>2. StopInv /\ [Next]_vars => StopInv'
  BY StopKept
<1>3. StopInv => WatchesAreStoppable
  BY DEF StopInv
<1> QED
  BY <1>1, <1>2, <1>3, PTL DEF Spec

-----------------------------------------------------------------------------
(* A kind that is stopped is purged                                         *)

\* Every resource of a kind is in the scope of every watch of the kind: the cache
\* watches the whole cluster, or one namespace only.
OneScope == \A k \in Keys : \A ns \in Scopes[Gk[k]] : InScope(k, Gk[k], ns)

\* Outside a synchronization, only stopWatching forgets a kind of a cache that is
\* synced.
LEMMA OnlyStopWatchingForgets ==
    ASSUME CacheTypeOK, [Next]_vars, ~locked, ~apisNil', status' = "synced",
           NEW gk \in Gks, apis[gk] # 0, apis'[gk] = 0
    PROVE  \E w \in DOMAIN watchers : StopWatching(w)
<1>1. apis' # apis
  OBVIOUS
<1>2. ~UNCHANGED vars
  BY <1>1 DEF vars
<1>3. \A k : ~Write(k) /\ ~Delete(k)
  BY <1>1 DEF Write, Delete, Event, unlessLog
<1>4. ~Expire /\ ~Invalidate
  BY <1>1 DEF Expire, Invalidate
<1>5. ~SyncStart
  BY DEF SyncStart
<1>6. ~SyncSucceeds /\ ~SyncFails /\ \A p \in toList : ~SyncList(p[1], p[2])
  BY DEF SyncSucceeds, SyncFails, SyncEnd, SyncList
<1>7. \A p \in DOMAIN procs : ~ProcStep(p)
  BY <1>1 DEF ProcStep, ProcStart, ProcEnd, Flush, unlessProcs
<1>8. ASSUME NEW w \in DOMAIN watchers, WatchStep(w) \/ Relist(w)
      PROVE  StopWatching(w)
  <2>1. ~StartMissingWatches(w)
    <3> SUFFICES ASSUME StartMissingWatches(w) PROVE FALSE
      OBVIOUS
    <3>1. gen' # 0 /\ apis' = [g \in Gks |-> IF g \in Missing \ {p[1] : p \in Forbidden}
                                            THEN gen' ELSE apis[g]]
      BY Numbers DEF StartMissingWatches
    <3> QED
      BY <3>1
  <2> QED
    BY <1>1, <1>8, <2>1 DEF WatchStep, Relist, Stop, List, Replace, Receive, Record,
       SendOnClosed, NotFound, CrdEvent, Send, unlessWatchers
<1> QED
  BY <1>2, <1>3, <1>4, <1>5, <1>6, <1>7, <1>8 DEF Next, SyncStep, Idle

\* What stopWatching removes is all that a kind has.
LEMMA StopWatchingPurges ==
    ASSUME CacheTypeOK, OneScope, NEW w \in DOMAIN watchers, StopWatching(w),
           NEW gk \in Gks, apis[gk] # 0, apis'[gk] = 0,
           NEW k \in Keys, Gk[k] = gk
    PROVE  resources'[k] = 0
<1> DEFINE me == watchers[w]
<1>1. apis[me.gk] # 0 /\ apis' = [apis EXCEPT ![me.gk] = 0]
      /\ SetStore(Replaced(Store, {<<me.gk, me.ns>>}, 0))
  BY DEF StopWatching
<1>2. me.gk = gk
  BY <1>1 DEF CacheTypeOK
<1>3. me.ns \in Scopes[gk]
  <2>1. <<me.gk, me.ns>> \in Watchable
    BY WatcherType
  <2>2. PICK g \in Gks : <<me.gk, me.ns>> \in {g} \X Scopes[g]
    BY <2>1 DEF Watchable
  <2> QED
    BY <1>2, <2>2
<1>4. InScope(k, me.gk, me.ns)
  BY <1>2, <1>3 DEF OneScope
<1>5. VersionAt(k, 0) = 0
  BY VersionType
<1> QED
  BY <1>1, <1>4, <1>5 DEF SetStore, Replaced, Store

\* A kind whose watch is stopped leaves nothing in the cache, where one watch sees
\* all that the kind has: stopWatching empties the namespace of the goroutine that
\* finds the kind gone, and of that one only (cluster.go, stopWatching).
THEOREM PurgeCorrect == OneScope => (Spec => StoppedIsPurged)
<1> SUFFICES ASSUME OneScope PROVE Spec => StoppedIsPurged
  OBVIOUS
<1>1. CacheTypeOK /\ [Next]_vars => [Purges]_vars
  <2> SUFFICES ASSUME CacheTypeOK, [Next]_vars PROVE Purges
    OBVIOUS
  <2> QED
    BY OnlyStopWatchingForgets, StopWatchingPurges DEF Purges
<1> QED
  BY <1>1, CacheTypeCorrect, PTL DEF Spec, StoppedIsPurged

-----------------------------------------------------------------------------
(* A quiet cache is current                                                 *)

\* Every resource is seen by one watch of its kind.
OneWatch ==
    \A k \in Keys : \E ns \in Scopes[Gk[k]] :
        \A n \in Scopes[Gk[k]] : InScope(k, Gk[k], n) <=> n = ns

\* A kind that may be listed, and whose watch was never stopped.
Steady(gk) == /\ \A c \in cancelled : c[1] # gk
              /\ \A ns \in Scopes[gk] : <<gk, ns>> \notin Forbidden

Watches(w, gk, ns) == watchers[w].gk = gk /\ watchers[w].ns = ns

\* Events are handled by the goroutine that receives them,
Direct == procs = <<>> /\ \A w \in DOMAIN watchers : watchers[w].st # "sending"

\* ... and it handles one that it should.
Holding ==
    \A w \in DOMAIN watchers : watchers[w].st = "event" =>
        /\ watchers[w].held = watchers[w].rv
        /\ InScope(log[watchers[w].held].key, watchers[w].gk, watchers[w].ns)

\* Nothing is there of what sync() has still to list.
Emptied ==
    /\ ~locked => toList = {}
    /\ \A c \in toList, k \in Keys : InScope(k, c[1], c[2]) => resources[k] = 0

\* A steady kind has one goroutine for each of its namespaces, if it has a
\* context and once sync() has come to it.
ManyFor(gk) ==
    /\ apis[gk] = 0 => \A w \in DOMAIN watchers : watchers[w].gk # gk
    /\ \A w \in DOMAIN watchers : watchers[w].gk = gk =>
          /\ watchers[w].st # "done" /\ <<gk, watchers[w].ns>> \notin toList
          /\ \A v \in DOMAIN watchers : Watches(v, gk, watchers[w].ns) => v = w
    /\ \A c \in toList : c[1] = gk => apis[gk] # 0
    /\ apis[gk] # 0 /\ (locked \/ status = "synced") =>
          \A ns \in Scopes[gk] :
             <<gk, ns>> \in toList \/ \E w \in DOMAIN watchers : Watches(w, gk, ns)

Manned == \A gk \in Gks : Steady(gk) => ManyFor(gk)

\* The goroutine has shown the cache what it knows of a resource.
Shown(w, k) ==
    \/ watchers[w].st \in {"watch", "crd"}
    \/ watchers[w].st = "event" /\ k # log[watchers[w].held].key

\* The cache has the resource in the version the goroutine knows.
Accounts(w) ==
    \A k \in Keys \ Ignored :
        InScope(k, watchers[w].gk, watchers[w].ns) /\ Shown(w, k) =>
            resources[k] = VersionAt(k, watchers[w].rv)

Accounted == \A w \in DOMAIN watchers : Steady(watchers[w].gk) => Accounts(w)

CurrentInv ==
    CacheTypeOK /\ Direct /\ Holding /\ Emptied /\ Manned /\ Accounted

\* What the history said of a version it says of it for ever.
LEMMA HistoryStays ==
    ASSUME CacheTypeOK, NEW k, NEW e, log' = Append(log, e), NEW n \in Versions
    PROVE  VersionAt(k, n)' = VersionAt(k, n)
<1>1. Len(log) \in Nat /\ \A i \in 1..n : log'[i] = log[i]
  BY DEF CacheTypeOK, Versions
<1>2. EventsOf(k, n)' = EventsOf(k, n) /\ EventsOf(k, n) \subseteq 1..n
  BY <1>1 DEF EventsOf
<1>3. CASE EventsOf(k, n) = {}
  BY <1>2, <1>3 DEF VersionAt
<1>4. CASE EventsOf(k, n) # {}
  <2>1. Max(EventsOf(k, n)) \in 1..n
    <3>1. n \in Nat
      BY <1>1 DEF Versions
    <3> QED
      BY <1>2, <1>4, <3>1, GreatestVersion
  <2>2. log'[Max(EventsOf(k, n))] = log[Max(EventsOf(k, n))]
    BY <1>1, <2>1
  <2> QED
    BY <1>2, <2>2 DEF VersionAt
<1> QED
  BY <1>3, <1>4

\* Between two versions without an event of a resource it stays as it is.
LEMMA NothingNew ==
    ASSUME CacheTypeOK, NEW k, NEW n \in Versions, NEW m \in Versions, n <= m,
           \A i \in (n + 1)..m : log[i].key # k
    PROVE  VersionAt(k, m) = VersionAt(k, n)
<1>1. EventsOf(k, m) = EventsOf(k, n)
  BY DEF EventsOf, Versions
<1> QED
  BY <1>1 DEF VersionAt

\* After an event of a resource it is what the event says.
LEMMA EventSays ==
    ASSUME CacheTypeOK, NEW i \in 1..Len(log)
    PROVE  VersionAt(log[i].key, i) = IF log[i].type = "Deleted" THEN 0 ELSE i
<1> DEFINE es == EventsOf(log[i].key, i)
<1>1. i \in es /\ es \subseteq 1..i /\ i \in Nat
  BY DEF EventsOf
<1>2. Max(es) = i
  <2>1. Max(es) \in es /\ \A y \in es : y <= Max(es)
    BY <1>1, GreatestVersion
  <2> QED
    BY <1>1, <2>1
<1> HIDE DEF es
<1>3. VersionAt(log[i].key, i) = IF es = {} \/ log[Max(es)].type = "Deleted" THEN 0 ELSE Max(es)
  BY DEF VersionAt, es
<1> QED
  BY <1>1, <1>2, <1>3

\* The namespace of a goroutine is one of its kind.
LEMMA WatchedScope ==
    ASSUME CacheTypeOK, NEW w \in DOMAIN watchers
    PROVE  /\ watchers[w].gk \in Gks /\ watchers[w].ns \in Scopes[watchers[w].gk]
           /\ watchers[w].rv \in Versions /\ watchers[w] \in WatcherRecords
<1>1. watchers[w] \in WatcherRecords /\ <<watchers[w].gk, watchers[w].ns>> \in Watchable
  BY WatcherType
<1> QED
  BY <1>1 DEF Watchable, WatcherRecords

\* A resource is in the scope of one goroutine of a steady kind.
LEMMA ScopesApart ==
    ASSUME CacheTypeOK, OneWatch, Manned,
           NEW w \in DOMAIN watchers, NEW v \in DOMAIN watchers, NEW k \in Keys,
           Steady(watchers[v].gk),
           InScope(k, watchers[w].gk, watchers[w].ns), InScope(k, watchers[v].gk, watchers[v].ns)
    PROVE  v = w
<1>1. watchers[w].gk = Gk[k] /\ watchers[v].gk = Gk[k]
  BY DEF InScope
<1>2. watchers[w].ns \in Scopes[Gk[k]] /\ watchers[v].ns \in Scopes[Gk[k]] /\ Gk[k] \in Gks
  BY <1>1, WatchedScope
<1>3. watchers[w].ns = watchers[v].ns
  BY <1>1, <1>2 DEF OneWatch
<1>4. Steady(Gk[k])
  BY <1>1
<1>5. ManyFor(Gk[k])
  BY <1>2, <1>4 DEF Manned
<1>6. Watches(w, Gk[k], watchers[v].ns)
  BY <1>1, <1>3 DEF Watches
<1> QED
  BY <1>1, <1>5, <1>6 DEF ManyFor

\* One goroutine moves, and what it changes of the cache is in its scope.
LEMMA MoveKeeps ==
    ASSUME CurrentInv, OneWatch, CacheTypeOK', NEW w \in DOMAIN watchers, NEW r,
           watchers' = [watchers EXCEPT ![w] = r],
           r.gk = watchers[w].gk, r.ns = watchers[w].ns, r.st # "sending",
           Steady(r.gk) => r.st # "done" /\ Accounts(w)',
           UNCHANGED <<log, locked, status, apis, cancelled, toList, procs>>,
           \A k \in Keys : resources'[k] = resources[k] \/ (~locked /\ InScope(k, r.gk, r.ns)),
           r.st = "event" => r.held = r.rv /\ InScope(log[r.held].key, r.gk, r.ns)
    PROVE  CurrentInv'
<1>1. /\ DOMAIN watchers' = DOMAIN watchers
      /\ \A v \in DOMAIN watchers : watchers'[v] = IF v = w THEN r ELSE watchers[v]
  OBVIOUS
<1>2. \A v \in DOMAIN watchers : watchers'[v].gk = watchers[v].gk /\ watchers'[v].ns = watchers[v].ns
  BY <1>1
<1>3. \A gk : Steady(gk)' <=> Steady(gk)
  BY DEF Steady
<1>4. Direct' /\ Holding'
  BY <1>1 DEF CurrentInv, Direct, Holding
<1>5. Emptied'
  BY DEF CurrentInv, Emptied
<1>6. Manned'
  <2> SUFFICES ASSUME NEW gk \in Gks, Steady(gk) PROVE ManyFor(gk)'
    BY <1>3 DEF Manned
  <2>1. ManyFor(gk)
    BY DEF CurrentInv, Manned
  <2>2. ASSUME NEW v \in DOMAIN watchers, watchers[v].gk = gk PROVE watchers'[v].st # "done"
    <3>1. CASE v = w
      <4>1. r.gk = gk
        BY <2>2, <3>1
      <4>2. Steady(r.gk)
        BY <4>1
      <4> QED
        BY <1>1, <3>1, <4>2
    <3>2. CASE v # w
      BY <1>1, <2>1, <2>2, <3>2 DEF ManyFor
    <3> QED
      BY <3>1, <3>2
  <2>3. \A ns : \A v \in DOMAIN watchers : Watches(v, gk, ns)' <=> Watches(v, gk, ns)
    BY <1>2 DEF Watches
  <2> QED
    BY <1>1, <1>2, <2>1, <2>2, <2>3 DEF ManyFor
<1>7. Accounted'
  <2> SUFFICES ASSUME NEW v \in DOMAIN watchers, v # w, Steady(watchers[v].gk)
               PROVE  Accounts(v)'
    BY <1>1, <1>2, <1>3 DEF Accounted
  <2>1. Accounts(v) /\ watchers'[v] = watchers[v]
    BY <1>1 DEF CurrentInv, Accounted
  <2>2. ASSUME NEW k \in Keys, InScope(k, watchers[v].gk, watchers[v].ns)
        PROVE  resources'[k] = resources[k]
    BY <2>2, ScopesApart DEF CurrentInv
  <2>3. \A k, n : VersionAt(k, n)' = VersionAt(k, n)
    BY DEF VersionAt, EventsOf
  <2>4. \A k : Shown(v, k)' <=> Shown(v, k)
    BY <2>1 DEF Shown
  <2> QED
    BY <2>1, <2>2, <2>3, <2>4 DEF Accounts
<1> QED
  BY <1>4, <1>5, <1>6, <1>7 DEF CurrentInv

\* The steps of a goroutine that leave the cache alone.
LEMMA QuietMoves ==
    ASSUME CurrentInv, OneWatch, CacheTypeOK', NEW w \in DOMAIN watchers,
           Stop(w) \/ List(w) \/ Relist(w) \/ NotFound(w) \/ CrdEvent(w)
    PROVE  CurrentInv'
<1>1. /\ watchers[w] \in WatcherRecords /\ watchers[w].gk \in Gks
      /\ w \in DOMAIN watchers /\ (Steady(watchers[w].gk) => Accounts(w))
      /\ (Steady(watchers[w].gk) => watchers[w].st # "done")
  BY WatchedScope DEF CurrentInv, Accounted, Manned, ManyFor
<1>2. UNCHANGED <<log, locked, status, apis, cancelled, toList, procs, resources>>
  BY DEF Stop, List, Relist, NotFound, CrdEvent, unlessWatchers
<1>3. \A k, n : VersionAt(k, n)' = VersionAt(k, n)
  BY <1>2 DEF VersionAt, EventsOf
<1>4. ASSUME NEW st \in {"done", "loaded", "list"}, NEW r \in WatcherRecords,
             r.gk = watchers[w].gk, r.ns = watchers[w].ns, r.st = st,
             watchers' = [watchers EXCEPT ![w] = r],
             st = "done" => ~Steady(watchers[w].gk)
      PROVE  CurrentInv'
  <2>1. \A k : ~Shown(w, k)'
    BY <1>4 DEF Shown
  <2>2. Accounts(w)'
    BY <2>1 DEF Accounts
  <2> QED
    BY <1>2, <1>4, <2>2, MoveKeeps
<1>5. ASSUME NEW r \in WatcherRecords,
             r.gk = watchers[w].gk, r.ns = watchers[w].ns, r.rv = watchers[w].rv,
             r.held = watchers[w].held,
             r.st = watchers[w].st \/ (watchers[w].st = "crd" /\ r.st = "watch"),
             watchers' = [watchers EXCEPT ![w] = r]
      PROVE  CurrentInv'
  <2>1. \A k : Shown(w, k)' <=> Shown(w, k)
    BY <1>2, <1>5 DEF Shown
  <2>2. Accounts(w) => Accounts(w)'
    BY <1>2, <1>3, <1>5, <2>1 DEF Accounts
  <2>3. r.st # "sending" /\ (r.st = "event" => /\ r.held = r.rv
                                               /\ InScope(log[r.held].key, r.gk, r.ns))
    BY <1>5 DEF CurrentInv, Direct, Holding
  <2>4. Steady(r.gk) => r.st # "done" /\ Accounts(w)'
    BY <1>1, <1>5, <2>2
  <2> QED
    BY <1>2, <1>5, <2>3, <2>4, MoveKeeps
<1>6. CASE Stop(w)
  <2>1. ~Steady(watchers[w].gk)
    BY <1>6 DEF Stop, Cancelled, Steady
  <2>2. [watchers[w] EXCEPT !.st = "done"] \in WatcherRecords
    BY <1>1 DEF WatcherRecords
  <2> QED
    BY <1>4, <1>6, <2>1, <2>2 DEF Stop, WatcherRecords
<1>7. CASE List(w)
  <2>1. [watchers[w] EXCEPT !.st = "loaded", !.rv = Len(log)] \in WatcherRecords
    <3>1. Len(log) \in Versions
      BY Numbers DEF Versions, CurrentInv
    <3> QED
      BY <1>1, <3>1, RecordUpdates
  <2> QED
    BY <1>1, <1>4, <1>7, <2>1 DEF List, WatcherRecords
<1>8. CASE Relist(w)
  <2>1. [watchers[w] EXCEPT !.st = "list"] \in WatcherRecords
    BY <1>1 DEF WatcherRecords
  <2> QED
    BY <1>1, <1>4, <1>8, <2>1 DEF Relist, WatcherRecords
<1>9. CASE NotFound(w)
  <2>1. [watchers[w] EXCEPT !.retry = "gone"] \in WatcherRecords
    BY <1>1 DEF WatcherRecords
  <2> QED
    BY <1>1, <1>5, <1>9, <2>1 DEF NotFound, WatcherRecords
<1>10. CASE CrdEvent(w)
  <2>1. /\ [watchers[w] EXCEPT !.st = "watch"] \in WatcherRecords
        /\ [watchers[w] EXCEPT !.st = "list"] \in WatcherRecords
    BY <1>1 DEF WatcherRecords
  <2>2. CASE watchers' = [watchers EXCEPT ![w].st = "watch"]
    BY <1>1, <1>5, <1>10, <2>1, <2>2 DEF CrdEvent, WatcherRecords
  <2>3. CASE watchers' = [watchers EXCEPT ![w].st = "list"]
    BY <1>1, <1>4, <1>10, <2>1, <2>3 DEF CrdEvent, WatcherRecords
  <2> QED
    BY <1>10, <2>2, <2>3 DEF CrdEvent
<1> QED
  BY <1>6, <1>7, <1>8, <1>9, <1>10

\* Receive: between what the goroutine knows and the next event of its scope
\* nothing happens there.
LEMMA QuietReceive ==
    ASSUME CurrentInv, OneWatch, CacheTypeOK', NEW w \in DOMAIN watchers, Receive(w)
    PROVE  CurrentInv'
<1> DEFINE me == watchers[w]
<1>0. PICK i \in Versions : i = Min(News(w))
  <2>1. Min(News(w)) \in 1..Len(log) /\ Len(log) \in Nat
    BY NewsType, Numbers DEF CurrentInv, Receive
  <2> QED
    BY <2>1 DEF Versions
<1> DEFINE r == [me EXCEPT !.st = "event", !.rv = i, !.held = i]
<1>1. /\ me \in WatcherRecords /\ me.rv \in Versions /\ Len(log) \in Nat
      /\ i \in News(w) /\ i \in 1..Len(log) /\ (Steady(me.gk) => Accounts(w))
  BY <1>0, WatchedScope, NewsType, Numbers DEF CurrentInv, Accounted, Receive
<1>2. /\ me.st = "watch" /\ watchers' = [watchers EXCEPT ![w] = r]
      /\ UNCHANGED <<log, locked, status, apis, cancelled, toList, procs, resources>>
  BY <1>0 DEF Receive, unlessWatchers
<1>3. r.gk = me.gk /\ r.ns = me.ns /\ r.st = "event" /\ r.rv = i /\ r.held = i
  BY <1>0, <1>1 DEF WatcherRecords
<1>4. watchers'[w] = r
  BY <1>2
<1>5. InScope(log[i].key, me.gk, me.ns)
  BY <1>1 DEF News
<1>6. \A j \in News(w) : i <= j
  <2>1. \A j \in News(w) : j \in Nat
    BY <1>1 DEF News, Versions
  <2> QED
    BY <1>0, <1>1, <2>1, LeastVersion
<1> HIDE DEF r
<1>7. ASSUME NEW k \in Keys \ Ignored, InScope(k, me.gk, me.ns), k # log[i].key, Accounts(w)
      PROVE  resources'[k] = VersionAt(k, i)'
  <2>1. resources[k] = VersionAt(k, me.rv)
    BY <1>2, <1>7 DEF Accounts, Shown
  <2>2. me.rv \in Nat /\ i \in Nat /\ i \in Versions /\ me.rv <= i /\ i <= Len(log)
    BY <1>1 DEF News, Versions
  <2>3. ASSUME NEW j \in (me.rv + 1)..i PROVE log[j].key # k
    <3>1. j \in News(w) => j = i
      BY <1>6, <2>2
    <3>2. InScope(log[j].key, me.gk, me.ns) => j \in News(w)
      BY <1>1, <2>2 DEF News
    <3> QED
      BY <1>7, <3>1, <3>2
  <2>4. VersionAt(k, i) = VersionAt(k, me.rv)
    BY <1>1, <2>2, <2>3, NothingNew DEF CurrentInv
  <2>5. VersionAt(k, i)' = VersionAt(k, i)
    BY <1>2 DEF VersionAt, EventsOf
  <2> QED
    BY <1>2, <2>1, <2>4, <2>5
<1>8. Accounts(w) => Accounts(w)'
  BY <1>2, <1>3, <1>4, <1>7 DEF Accounts, Shown
<1>9. Steady(r.gk) => r.st # "done" /\ Accounts(w)'
  BY <1>1, <1>3, <1>8
<1>10. r.st # "sending" /\ r.held = r.rv /\ InScope(log[r.held].key, r.gk, r.ns)
  BY <1>3, <1>5
<1> QED
  BY <1>2, <1>3, <1>9, <1>10, MoveKeeps

\* What recordEvent does to the map of the resources.
LEMMA ProcessedResource ==
    ASSUME CacheTypeOK, NEW i \in 1..Len(log), SetStore(Processed(Store, i))
    PROVE  \A k \in Keys : resources'[k] = IF k # log[i].key THEN resources[k]
                                           ELSE IF log[i].type = "Deleted" THEN 0 ELSE i
BY DEF SetStore, Processed, Removed, Set, Store, CacheTypeOK

\* Record: the resource of the event is what the event says it is.
LEMMA QuietRecord ==
    ASSUME CurrentInv, OneWatch, ~Batch, CacheTypeOK', NEW w \in DOMAIN watchers, Record(w)
    PROVE  CurrentInv'
<1> DEFINE me == watchers[w]
           i == me.held
           r == [me EXCEPT !.st = Handled(i)]
           k0 == log[i].key
<1>1. /\ me \in WatcherRecords /\ i \in 1..Len(log) /\ (Steady(me.gk) => Accounts(w))
      /\ me.st = "event" /\ i = me.rv /\ InScope(k0, me.gk, me.ns)
  BY WatchedScope, HeldType DEF CurrentInv, Accounted, Record, Holding
<1>2. /\ watchers' = [watchers EXCEPT ![w] = r]
      /\ UNCHANGED <<log, locked, status, apis, cancelled, toList, procs>>
  BY DEF Record
<1>3. r.gk = me.gk /\ r.ns = me.ns /\ r.st \in {"crd", "watch"} /\ r.rv = i
  BY <1>1 DEF WatcherRecords, Handled
<1>4. watchers'[w] = r
  BY <1>2
<1>5. \A k, n : VersionAt(k, n)' = VersionAt(k, n)
  BY <1>2 DEF VersionAt, EventsOf
<1>6. /\ \A k \in Keys : resources'[k] = resources[k] \/ (~locked /\ InScope(k, me.gk, me.ns))
      /\ \A k \in Keys \ Ignored :
            resources'[k] = IF k # k0 THEN resources[k] ELSE VersionAt(k, i)
  <2>1. CASE k0 \in Ignored /\ UNCHANGED resources
    BY <2>1
  <2>2. CASE Free /\ SetStore(Processed(Store, i))
    <3>1. \A k \in Keys : resources'[k] = IF k # k0 THEN resources[k]
                                           ELSE IF log[i].type = "Deleted" THEN 0 ELSE i
      BY <1>1, <2>2, ProcessedResource DEF CurrentInv
    <3>2. VersionAt(k0, i) = IF log[i].type = "Deleted" THEN 0 ELSE i
      BY <1>1, EventSays DEF CurrentInv
    <3> QED
      BY <1>1, <2>2, <3>1, <3>2 DEF Free
  <2> QED
    BY <2>1, <2>2 DEF Record
<1> HIDE DEF i, r, k0
<1>7. ASSUME Accounts(w) PROVE Accounts(w)'
  <2>1. \A k \in Keys \ Ignored : InScope(k, me.gk, me.ns) /\ k # k0
           => resources[k] = VersionAt(k, i)
    BY <1>1, <1>7 DEF Accounts, Shown, k0, i
  <2>2. \A k \in Keys \ Ignored : InScope(k, me.gk, me.ns) => resources'[k] = VersionAt(k, i)
    BY <1>6, <2>1
  <2> QED
    BY <1>3, <1>4, <1>5, <2>2 DEF Accounts
<1>8. Steady(r.gk) => r.st # "done" /\ Accounts(w)'
  BY <1>1, <1>3, <1>7
<1>9. r.st # "sending" /\ r.st # "event"
  BY <1>3
<1> QED
  BY <1>2, <1>3, <1>6, <1>8, <1>9, MoveKeeps

\* Replace: the scope of the goroutine is what the server has listed.
LEMMA QuietReplace ==
    ASSUME CurrentInv, OneWatch, CacheTypeOK', NEW w \in DOMAIN watchers, Replace(w)
    PROVE  CurrentInv'
<1> DEFINE me == watchers[w]
           r == [me EXCEPT !.st = "watch"]
<1>1. me \in WatcherRecords
  BY WatchedScope DEF CurrentInv
<1>2. /\ watchers' = [watchers EXCEPT ![w] = r] /\ ~locked
      /\ UNCHANGED <<log, locked, status, apis, cancelled, toList, procs>>
  BY DEF Replace, Free
<1>3. r.gk = me.gk /\ r.ns = me.ns /\ r.st = "watch" /\ r.rv = me.rv /\ watchers'[w] = r
  BY <1>1, <1>2 DEF WatcherRecords
<1>4. \A k, n : VersionAt(k, n)' = VersionAt(k, n)
  BY <1>2 DEF VersionAt, EventsOf
<1>5. \A k \in Keys :
         resources'[k] = IF InScope(k, me.gk, me.ns) THEN VersionAt(k, me.rv) ELSE resources[k]
  BY DEF Replace, SetStore, Replaced, Store
<1> HIDE DEF r
<1>6. Accounts(w)'
  BY <1>3, <1>4, <1>5 DEF Accounts
<1> QED
  BY <1>2, <1>3, <1>5, <1>6, MoveKeeps

\* Write and Delete: what the goroutines know does not change.
LEMMA QuietEvents ==
    ASSUME CurrentInv, CacheTypeOK', NEW k0, Write(k0) \/ Delete(k0)
    PROVE  CurrentInv'
<1>1. PICK e : log' = Append(log, e)
  BY DEF Write, Delete, Event
<1>2. UNCHANGED <<locked, status, apis, cancelled, toList, procs, resources, watchers>>
  BY DEF Write, Delete, Event, unlessLog
<1>3. \A w \in DOMAIN watchers :
         /\ watchers[w].rv \in Versions
         /\ watchers[w].st = "event" => log'[watchers[w].held] = log[watchers[w].held]
  <2> SUFFICES ASSUME NEW w \in DOMAIN watchers
               PROVE  /\ watchers[w].rv \in Versions
                      /\ watchers[w].st = "event" => log'[watchers[w].held] = log[watchers[w].held]
    OBVIOUS
  <2>1. \A j \in 1..Len(log) : log'[j] = log[j]
    BY <1>1, AppendProperties DEF CurrentInv, CacheTypeOK
  <2> QED
    BY <2>1, WatchedScope, HeldType DEF CurrentInv
<1>4. Direct' /\ Holding'
  BY <1>2, <1>3 DEF CurrentInv, Direct, Holding
<1>5. Emptied'
  BY <1>2 DEF CurrentInv, Emptied
<1>6. \A gk : Steady(gk)' <=> Steady(gk)
  BY <1>2 DEF Steady
<1>7. Manned'
  BY <1>2, <1>6 DEF CurrentInv, Manned, ManyFor, Watches
<1>8. Accounted'
  <2> SUFFICES ASSUME NEW w \in DOMAIN watchers, Steady(watchers[w].gk), NEW k \in Keys \ Ignored,
                      InScope(k, watchers[w].gk, watchers[w].ns), Shown(w, k)'
               PROVE  resources[k] = VersionAt(k, watchers[w].rv)'
    BY <1>2, <1>6 DEF Accounted, Accounts
  <2>1. Shown(w, k)
    BY <1>2, <1>3 DEF Shown
  <2>2. resources[k] = VersionAt(k, watchers[w].rv)
    BY <2>1 DEF CurrentInv, Accounted, Accounts
  <2>3. PICK n \in Versions : n = watchers[w].rv
    BY <1>3
  <2>4. VersionAt(k, n)' = VersionAt(k, n)
    BY <1>1, HistoryStays DEF CurrentInv
  <2> QED
    BY <1>2, <2>2, <2>3, <2>4
<1> QED
  BY <1>4, <1>5, <1>7, <1>8 DEF CurrentInv

\* Kinds that are steady after all contexts were cancelled had none, so that nobody
\* watches them.
LEMMA NobodyWatches ==
    ASSUME CurrentInv, Free, cancelled' = cancelled \cup Contexts
    PROVE  \A gk \in Gks : Steady(gk)' =>
              /\ Steady(gk) /\ apis[gk] = 0
              /\ \A w \in DOMAIN watchers : watchers[w].gk # gk
<1> SUFFICES ASSUME NEW gk \in Gks, Steady(gk)'
             PROVE  /\ Steady(gk) /\ apis[gk] = 0
                    /\ \A w \in DOMAIN watchers : watchers[w].gk # gk
  OBVIOUS
<1>1. Steady(gk)
  BY DEF Steady
<1>2. apis[gk] = 0
  <2>1. apis[gk] # 0 => <<gk, apis[gk]>> \in cancelled'
    BY DEF Contexts
  <2> QED
    BY <2>1 DEF Steady
<1> QED
  BY <1>1, <1>2 DEF CurrentInv, Manned, ManyFor

\* SyncStart and Invalidate.
LEMMA QuietCancels ==
    ASSUME CurrentInv, ~Batch, CacheTypeOK', SyncStart \/ Invalidate
    PROVE  CurrentInv'
<1>1. /\ Free /\ cancelled' = cancelled \cup Contexts /\ toList = {}
      /\ UNCHANGED <<log, watchers, procs>>
  BY DEF SyncStart, Invalidate, CurrentInv, Emptied, Free
<1>2. \A gk \in Gks : Steady(gk)' => \A w \in DOMAIN watchers : watchers[w].gk # gk
  BY <1>1, NobodyWatches
<1>3. Direct' /\ Holding'
  BY <1>1 DEF CurrentInv, Direct, Holding
<1>4. Accounted'
  BY <1>1, <1>2, WatchedScope DEF Accounted, CurrentInv
<1>5. CASE /\ locked' = TRUE /\ resources' = [k \in Keys |-> 0]
           /\ gen' = gen + 1
           /\ apis' = [gk \in Gks |-> IF Served(gk) THEN gen' ELSE 0]
           /\ toList' = UNION {{gk} \X Scopes[gk] : gk \in {g \in Gks : Served(g)}}
  <2>1. gen' # 0
    BY <1>5, Numbers DEF CurrentInv
  <2>2. Emptied'
    BY <1>5 DEF Emptied
  <2>3. ASSUME NEW gk \in Gks, Steady(gk)' PROVE ManyFor(gk)'
    <3>1. \A c \in toList' : c[1] = gk => Served(gk)
      BY <1>5
    <3>2. Served(gk) => apis'[gk] # 0 /\ \A ns \in Scopes[gk] : <<gk, ns>> \in toList'
      BY <1>5, <2>1
    <3>3. apis'[gk] # 0 => Served(gk)
      BY <1>5
    <3> QED
      BY <1>1, <1>2, <2>3, <3>1, <3>2, <3>3 DEF ManyFor
  <2> QED
    BY <1>3, <1>4, <2>2, <2>3 DEF CurrentInv, Manned
<1>6. CASE apis' = [gk \in Gks |-> 0] /\ UNCHANGED <<toList, locked>>
  <2>1. Emptied'
    BY <1>1, <1>6 DEF Emptied
  <2>2. ASSUME NEW gk \in Gks, Steady(gk)' PROVE ManyFor(gk)'
    BY <1>1, <1>2, <1>6, <2>2 DEF ManyFor
  <2> QED
    BY <1>3, <1>4, <2>1, <2>2 DEF CurrentInv, Manned
<1> QED
  BY <1>5, <1>6 DEF SyncStart, Invalidate

\* What is watched is a kind and a namespace.
LEMMA WatchablePairs ==
    ASSUME NEW c \in Watchable
    PROVE  c = <<c[1], c[2]>> /\ c[1] \in Gks /\ c[2] \in Scopes[c[1]]
<1>1. PICK gk \in Gks : c \in {gk} \X Scopes[gk]
  BY DEF Watchable
<1> QED
  BY <1>1

\* SyncList: what is listed is in the scope of no other goroutine.
LEMMA QuietList ==
    ASSUME CurrentInv, OneWatch, CacheTypeOK', NEW p \in toList, SyncList(p[1], p[2])
    PROVE  CurrentInv'
<1> DEFINE r == Watcher(p[1], p[2], gen, "watch", Len(log))
<1>1. /\ locked /\ toList' = toList \ {p} /\ UNCHANGED <<log, locked, status, cancelled, procs>>
      /\ p = <<p[1], p[2]>> /\ p[1] \in Gks /\ p[2] \in Scopes[p[1]]
  <2>1. p \in Watchable
    BY DEF CurrentInv, CacheTypeOK
  <2>2. p = <<p[1], p[2]>> /\ p[1] \in Gks /\ p[2] \in Scopes[p[1]]
    BY <2>1, WatchablePairs
  <2> QED
    BY <2>2 DEF SyncList
<1>2. \A gk : Steady(gk)' <=> Steady(gk)
  BY <1>1 DEF Steady
<1>3. Emptied' \/ UNCHANGED resources => Emptied'
  BY <1>1 DEF CurrentInv, Emptied
<1>4. CASE /\ Served(p[1]) /\ SetStore(Listed(Store, p[1], p[2]))
           /\ watchers' = Append(watchers, r) /\ UNCHANGED apis
  <2>1. \A k \in Keys : resources'[k] = IF InScope(k, p[1], p[2]) THEN Server(k) ELSE resources[k]
    BY <1>1, <1>4 DEF SetStore, Listed, Store, CurrentInv, Emptied
  <2>2. ASSUME NEW c \in Watchable, NEW k \in Keys,
               InScope(k, c[1], c[2]), InScope(k, p[1], p[2])
        PROVE  c = p
    <3>1. c = <<c[1], c[2]>> /\ c[1] = Gk[k] /\ c[2] \in Scopes[Gk[k]] /\ p[1] = Gk[k]
      BY <2>2, WatchablePairs DEF InScope
    <3>2. c[2] = p[2]
      BY <1>1, <2>2, <3>1 DEF OneWatch
    <3> QED
      BY <1>1, <3>1, <3>2
  <2>3. Emptied'
    <3>1. \A c \in toList' : c \in Watchable /\ c # p /\ c \in toList
      BY <1>1 DEF CurrentInv, CacheTypeOK
    <3> QED
      BY <1>1, <2>1, <2>2, <3>1 DEF CurrentInv, Emptied
  <2>4. LET n == Len(watchers) + 1 IN
        /\ n \in DOMAIN watchers' /\ n \notin DOMAIN watchers /\ watchers'[n] = r
        /\ DOMAIN watchers' = DOMAIN watchers \cup {n}
        /\ \A v \in DOMAIN watchers : watchers'[v] = watchers[v]
    <3> DEFINE S == WatcherRecords \cup {r}
    <3>1. watchers \in Seq(WatcherRecords)
      BY DEF CurrentInv, CacheTypeOK, WatchersOK
    <3>2. watchers \in Seq(S) /\ r \in S
      BY <3>1, SeqMonotonic
    <3>3. watchers' = Append(watchers, r)
      BY <1>4
    <3> HIDE DEF S, r
    <3>4. DOMAIN watchers = 1..Len(watchers) /\ Len(watchers) \in Nat
      BY <3>2, LenProperties
    <3>5. /\ watchers' \in Seq(S) /\ Len(watchers') = Len(watchers) + 1
          /\ \A v \in 1..Len(watchers) : watchers'[v] = watchers[v]
          /\ watchers'[Len(watchers) + 1] = r
      BY <3>2, <3>3, AppendProperties
    <3>6. DOMAIN watchers' = 1..(Len(watchers) + 1)
      BY <3>5, LenProperties
    <3> QED
      BY <3>4, <3>5, <3>6
  <2>5. PICK n \in DOMAIN watchers' :
        /\ n \notin DOMAIN watchers /\ watchers'[n] = r
        /\ DOMAIN watchers' = DOMAIN watchers \cup {n}
        /\ \A v \in DOMAIN watchers : watchers'[v] = watchers[v]
    BY <2>4
  <2>6. r.gk = p[1] /\ r.ns = p[2] /\ r.st = "watch" /\ r.rv = Len(log)
    BY DEF Watcher
  <2> HIDE DEF r
  <2>7. Direct' /\ Holding'
    BY <1>1, <2>5, <2>6 DEF CurrentInv, Direct, Holding
  <2>8. ASSUME NEW gk \in Gks, Steady(gk) PROVE ManyFor(gk)'
    <3>1. ManyFor(gk)
      BY <2>8 DEF CurrentInv, Manned
    <3>2. CASE gk # p[1]
      <4>1. \A v \in DOMAIN watchers' : watchers'[v].gk = gk =>
                v \in DOMAIN watchers /\ watchers'[v] = watchers[v]
        BY <2>5, <2>6, <3>2
      <4>2. \A v \in DOMAIN watchers : v \in DOMAIN watchers' /\ watchers'[v] = watchers[v]
        BY <2>5
      <4>3. \A c : c[1] = gk => (c \in toList' <=> c \in toList)
        BY <1>1, <3>2
      <4>4. \A ns : <<gk, ns>> \in toList' <=> <<gk, ns>> \in toList
        BY <1>1, <3>2
      <4> QED
        BY <1>1, <1>4, <3>1, <4>1, <4>2, <4>3, <4>4 DEF ManyFor, Watches
    <3>3. CASE gk = p[1]
      <4>1. apis[gk] # 0
        BY <3>1, <3>3 DEF ManyFor
      <4>2. \A v \in DOMAIN watchers : watchers[v].gk = gk => watchers[v].ns # p[2]
        BY <1>1, <3>1, <3>3 DEF ManyFor
      <4>3. ASSUME NEW v \in DOMAIN watchers', watchers'[v].gk = gk
            PROVE  /\ watchers'[v].st # "done" /\ <<gk, watchers'[v].ns>> \notin toList'
                   /\ \A u \in DOMAIN watchers' :
                         Watches(u, gk, watchers[v].ns)' => u = v
        <5>1. CASE v = n
          BY <1>1, <2>5, <2>6, <3>3, <4>2, <5>1 DEF Watches
        <5>2. CASE v \in DOMAIN watchers
          <6>1. watchers'[v] = watchers[v]
            BY <2>5, <5>2
          <6> QED
            BY <1>1, <2>5, <2>6, <3>1, <4>2, <4>3, <5>2, <6>1 DEF Watches, ManyFor
        <5> QED
          BY <2>5, <5>1, <5>2
      <4>4. ASSUME NEW ns \in Scopes[gk], <<gk, ns>> \notin toList'
            PROVE  \E v \in DOMAIN watchers' : Watches(v, gk, ns)'
        <5>1. CASE ns = p[2]
          BY <2>5, <2>6, <3>3, <5>1 DEF Watches
        <5>2. CASE ns # p[2]
          <6>1. <<gk, ns>> \notin toList
            BY <1>1, <4>4, <5>2
          <6>2. PICK v \in DOMAIN watchers : Watches(v, gk, ns)
            BY <1>1, <3>1, <4>1, <6>1 DEF ManyFor
          <6> QED
            BY <2>5, <6>2 DEF Watches
        <5> QED
          BY <5>1, <5>2
      <4> QED
        BY <1>4, <4>1, <4>3, <4>4 DEF ManyFor
    <3> QED
      BY <3>2, <3>3
  <2>9. ASSUME NEW v \in DOMAIN watchers', Steady(watchers'[v].gk), NEW k \in Keys \ Ignored,
               InScope(k, watchers'[v].gk, watchers'[v].ns), Shown(v, k)'
        PROVE  resources'[k] = VersionAt(k, watchers[v].rv)'
    <3>1. \A j, m : VersionAt(j, m)' = VersionAt(j, m)
      BY <1>1 DEF VersionAt, EventsOf
    <3>2. CASE v = n
      <4>1. resources'[k] = VersionAt(k, Len(log))
        BY <2>1, <2>5, <2>6, <2>9, <3>2 DEF Server
      <4> QED
        BY <2>5, <2>6, <3>1, <3>2, <4>1
    <3>3. CASE v \in DOMAIN watchers
      <4>1. watchers'[v] = watchers[v]
        BY <2>5, <3>3
      <4>2. /\ watchers[v].gk \in Gks /\ Steady(watchers[v].gk)
            /\ <<watchers[v].gk, watchers[v].ns>> \in Watchable
        BY <1>2, <2>9, <3>3, <4>1, WatchedScope, WatcherType DEF CurrentInv
      <4>3. <<watchers[v].gk, watchers[v].ns>> \notin toList
        BY <3>3, <4>2 DEF CurrentInv, Manned, ManyFor
      <4>4. ~InScope(k, p[1], p[2])
        BY <2>2, <2>9, <4>1, <4>2, <4>3
      <4>5. Shown(v, k)
        BY <1>1, <2>9, <4>1 DEF Shown
      <4>6. resources[k] = VersionAt(k, watchers[v].rv)
        BY <2>9, <3>3, <4>1, <4>2, <4>5 DEF CurrentInv, Accounted, Accounts
      <4> QED
        BY <2>1, <3>1, <4>1, <4>4, <4>6
    <3> QED
      BY <2>5, <3>2, <3>3
  <2>10. Accounted'
    BY <1>2, <2>9 DEF Accounted, Accounts
  <2>11. Manned'
    BY <1>2, <2>8 DEF Manned
  <2> QED
    BY <2>3, <2>7, <2>10, <2>11 DEF CurrentInv
<1>5. CASE /\ p \in Forbidden /\ apis' = [apis EXCEPT ![p[1]] = 0]
           /\ UNCHANGED <<resources, watchers>>
  <2>1. ~Steady(p[1])
    BY <1>1, <1>5 DEF Steady
  <2>2. Direct' /\ Holding' /\ Emptied'
    BY <1>1, <1>5 DEF CurrentInv, Direct, Holding, Emptied
  <2>3. Accounted'
    <3>1. \A j, m : VersionAt(j, m)' = VersionAt(j, m)
      BY <1>1 DEF VersionAt, EventsOf
    <3> QED
      BY <1>1, <1>2, <1>5, <3>1 DEF CurrentInv, Accounted, Accounts, Shown
  <2>4. ASSUME NEW gk \in Gks, Steady(gk) PROVE ManyFor(gk)'
    <3>1. gk # p[1] /\ ManyFor(gk)
      BY <2>1, <2>4 DEF CurrentInv, Manned
    <3>2. apis'[gk] = apis[gk]
      BY <1>5, <3>1 DEF CurrentInv, CacheTypeOK
    <3>3. /\ \A c : c[1] = gk => (c \in toList' <=> c \in toList)
          /\ \A ns : <<gk, ns>> \in toList' <=> <<gk, ns>> \in toList
      BY <1>1, <3>1
    <3> QED
      BY <1>1, <1>5, <3>1, <3>2, <3>3 DEF ManyFor, Watches
  <2> QED
    BY <1>2, <2>2, <2>3, <2>4 DEF CurrentInv, Manned
<1> QED
  BY <1>1, <1>4, <1>5 DEF SyncList

\* SyncSucceeds, SyncFails and Expire: a kind that RunAllAsync has not come to is not
\* watched.
LEMMA QuietEnds ==
    ASSUME CurrentInv, CacheTypeOK', SyncSucceeds \/ SyncFails \/ Expire
    PROVE  CurrentInv'
<1>1. UNCHANGED <<log, cancelled, procs, watchers, resources>>
  BY DEF SyncSucceeds, SyncFails, SyncEnd, Expire
<1>2. \A gk : Steady(gk)' <=> Steady(gk)
  BY <1>1 DEF Steady
<1>3. Direct' /\ Holding'
  BY <1>1 DEF CurrentInv, Direct, Holding
<1>4. Emptied'
  BY <1>1 DEF CurrentInv, Emptied, SyncSucceeds, SyncFails, SyncEnd, Expire
<1>5. Accounted'
  <2>1. \A j, m : VersionAt(j, m)' = VersionAt(j, m)
    BY <1>1 DEF VersionAt, EventsOf
  <2> QED
    BY <1>1, <1>2, <2>1 DEF CurrentInv, Accounted, Accounts, Shown
<1>6. ASSUME NEW gk \in Gks, Steady(gk) PROVE ManyFor(gk)'
  <2>1. ManyFor(gk)
    BY <1>6 DEF CurrentInv, Manned
  <2>2. CASE SyncSucceeds
    BY <1>1, <2>1, <2>2 DEF ManyFor, SyncSucceeds, SyncEnd, Watches
  <2>3. CASE SyncFails
    <3>1. ASSUME NEW w \in DOMAIN watchers, watchers[w].gk = gk
          PROVE  apis'[gk] = apis[gk]
      <4>1. watchers[w].ns \in Scopes[gk] /\ <<gk, watchers[w].ns>> \notin toList
        BY <2>1, <3>1, WatchedScope DEF CurrentInv, ManyFor
      <4>2. ~({gk} \X Scopes[gk] \subseteq toList)
        BY <4>1
      <4> QED
        BY <2>3, <4>2 DEF SyncFails
    <3>2. toList' = {} /\ ~locked' /\ status' = "error"
      BY <2>3 DEF SyncFails, SyncEnd
    <3> QED
      BY <1>1, <2>1, <3>1, <3>2 DEF ManyFor, Watches
  <2>4. CASE Expire
    BY <1>1, <2>1, <2>4 DEF ManyFor, Expire, Watches
  <2> QED
    BY <2>2, <2>3, <2>4
<1> QED
  BY <1>2, <1>3, <1>4, <1>5, <1>6 DEF CurrentInv, Manned

\* StopWatching: the kind is not steady any more, and nothing changes for another.
LEMMA QuietStopWatching ==
    ASSUME CurrentInv, OneWatch, CacheTypeOK', NEW w \in DOMAIN watchers, StopWatching(w)
    PROVE  CurrentInv'
<1> DEFINE me == watchers[w]
           r == [me EXCEPT !.retry = IF apis[me.gk] = 0 THEN "open" ELSE "closed"]
<1>1. me \in WatcherRecords /\ (Steady(me.gk) => me.st # "done" /\ Accounts(w))
  BY WatchedScope DEF CurrentInv, Accounted, Manned, ManyFor
<1>2. /\ ~locked /\ toList = {} /\ watchers' = [watchers EXCEPT ![w] = r]
      /\ UNCHANGED <<log, locked, status, toList, procs>>
  BY DEF StopWatching, Free, CurrentInv, Emptied
<1>3. /\ r.gk = me.gk /\ r.ns = me.ns /\ r.st = me.st /\ r.rv = me.rv /\ r.held = me.held
      /\ watchers'[w] = r
  BY <1>1, <1>2 DEF WatcherRecords
<1>4. \A k, n : VersionAt(k, n)' = VersionAt(k, n)
  BY <1>2 DEF VersionAt, EventsOf
<1> HIDE DEF r
<1>5. CASE UNCHANGED <<cancelled, apis, resources>>
  <2>1. Accounts(w) => Accounts(w)'
    BY <1>2, <1>3, <1>4, <1>5 DEF Accounts, Shown
  <2>2. r.st # "sending" /\ (r.st = "event" => /\ r.held = r.rv
                                               /\ InScope(log[r.held].key, r.gk, r.ns))
    BY <1>3 DEF CurrentInv, Direct, Holding
  <2>3. Steady(r.gk) => r.st # "done" /\ Accounts(w)'
    BY <1>1, <1>3, <2>1
  <2> QED
    BY <1>2, <1>3, <1>5, <2>2, <2>3, MoveKeeps
<1>6. CASE /\ cancelled' = cancelled \cup {<<me.gk, apis[me.gk]>>}
           /\ apis' = [apis EXCEPT ![me.gk] = 0]
           /\ SetStore(Replaced(Store, {<<me.gk, me.ns>>}, 0))
  <2>1. \A k \in Keys : Gk[k] # me.gk => resources'[k] = resources[k]
    BY <1>6 DEF SetStore, Replaced, Store, InScope
  <2>2. /\ DOMAIN watchers' = DOMAIN watchers
        /\ \A v \in DOMAIN watchers :
              watchers'[v].gk = watchers[v].gk /\ watchers'[v].ns = watchers[v].ns
              /\ watchers'[v].st = watchers[v].st /\ watchers'[v].rv = watchers[v].rv
              /\ watchers'[v].held = watchers[v].held
    BY <1>2, <1>3
  <2>3. \A gk : Steady(gk)' => Steady(gk) /\ gk # me.gk
    <3>1. \E c \in cancelled' : c[1] = me.gk
      <4>1. <<me.gk, apis[me.gk]>> \in cancelled'
        BY <1>6
      <4> QED
        BY <4>1
    <3>2. cancelled \subseteq cancelled'
      BY <1>6
    <3> QED
      BY <3>1, <3>2 DEF Steady
  <2>4. Direct' /\ Holding' /\ Emptied'
    BY <1>2, <2>2 DEF CurrentInv, Direct, Holding, Emptied
  <2>5. ASSUME NEW gk \in Gks, Steady(gk)' PROVE ManyFor(gk)'
    <3>1. ManyFor(gk)
      BY <2>3, <2>5 DEF CurrentInv, Manned
    <3>2. apis'[gk] = apis[gk]
      BY <1>6, <2>3, <2>5 DEF CurrentInv, CacheTypeOK
    <3> QED
      BY <1>2, <2>2, <3>1, <3>2 DEF ManyFor, Watches
  <2>6. Accounted'
    <3> SUFFICES ASSUME NEW v \in DOMAIN watchers, Steady(watchers[v].gk)',
                        NEW k \in Keys \ Ignored,
                        InScope(k, watchers[v].gk, watchers[v].ns), Shown(v, k)'
                 PROVE  resources'[k] = VersionAt(k, watchers[v].rv)
      BY <1>4, <2>2 DEF Accounted, Accounts
    <3>1. Steady(watchers[v].gk) /\ watchers[v].gk # me.gk
      BY <2>2, <2>3
    <3>2. Shown(v, k)
      BY <1>2, <2>2 DEF Shown
    <3>3. resources[k] = VersionAt(k, watchers[v].rv)
      BY <3>1, <3>2 DEF CurrentInv, Accounted, Accounts
    <3> QED
      BY <2>1, <3>1, <3>3 DEF InScope
  <2> QED
    BY <2>4, <2>5, <2>6 DEF CurrentInv, Manned
<1> QED
  BY <1>5, <1>6 DEF StopWatching

\* The goroutines of startMissingWatches are one for each <<kind, namespace>>.
LEMMA StartedOnce ==
    ASSUME NEW failed
    PROVE  /\ \A j \in DOMAIN Started(failed) :
                 LET r == Started(failed)[j] IN
                 /\ <<r.gk, r.ns>> \in Granted /\ r.rv = Len(log)
                 /\ r.st = IF <<r.gk, r.ns>> \in failed THEN "list" ELSE "watch"
           /\ \A i, j \in DOMAIN Started(failed) :
                 i # j => \/ Started(failed)[i].gk # Started(failed)[j].gk
                          \/ Started(failed)[i].ns # Started(failed)[j].ns
           /\ \A c \in Granted : \E j \in DOMAIN Started(failed) :
                 Started(failed)[j].gk = c[1] /\ Started(failed)[j].ns = c[2]
<1> DEFINE scopes == SetToSeq(Granted)
           n == Cardinality(Granted)
<1>1. n \in Nat /\ IsFiniteSet(Granted) /\ ExistsBijection(1..n, Granted)
  <2>1. Granted \in SUBSET Watchable
    BY GrantedInOrder
  <2>2. IsFiniteSet(Granted)
    BY <2>1, CacheAssumption, FS_Subset
  <2> QED
    BY <2>2, FS_CardinalityType
<1>2. scopes \in [1..n -> Granted] /\ IsInjective(scopes)
  <2>1. PICK f \in Bijection(1..n, Granted) : TRUE
    BY <1>1 DEF ExistsBijection
  <2>2. f \in [1..n -> Granted] /\ IsInjective(f)
    BY <2>1 DEF Bijection, Injection, IsInjective
  <2> QED
    BY <2>2 DEF SetToSeq
<1>3. \A c \in Granted : \E j \in 1..n : scopes[j] = c
  <2>1. scopes \in Injection(1..n, Granted)
    BY <1>2 DEF Injection, IsInjective
  <2>2. Cardinality(1..n) = n
    BY <1>1, FS_Interval
  <2>3. scopes \in Surjection(1..n, Granted)
    BY <1>1, <2>1, <2>2, FS_Injection
  <2> QED
    BY <2>3 DEF Surjection
<1>4. Len(scopes) = n /\ DOMAIN scopes = 1..n
  <2>1. scopes \in Seq(Granted)
    BY GrantedInOrder
  <2>2. DOMAIN scopes = 1..n
    BY <1>2
  <2> HIDE DEF scopes, n
  <2> QED
    BY <1>1, <2>1, <2>2, LenProperties
<1>5. \A j \in 1..n : /\ scopes[j] \in Granted
                      /\ scopes[j] = <<scopes[j][1], scopes[j][2]>>
  BY <1>2, GrantedInOrder
<1>6. /\ DOMAIN Started(failed) = 1..n
      /\ \A j \in 1..n : /\ Started(failed)[j].gk = scopes[j][1]
                         /\ Started(failed)[j].ns = scopes[j][2]
                         /\ Started(failed)[j].rv = Len(log)
                         /\ Started(failed)[j].st = IF scopes[j] \in failed THEN "list" ELSE "watch"
  BY <1>4 DEF Started, Watcher
<1> HIDE DEF scopes, n
<1>7. \A i, j \in 1..n : scopes[i] = scopes[j] => i = j
  BY <1>2, <1>4 DEF IsInjective
<1>8. ASSUME NEW i \in 1..n, NEW j \in 1..n,
             Started(failed)[i].gk = Started(failed)[j].gk,
             Started(failed)[i].ns = Started(failed)[j].ns
      PROVE  i = j
  <2>1. scopes[i][1] = scopes[j][1] /\ scopes[i][2] = scopes[j][2]
    BY <1>6, <1>8
  <2>2. scopes[i] = scopes[j]
    BY <1>5, <2>1, Zenon
  <2> QED
    BY <1>7, <2>2
<1>9. \A c \in Granted : \E j \in 1..n :
         Started(failed)[j].gk = c[1] /\ Started(failed)[j].ns = c[2]
  BY <1>3, <1>6
<1>10. \A j \in 1..n : <<Started(failed)[j].gk, Started(failed)[j].ns>> = scopes[j]
  BY <1>5, <1>6
<1>11. \A j \in DOMAIN Started(failed) :
          LET r == Started(failed)[j] IN
          /\ <<r.gk, r.ns>> \in Granted /\ r.rv = Len(log)
          /\ r.st = IF <<r.gk, r.ns>> \in failed THEN "list" ELSE "watch"
  <2> SUFFICES ASSUME NEW j \in 1..n
               PROVE  LET r == Started(failed)[j] IN
                      /\ <<r.gk, r.ns>> \in Granted /\ r.rv = Len(log)
                      /\ r.st = IF <<r.gk, r.ns>> \in failed THEN "list" ELSE "watch"
    BY <1>6
  <2> QED
    BY <1>5, <1>6, <1>10
<1>12. \A i, j \in DOMAIN Started(failed) :
          i # j => \/ Started(failed)[i].gk # Started(failed)[j].gk
                   \/ Started(failed)[i].ns # Started(failed)[j].ns
  BY <1>6, <1>8
<1> QED
  BY <1>6, <1>9, <1>11, <1>12

\* What startMissingWatches makes of the goroutines and of the cache.
StartedNew(w, failed) ==
    LET new == DOMAIN watchers' \ DOMAIN watchers IN
    /\ DOMAIN watchers \subseteq DOMAIN watchers'
    /\ \A v \in DOMAIN watchers :
          watchers'[v] = IF v = w THEN [watchers[w] EXCEPT !.st = "watch"] ELSE watchers[v]
    /\ \A v \in new :
          /\ <<watchers'[v].gk, watchers'[v].ns>> \in Granted
          /\ watchers'[v].rv = Len(log)
          /\ watchers'[v].st = IF <<watchers'[v].gk, watchers'[v].ns>> \in failed
                               THEN "list" ELSE "watch"
    /\ \A v, u \in new :
          v # u => watchers'[v].gk # watchers'[u].gk \/ watchers'[v].ns # watchers'[u].ns
    /\ \A c \in Granted : \E v \in new : watchers'[v].gk = c[1] /\ watchers'[v].ns = c[2]
    /\ SetStore(Replaced(Store, Granted \ failed, Len(log)))

LEMMA StartedNewly ==
    ASSUME CacheTypeOK, NEW w \in DOMAIN watchers, StartMissingWatches(w)
    PROVE  \E failed \in SUBSET Granted : StartedNew(w, failed)
<1> DEFINE r == [watchers[w] EXCEPT !.st = "watch"]
           moved == [watchers EXCEPT ![w] = r]
           N == Len(watchers)
<1>1. PICK failed \in SUBSET Granted :
         /\ watchers' = moved \o Started(failed)
         /\ SetStore(Replaced(Store, Granted \ failed, Len(log)))
  BY DEF StartMissingWatches, Started
<1> DEFINE new == Started(failed)
           M == Len(new)
<1>2. watchers \in Seq(WatcherRecords) /\ w \in 1..N /\ N \in Nat /\ DOMAIN watchers = 1..N
  BY LenProperties DEF CacheTypeOK, WatchersOK
<1>3. r \in WatcherRecords
  BY WatcherType DEF WatcherRecords
<1>4. new \in Seq(WatcherRecords') /\ M \in Nat /\ DOMAIN new = 1..M
  <2>1. new \in Seq(WatcherRecords')
    BY StartedType DEF StartMissingWatches
  <2> HIDE DEF new
  <2> QED
    BY <2>1, LenProperties
<1>5. moved \in Seq(WatcherRecords) /\ Len(moved) = N
      /\ \A v \in 1..N : moved[v] = IF v = w THEN r ELSE watchers[v]
  BY <1>2, <1>3, ExceptSeq
<1>16. watchers' = moved \o new
  BY <1>1
<1>6. /\ DOMAIN watchers' = 1..N + M
      /\ \A v \in 1..N + M : watchers'[v] = IF v <= N THEN moved[v] ELSE new[v - N]
  <2>1. moved \in Seq(WatcherRecords \cup WatcherRecords')
        /\ new \in Seq(WatcherRecords \cup WatcherRecords')
    BY <1>4, <1>5, SeqMonotonic
  <2> HIDE DEF moved, new
  <2>2. /\ moved \o new \in Seq(WatcherRecords \cup WatcherRecords')
        /\ Len(moved \o new) = Len(moved) + Len(new)
        /\ \A v \in 1..Len(moved) + Len(new) :
              (moved \o new)[v] = IF v <= Len(moved) THEN moved[v] ELSE new[v - Len(moved)]
    BY <2>1, ConcatProperties, Zenon
  <2>3. DOMAIN (moved \o new) = 1..Len(moved \o new)
    BY <2>2, LenProperties, Zenon
  <2>4. Len(moved) = N
    BY <1>5
  <2> QED
    BY <1>16, <2>2, <2>3, <2>4, Zenon
<1>7. /\ \A j \in 1..M : /\ <<new[j].gk, new[j].ns>> \in Granted /\ new[j].rv = Len(log)
                         /\ new[j].st = IF <<new[j].gk, new[j].ns>> \in failed
                                        THEN "list" ELSE "watch"
      /\ \A i, j \in 1..M : i # j => new[i].gk # new[j].gk \/ new[i].ns # new[j].ns
      /\ \A c \in Granted : \E j \in 1..M : new[j].gk = c[1] /\ new[j].ns = c[2]
  BY <1>4, StartedOnce
<1> HIDE DEF new, moved, r, M
<1>8. DOMAIN watchers' \ DOMAIN watchers = (N + 1)..(N + M)
  BY <1>2, <1>4, <1>6
<1>9. \A v \in (N + 1)..(N + M) : v - N \in 1..M /\ watchers'[v] = new[v - N]
  BY <1>2, <1>4, <1>6
<1>10. \A v \in 1..N : v \in 1..N + M /\ watchers'[v] = moved[v]
  BY <1>2, <1>4, <1>6
<1>11. \A c \in Granted : \E v \in (N + 1)..(N + M) :
          watchers'[v].gk = c[1] /\ watchers'[v].ns = c[2]
  <2> SUFFICES ASSUME NEW c \in Granted
               PROVE  \E v \in (N + 1)..(N + M) :
                         watchers'[v].gk = c[1] /\ watchers'[v].ns = c[2]
    OBVIOUS
  <2>1. PICK j \in 1..M : new[j].gk = c[1] /\ new[j].ns = c[2]
    BY <1>7
  <2>2. j + N \in (N + 1)..(N + M) /\ (j + N) - N = j
    BY <1>2, <1>4
  <2>3. watchers'[j + N] = new[j]
    BY <1>9, <2>2
  <2> QED
    BY <2>1, <2>2, <2>3
<1>12. \A v, u \in (N + 1)..(N + M) :
          v # u => watchers'[v].gk # watchers'[u].gk \/ watchers'[v].ns # watchers'[u].ns
  <2> SUFFICES ASSUME NEW v \in (N + 1)..(N + M), NEW u \in (N + 1)..(N + M), v # u
               PROVE  watchers'[v].gk # watchers'[u].gk \/ watchers'[v].ns # watchers'[u].ns
    OBVIOUS
  <2>1. v - N # u - N
    BY <1>2, <1>4
  <2> QED
    BY <1>7, <1>9, <2>1
<1>13. \A v \in (N + 1)..(N + M) :
          /\ <<watchers'[v].gk, watchers'[v].ns>> \in Granted
          /\ watchers'[v].rv = Len(log)
          /\ watchers'[v].st = IF <<watchers'[v].gk, watchers'[v].ns>> \in failed
                               THEN "list" ELSE "watch"
  BY <1>7, <1>9
<1>14. DOMAIN watchers \subseteq DOMAIN watchers'
  BY <1>2, <1>6, <1>10
<1>15. \A v \in DOMAIN watchers : watchers'[v] = IF v = w THEN r ELSE watchers[v]
  BY <1>2, <1>5, <1>10
<1>17. StartedNew(w, failed)
  <2> DEFINE more == DOMAIN watchers' \ DOMAIN watchers
  <2>1. more = (N + 1)..(N + M)
    BY <1>8
  <2> HIDE DEF more
  <2>2. /\ \A v \in more :
              /\ <<watchers'[v].gk, watchers'[v].ns>> \in Granted
              /\ watchers'[v].rv = Len(log)
              /\ watchers'[v].st = IF <<watchers'[v].gk, watchers'[v].ns>> \in failed
                                   THEN "list" ELSE "watch"
        /\ \A v, u \in more :
              v # u => watchers'[v].gk # watchers'[u].gk \/ watchers'[v].ns # watchers'[u].ns
        /\ \A c \in Granted : \E v \in more :
              watchers'[v].gk = c[1] /\ watchers'[v].ns = c[2]
    BY <1>11, <1>12, <1>13, <2>1
  <2> QED
    BY <1>1, <1>14, <1>15, <2>2 DEF StartedNew, r, more
<1> QED
  BY <1>17

\* StartMissingWatches: the steady kinds that are missing had no goroutine, and get
\* one for each of their namespaces.
LEMMA QuietStartMissing ==
    ASSUME CurrentInv, OneWatch, CacheTypeOK', NEW w \in DOMAIN watchers,
           StartMissingWatches(w)
    PROVE  CurrentInv'
<1> DEFINE me == watchers[w]
<1>1. PICK failed \in SUBSET Granted : StartedNew(w, failed)
  BY StartedNewly DEF CurrentInv
<1>2. /\ me.st = "crd" /\ me \in WatcherRecords /\ ~locked /\ toList = {} /\ gen' # 0
      /\ apis' = [gk \in Gks |-> IF gk \in Missing \ {p[1] : p \in Forbidden}
                                THEN gen' ELSE apis[gk]]
      /\ UNCHANGED <<log, locked, status, cancelled, toList, procs>>
  BY WatchedScope, Numbers DEF StartMissingWatches, Free, CurrentInv, Emptied
<1>3. \A gk : Steady(gk)' <=> Steady(gk)
  BY <1>2 DEF Steady
<1>4. ASSUME NEW v \in DOMAIN watchers
      PROVE  /\ v \in DOMAIN watchers'
             /\ watchers'[v].gk = watchers[v].gk /\ watchers'[v].ns = watchers[v].ns
             /\ watchers'[v].rv = watchers[v].rv /\ watchers'[v].held = watchers[v].held
             /\ \/ watchers'[v].st = watchers[v].st
                \/ watchers[v].st = "crd" /\ watchers'[v].st = "watch"
  <2>1. v \in DOMAIN watchers'
    BY <1>1 DEF StartedNew
  <2>2. CASE v = w
    BY <1>1, <1>2, <2>1, <2>2 DEF StartedNew, WatcherRecords
  <2>3. CASE v # w
    BY <1>1, <2>1, <2>3 DEF StartedNew
  <2> QED
    BY <2>2, <2>3
<1>5. ASSUME NEW v \in DOMAIN watchers', v \notin DOMAIN watchers
      PROVE  /\ watchers'[v].st \in {"list", "watch"} /\ watchers'[v].rv = Len(log)
             /\ <<watchers'[v].gk, watchers'[v].ns>> \in Granted
             /\ watchers'[v].gk \in Missing
             /\ watchers'[v].st = "watch"
                   => <<watchers'[v].gk, watchers'[v].ns>> \in Granted \ failed
             /\ \A u \in DOMAIN watchers' \ DOMAIN watchers :
                   v # u => watchers'[v].gk # watchers'[u].gk \/ watchers'[v].ns # watchers'[u].ns
  <2>1. <<watchers'[v].gk, watchers'[v].ns>> \in Granted
    BY <1>1, <1>5 DEF StartedNew
  <2>2. watchers'[v].gk \in Missing
    BY <2>1, GrantedInOrder
  <2>3. /\ watchers'[v].rv = Len(log)
        /\ watchers'[v].st = IF <<watchers'[v].gk, watchers'[v].ns>> \in failed
                             THEN "list" ELSE "watch"
    BY <1>1, <1>5 DEF StartedNew
  <2>4. \A u \in DOMAIN watchers' \ DOMAIN watchers :
           v # u => watchers'[v].gk # watchers'[u].gk \/ watchers'[v].ns # watchers'[u].ns
    BY <1>1, <1>5 DEF StartedNew
  <2>5. /\ watchers'[v].st \in {"list", "watch"}
        /\ watchers'[v].st = "watch" => <<watchers'[v].gk, watchers'[v].ns>> \in Granted \ failed
    BY <2>1, <2>3
  <2> QED
    BY <2>1, <2>2, <2>3, <2>4, <2>5
<1>6. \A gk \in Gks : Steady(gk) /\ gk \in Missing => \A v \in DOMAIN watchers : watchers[v].gk # gk
  BY DEF Missing, CurrentInv, Manned, ManyFor
<1>7. Direct' /\ Holding'
  <2>1. Direct'
    <3>1. ASSUME NEW v \in DOMAIN watchers' PROVE watchers'[v].st # "sending"
      <4>1. CASE v \in DOMAIN watchers
        <5>1. watchers[v].st # "sending"
          BY <4>1 DEF CurrentInv, Direct
        <5> QED
          BY <1>4, <4>1, <5>1
      <4>2. CASE v \notin DOMAIN watchers
        BY <1>5, <4>2
      <4> QED
        BY <4>1, <4>2
    <3> QED
      BY <1>2, <3>1 DEF CurrentInv, Direct
  <2>2. ASSUME NEW v \in DOMAIN watchers', watchers'[v].st = "event"
        PROVE  /\ watchers'[v].held = watchers'[v].rv
               /\ InScope(log[watchers'[v].held].key, watchers'[v].gk, watchers'[v].ns)
    <3>1. v \in DOMAIN watchers /\ watchers[v].st = "event"
      BY <1>4, <1>5, <2>2
    <3> QED
      BY <1>4, <3>1 DEF CurrentInv, Holding
  <2> QED
    BY <1>2, <2>1, <2>2 DEF Holding
<1>8. Emptied'
  BY <1>2 DEF Emptied
<1>9. ASSUME NEW gk \in Gks, Steady(gk) PROVE ManyFor(gk)'
  <2>1. ManyFor(gk)
    BY <1>9 DEF CurrentInv, Manned
  <2>2. CASE gk \notin Missing
    <3>1. \A v \in DOMAIN watchers' : watchers'[v].gk = gk => v \in DOMAIN watchers
      BY <1>5, <2>2
    <3>2. apis'[gk] = apis[gk]
      BY <1>2, <2>2
    <3>3. \A v \in DOMAIN watchers' : watchers'[v].gk = gk =>
             watchers'[v].st # "done" /\ watchers[v].st # "done"
      <4> SUFFICES ASSUME NEW v \in DOMAIN watchers', watchers'[v].gk = gk
                   PROVE  watchers'[v].st # "done" /\ watchers[v].st # "done"
        OBVIOUS
      <4>1. v \in DOMAIN watchers /\ watchers[v].gk = gk
        BY <1>4, <3>1
      <4>2. watchers[v].st # "done"
        BY <2>1, <4>1 DEF ManyFor
      <4> QED
        BY <1>4, <4>1, <4>2
    <3>4. \A ns : \A v \in DOMAIN watchers : Watches(v, gk, ns)' <=> Watches(v, gk, ns)
      BY <1>4 DEF Watches
    <3>5. \A ns : \A v \in DOMAIN watchers' : Watches(v, gk, ns)' => v \in DOMAIN watchers
      BY <3>1 DEF Watches
    <3>6. ASSUME NEW v \in DOMAIN watchers', watchers'[v].gk = gk
          PROVE  \A u \in DOMAIN watchers' : Watches(u, gk, watchers[v].ns)' => u = v
      <4>1. v \in DOMAIN watchers /\ watchers[v].gk = gk /\ watchers'[v].ns = watchers[v].ns
        BY <1>4, <3>1, <3>6
      <4>2. \A u \in DOMAIN watchers : Watches(u, gk, watchers[v].ns) => u = v
        BY <2>1, <4>1 DEF ManyFor
      <4> QED
        BY <3>4, <3>5, <4>1, <4>2
    <3>7. \A ns \in Scopes[gk] : (\E v \in DOMAIN watchers : Watches(v, gk, ns))
             => \E v \in DOMAIN watchers' : Watches(v, gk, ns)'
      BY <1>4, <3>4
    <3>8. apis'[gk] = 0 => \A v \in DOMAIN watchers' : watchers'[v].gk # gk
      BY <1>4, <2>1, <3>1, <3>2 DEF ManyFor
    <3> QED
      BY <1>2, <2>1, <3>2, <3>3, <3>6, <3>7, <3>8 DEF ManyFor
  <2>3. CASE gk \in Missing
    <3>1. gk \notin {p[1] : p \in Forbidden}
      <4> SUFFICES ASSUME NEW p \in Forbidden, p[1] = gk PROVE FALSE
        OBVIOUS
      <4>1. p = <<p[1], p[2]>> /\ p[2] \in Scopes[p[1]]
        BY CacheAssumption, WatchablePairs
      <4> QED
        BY <1>9, <4>1 DEF Steady
    <3>2. apis'[gk] # 0
      BY <1>2, <2>3, <3>1
    <3>3. \A v \in DOMAIN watchers' : watchers'[v].gk = gk => v \notin DOMAIN watchers
      BY <1>4, <1>6, <1>9, <2>3
    <3>4. ASSUME NEW v \in DOMAIN watchers', watchers'[v].gk = gk
          PROVE  /\ watchers'[v].st # "done"
                 /\ \A u \in DOMAIN watchers' : Watches(u, gk, watchers[v].ns)' => u = v
      BY <1>5, <3>3, <3>4 DEF Watches
    <3>5. ASSUME NEW ns \in Scopes[gk] PROVE \E v \in DOMAIN watchers' : Watches(v, gk, ns)'
      <4>1. <<gk, ns>> \in Granted
        BY <1>9, <2>3 DEF Granted, Steady
      <4> QED
        BY <1>1, <4>1 DEF StartedNew, Watches
    <3> QED
      BY <1>2, <3>2, <3>4, <3>5 DEF ManyFor
  <2> QED
    BY <2>2, <2>3
<1>10. ASSUME NEW v \in DOMAIN watchers', Steady(watchers'[v].gk), NEW k \in Keys \ Ignored,
              InScope(k, watchers'[v].gk, watchers'[v].ns), Shown(v, k)'
       PROVE  resources'[k] = VersionAt(k, watchers[v].rv)'
  <2>1. \A j, m : VersionAt(j, m)' = VersionAt(j, m)
    BY <1>2 DEF VersionAt, EventsOf
  <2>2. \A j \in Keys : resources'[j] = IF \E c \in Granted \ failed : InScope(j, c[1], c[2])
                                        THEN VersionAt(j, Len(log)) ELSE resources[j]
    BY <1>1 DEF StartedNew, SetStore, Replaced, Store
  <2>3. CASE v \in DOMAIN watchers
    <3>1. watchers[v].gk \notin Missing /\ watchers[v].gk = Gk[k]
      BY <1>4, <1>6, <1>10, <2>3, WatchedScope DEF InScope, CurrentInv
    <3>2. \A c \in Granted : ~InScope(k, c[1], c[2])
      BY <3>1, GrantedInOrder DEF InScope
    <3>3. Shown(v, k)
      BY <1>2, <1>4, <1>10, <2>3 DEF Shown
    <3>4. resources[k] = VersionAt(k, watchers[v].rv)
      BY <1>4, <1>10, <2>3, <3>3 DEF CurrentInv, Accounted, Accounts
    <3> QED
      BY <1>4, <2>1, <2>2, <2>3, <3>2, <3>4
  <2>4. CASE v \notin DOMAIN watchers
    <3> DEFINE c == <<watchers'[v].gk, watchers'[v].ns>>
    <3>1. watchers'[v].st = "watch"
      BY <1>5, <1>10, <2>4 DEF Shown
    <3>2. c \in Granted \ failed /\ InScope(k, c[1], c[2])
      BY <1>5, <1>10, <2>4, <3>1
    <3>3. resources'[k] = VersionAt(k, Len(log))
      BY <2>2, <3>2
    <3> QED
      BY <1>5, <2>1, <2>4, <3>3
  <2> QED
    BY <2>3, <2>4
<1>11. Accounted'
  BY <1>3, <1>10 DEF Accounted, Accounts
<1>12. Manned'
  BY <1>3, <1>9 DEF Manned
<1> QED
  BY <1>7, <1>8, <1>11, <1>12 DEF CurrentInv

\* Every step keeps the cache and what the goroutines know of it together.
LEMMA CurrentKept ==
    ASSUME CurrentInv, ~Batch, OneWatch, [Next]_vars
    PROVE  CurrentInv'
<1>1. CacheTypeOK'
  BY CacheTypeKept DEF CurrentInv
<1>2. procs = <<>> /\ \A w \in DOMAIN watchers : watchers[w].st # "sending"
  BY DEF CurrentInv, Direct
<1>3. \A p \in DOMAIN procs : ~ProcStep(p)
  BY <1>2
<1>4. ASSUME NEW w \in DOMAIN watchers, WatchStep(w) \/ Relist(w)
      PROVE  CurrentInv'
  <2>1. ~SendOnClosed(w) /\ \A p \in DOMAIN procs : ~Send(w, p)
    BY <1>2 DEF SendOnClosed, Send
  <2>2. CASE Stop(w) \/ List(w) \/ Relist(w) \/ NotFound(w) \/ CrdEvent(w)
    BY <1>1, <2>2, QuietMoves
  <2>3. CASE Replace(w) \/ Receive(w) \/ Record(w)
    BY <1>1, <2>3, QuietReplace, QuietReceive, QuietRecord
  <2>4. CASE StopWatching(w) \/ StartMissingWatches(w)
    BY <1>1, <2>4, QuietStopWatching, QuietStartMissing
  <2> QED
    BY <1>4, <2>1, <2>2, <2>3, <2>4 DEF WatchStep
<1>5. ASSUME NEW k, Write(k) \/ Delete(k) PROVE CurrentInv'
  BY <1>1, <1>5, QuietEvents
<1>6. CASE SyncStep \/ Invalidate \/ Expire
  BY <1>1, <1>6, QuietCancels, QuietEnds, QuietList DEF SyncStep
<1>7. CASE UNCHANGED vars
  <2>1. Direct' /\ Holding' /\ Emptied'
    BY <1>7 DEF vars, CurrentInv, Direct, Holding, Emptied
  <2>2. Manned'
    BY <1>7 DEF vars, CurrentInv, Manned, Steady, ManyFor, Watches
  <2>3. \A k, n : VersionAt(k, n)' = VersionAt(k, n)
    BY <1>7 DEF vars, VersionAt, EventsOf
  <2>4. Accounted'
    BY <1>7, <2>3 DEF vars, CurrentInv, Accounted, Steady, Accounts, Shown
  <2> QED
    BY <1>1, <2>1, <2>2, <2>4 DEF CurrentInv
<1> QED
  BY <1>3, <1>4, <1>5, <1>6, <1>7 DEF Next, Idle

\* When nothing is under way the goroutines know what the server has.
LEMMA CurrentShows == CurrentInv /\ OneWatch => QuietMeansCurrent
<1> SUFFICES ASSUME CurrentInv, OneWatch, Quiet, NEW k \in Keys \ Ignored,
                    Permitted(k), apis[Gk[k]] # 0, \A c \in cancelled : c[1] # Gk[k]
             PROVE  Current(k)
  BY DEF QuietMeansCurrent
<1>1. Gk[k] \in Gks /\ Steady(Gk[k])
  BY CacheAssumption DEF Steady, Permitted
<1>2. PICK ns \in Scopes[Gk[k]] : InScope(k, Gk[k], ns)
  BY DEF OneWatch
<1>3. toList = {} /\ status = "synced" /\ ManyFor(Gk[k])
  BY <1>1 DEF CurrentInv, Emptied, Manned, Quiet, Free
<1>4. PICK w \in DOMAIN watchers : Watches(w, Gk[k], ns)
  BY <1>2, <1>3 DEF ManyFor
<1>5. /\ watchers[w].gk = Gk[k] /\ watchers[w].ns = ns
      /\ watchers[w].st = "watch" /\ News(w) = {}
  BY <1>3, <1>4 DEF Watches, ManyFor, Quiet
<1>6. resources[k] = VersionAt(k, watchers[w].rv)
  BY <1>1, <1>2, <1>5 DEF CurrentInv, Accounted, Accounts, Shown
<1>7. /\ watchers[w].rv \in Versions /\ Len(log) \in Versions /\ watchers[w].rv <= Len(log)
  BY WatchedScope, Numbers DEF CurrentInv, Versions
<1>8. \A i \in (watchers[w].rv + 1)..Len(log) : log[i].key # k
  BY <1>2, <1>5 DEF News
<1>9. VersionAt(k, Len(log)) = VersionAt(k, watchers[w].rv)
  BY <1>7, <1>8, NothingNew DEF CurrentInv
<1> QED
  BY <1>6, <1>9 DEF Current, Server

\* It starts so.
LEMMA CurrentInit == Init => CurrentInv
<1> SUFFICES ASSUME Init PROVE Direct /\ Holding /\ Emptied /\ Manned /\ Accounted
  BY CacheTypeInit DEF CurrentInv
<1>1. DOMAIN watchers = {}
  BY DEF Init
<1>2. Direct /\ Holding /\ Emptied /\ Accounted
  BY <1>1 DEF Init, Direct, Holding, Emptied, Accounted
<1>3. Manned
  BY <1>1 DEF Init, Manned, ManyFor
<1> QED
  BY <1>2, <1>3

\* When everything the cache was told is processed, it shows the resources as the
\* server has them, where events are handled one by one (watchEvents, recordEvent)
\* and every resource is seen by one watch: its goroutine has shown the cache the
\* version it knows of each, from the list or from the last event.  A batch breaks
\* this, for the events in its buffer are older than the list that its watch may
\* have made in the meantime (processEvents, loadInitialState).
THEOREM QuietCorrect == ~Batch /\ OneWatch => (Spec => []QuietMeansCurrent)
<1> SUFFICES ASSUME ~Batch, OneWatch PROVE Spec => []QuietMeansCurrent
  OBVIOUS
<1>1. Init => CurrentInv
  BY CurrentInit
<1>2. CurrentInv /\ [Next]_vars => CurrentInv'
  BY CurrentKept
<1>3. CurrentInv => QuietMeansCurrent
  BY CurrentShows
<1> QED
  BY <1>1, <1>2, <1>3, PTL DEF Spec

\* The same of the part of the model-checked system whose events are handled one by
\* one.
THEOREM PartsCorrect == ~Batch /\ OneWatch => (PartsSpec => []QuietIsCurrent)
<1> SUFFICES ASSUME ~Batch, OneWatch PROVE PartsSpec => []QuietIsCurrent
  OBVIOUS
<1> DEFINE PartsInv == part = "crds" => CurrentInv
<1>1. PartsInit => PartsInv
  BY CurrentInit DEF PartsInit
<1>2. PartsInv /\ [PartsNext]_<<part, vars>> => PartsInv'
  <2> SUFFICES ASSUME PartsInv, [PartsNext]_<<part, vars>>, part' = "crds" PROVE CurrentInv'
    OBVIOUS
  <2>1. part = "crds" /\ CurrentInv
    BY DEF PartsNext, OfCrds, OfLive
  <2>2. [Next]_vars
    BY <2>1 DEF PartsNext, OfCrds, OfLive
  <2> QED
    BY <2>1, <2>2, CurrentKept
<1>3. PartsInv => QuietIsCurrent
  BY CurrentShows DEF QuietIsCurrent
<1> QED
  BY <1>1, <1>2, <1>3, PTL DEF PartsSpec

=============================================================================
