---------------------------- MODULE Listing_proofs ----------------------------
(***************************************************************************)
(* Proofs about Listing, for every set of APIs, any number of permits and  *)
(* lists of every length: the semaphore's queue is sound, and a            *)
(* synchronization that reports success left no API out without a reason.  *)
(***************************************************************************)
EXTENDS Listing, FiniteSetTheorems, SequenceTheorems, TLAPS

-----------------------------------------------------------------------------
(* The invariant                                                            *)

\* Where goroutines can be.
WatcherStates == {"none", "watch", "ask", "wait", "list", "loaded", "done"}
ListerStates == {"none", "start", "ask", "wait", "list", "review", "dropping", "failing"}

Places ==
    /\ st \in [Routines -> ListerStates \cup WatcherStates]
    /\ \A r \in Listers : st[r] \in ListerStates
    /\ \A w \in Watchers : st[w] \in WatcherStates

\* Types; only goroutines of former contexts are cancelled.
Types ==
    /\ rbac \in {"disabled", "normal", "strict"}
    /\ locked \in BOOLEAN /\ failed \in BOOLEAN
    /\ toSpawn \subseteq found /\ found \subseteq Apis
    /\ context \in Contexts \cup {0}
    /\ apisMeta \in [Apis -> {0, context}]
    /\ cancelled \subseteq Watchers /\ \A w \in cancelled : w[1] # context
    /\ status \in {"unsynced", "synced", "error"} /\ pc \in {"spawn", "check", "wait"}
    /\ Places
    /\ listed \in [Routines -> 0 .. Items] /\ cached \in [Apis -> 0 .. Items]

\* Those that wait are in the queue once, and those that list hold the permits.
Queued ==
    /\ waiting \in Seq(Routines)
    /\ \A i, j \in DOMAIN waiting : waiting[i] = waiting[j] => i = j
    /\ \A r \in Routines : st[r] = "wait" <=> \E i \in DOMAIN waiting : waiting[i] = r
    /\ holders = {r \in Routines : st[r] = "list"}
    /\ IsFiniteSet(holders) /\ Cardinality(holders) <= Permits

\* Why an API may be left out.
Refused(a) == rbac = "normal" \/ (rbac = "strict" /\ a \notin Permitted)

\* Listed to the end, and watched.
Complete(a) ==
    /\ apisMeta[a] = context /\ apisMeta[a] # 0 /\ cached[a] = Items
    /\ st[<<context, a>>] \notin {"none", "done"}

Excused(a) == apisMeta[a] = 0 /\ Refused(a)

\* How far the list of an API has come.
Progress(a) ==
    /\ st[Lister(a)] # "none" => locked /\ a \in found \ toSpawn
    /\ locked /\ a \in toSpawn => apisMeta[a] = 0 /\ cached[a] = 0
    /\ locked /\ (a \in toSpawn \/ st[Lister(a)] # "none") =>
          st[<<context, a>>] \in {"none", "done"}
    /\ st[Lister(a)] = "start" => apisMeta[a] = 0
    /\ st[Lister(a)] \notin {"none", "start"} => apisMeta[a] = context
    /\ st[Lister(a)] \in {"start", "ask", "wait"} => cached[a] = 0
    /\ st[Lister(a)] = "wait" => listed[Lister(a)] = 0
    /\ st[Lister(a)] = "list" => cached[a] = listed[Lister(a)]
    /\ st[Lister(a)] = "review" => rbac = "strict"
    /\ st[Lister(a)] = "dropping" => Refused(a)
    /\ locked /\ a \in found \ toSpawn /\ st[Lister(a)] = "none" =>
          failed \/ Excused(a) \/ Complete(a)
    /\ ~locked /\ status = "synced" /\ a \in found => Excused(a) \/ Complete(a)

\* What a goroutine that goes on relies upon.
Waits ==
    /\ locked => context # 0
    /\ locked /\ pc = "wait" => failed \/ toSpawn = {}
    /\ \A w \in Watchers : st[w] = "loaded" => listed[w] = Items

ListingInv == Types /\ Queued /\ Waits /\ \A a \in Apis : Progress(a)

\* The goroutines: listers of sync() and watchers.
LEMMA Sorts ==
    /\ \A a \in Apis : Lister(a) \in Listers /\ Lister(a) \in Routines /\ Lister(a) \notin Watchers
    /\ \A a, b \in Apis : Lister(a) = Lister(b) => a = b
    /\ \A r \in Listers : r[2] \in Apis /\ r = Lister(r[2])
    /\ \A w \in Watchers : w \in Routines /\ w \notin Listers /\ w[1] \in Contexts /\ w[2] \in Apis
    /\ \A c \in Contexts, a \in Apis : <<c, a>> \in Watchers
    /\ \A c, d \in Contexts, a, b \in Apis : <<c, a>> = <<d, b>> => c = d /\ a = b
    /\ \A r \in Routines : r \in Listers \/ r \in Watchers
    /\ 0 \notin Contexts
BY ListingAssumption DEF Lister, Listers, Watchers, Routines

-----------------------------------------------------------------------------
(* The semaphore                                                            *)

\* A step of goroutines that neither wait nor list.
LEMMA QueuedKept ==
    ASSUME Queued, UNCHANGED <<holders, waiting>>,
           \A r \in Routines : /\ st'[r] = "wait" <=> st[r] = "wait"
                               /\ st'[r] = "list" <=> st[r] = "list"
    PROVE  Queued'
BY DEF Queued

\* A permit that is given back goes to the first that waits.
LEMMA ReleaseKeeps ==
    ASSUME Types, Queued, NEW r \in Routines, st[r] = "list",
           NEW states \in [Routines -> ListerStates \cup WatcherStates],
           states[r] \notin {"wait", "list"},
           \A q \in Routines \ {r} : /\ states[q] = "wait" <=> st[q] = "wait"
                                     /\ states[q] = "list" <=> st[q] = "list",
           Release(r, states)
    PROVE  /\ Queued' /\ st' \in [Routines -> ListerStates \cup WatcherStates]
           /\ \A q \in Routines : \/ st'[q] = states[q]
                                  \/ states[q] = "wait" /\ st[q] = "wait" /\ st'[q] = "list"
<1>1. r \in holders /\ IsFiniteSet(holders \ {r})
      /\ Cardinality(holders \ {r}) = Cardinality(holders) - 1
  <2>1. r \in holders /\ IsFiniteSet(holders)
    BY DEF Queued
  <2> QED
    BY <2>1, FS_RemoveElement
<1>2. Cardinality(holders) \in Nat /\ Cardinality(holders) <= Permits /\ Permits \in Nat
  BY FS_CardinalityType, ListingAssumption DEF Queued
<1>3. CASE waiting = <<>>
  <2>1. holders' = holders \ {r} /\ waiting' = <<>> /\ st' = states
    BY <1>3 DEF Release
  <2>2. IsFiniteSet(holders') /\ Cardinality(holders') <= Permits
    BY <1>1, <1>2, <2>1
  <2>3. \A q \in Routines : st[q] # "wait"
    BY <1>3 DEF Queued
  <2>4. Queued'
    BY <1>3, <2>1, <2>2, <2>3 DEF Queued
  <2> QED
    BY <2>1, <2>4
<1>4. CASE waiting # <<>>
  <2> DEFINE next == Head(waiting)
  <2>1. /\ holders' = (holders \ {r}) \cup {next} /\ waiting' = Tail(waiting)
        /\ st' = [states EXCEPT ![next] = "list"]
    BY <1>4 DEF Release
  <2>2. /\ waiting \in Seq(Routines) /\ Len(waiting) \in Nat \ {0}
        /\ DOMAIN waiting = 1 .. Len(waiting) /\ next = waiting[1]
    BY <1>4, EmptySeq, LenProperties DEF Queued
  <2>3. /\ waiting' \in Seq(Routines) /\ Len(waiting') = Len(waiting) - 1
        /\ DOMAIN waiting' = 1 .. Len(waiting')
        /\ \A i \in 1 .. Len(waiting') : waiting'[i] = waiting[i + 1]
    BY <1>4, <2>1, <2>2, HeadTailProperties, LenProperties
  <2>4. next \in Routines /\ st[next] = "wait" /\ next # r /\ states[next] = "wait"
    BY <2>2 DEF Queued
  <2>5. next \notin holders /\ next \notin holders \ {r}
    BY <2>4 DEF Queued
  <2>6. IsFiniteSet(holders') /\ Cardinality(holders') = Cardinality(holders)
    <3>1. /\ IsFiniteSet((holders \ {r}) \cup {next})
          /\ Cardinality((holders \ {r}) \cup {next}) = Cardinality(holders \ {r}) + 1
      BY <1>1, <2>5, FS_AddElement
    <3> QED
      BY <1>1, <1>2, <2>1, <3>1
  <2>7. \A i, j \in DOMAIN waiting' : waiting'[i] = waiting'[j] => i = j
    <3> SUFFICES ASSUME NEW i \in 1 .. Len(waiting'), NEW j \in 1 .. Len(waiting'),
                        waiting'[i] = waiting'[j]
                 PROVE  i = j
      BY <2>3
    <3>1. i + 1 \in DOMAIN waiting /\ j + 1 \in DOMAIN waiting
      BY <2>2, <2>3
    <3>2. waiting[i + 1] = waiting[j + 1]
      BY <2>3
    <3>3. i + 1 = j + 1
      BY <3>1, <3>2 DEF Queued
    <3> QED
      BY <2>2, <2>3, <3>3
  <2>8. \A q \in Routines : st'[q] = IF q = next THEN "list" ELSE states[q]
    BY <2>1, <2>4
  <2>9. ASSUME NEW q \in Routines
        PROVE  st'[q] = "wait" <=> \E i \in DOMAIN waiting' : waiting'[i] = q
    <3>1. (\E i \in DOMAIN waiting' : waiting'[i] = q) <=> st[q] = "wait" /\ q # next
      <4>1. ASSUME NEW i \in DOMAIN waiting', waiting'[i] = q
            PROVE  st[q] = "wait" /\ q # next
        <5>1. i + 1 \in DOMAIN waiting /\ waiting[i + 1] = q /\ 1 \in DOMAIN waiting
              /\ i + 1 # 1
          BY <2>2, <2>3, <4>1
        <5> QED
          BY <2>2, <5>1 DEF Queued
      <4>2. ASSUME st[q] = "wait", q # next
            PROVE  \E i \in DOMAIN waiting' : waiting'[i] = q
        <5>1. PICK j \in DOMAIN waiting : waiting[j] = q
          BY <4>2 DEF Queued
        <5>2. j - 1 \in DOMAIN waiting' /\ waiting'[j - 1] = q
          BY <2>2, <2>3, <4>2, <5>1
        <5> QED
          BY <5>2
      <4> QED
        BY <4>1, <4>2
    <3> QED
      BY <2>4, <2>8, <3>1
  <2>10. holders' = {q \in Routines : st'[q] = "list"}
    BY <2>1, <2>4, <2>8 DEF Queued
  <2>11. Queued'
    BY <1>2, <2>3, <2>6, <2>7, <2>9, <2>10 DEF Queued
  <2>12. st' \in [Routines -> ListerStates \cup WatcherStates]
    BY <2>1, <2>4 DEF ListerStates
  <2> QED
    BY <2>4, <2>8, <2>11, <2>12
<1> QED
  BY <1>3, <1>4

\* Who asks for a permit gets one, or is the last to wait.
LEMMA AskKeeps ==
    ASSUME Types, Queued, NEW r \in Routines, Ask(r)
    PROVE  Queued' /\ \E s \in {"list", "wait"} : st' = [st EXCEPT ![r] = s]
<1>1. st[r] = "ask" /\ st \in [Routines -> ListerStates \cup WatcherStates]
  BY DEF Ask, Types, Places
<1>2. CASE Cardinality(holders) < Permits /\ waiting = <<>>
  <2>1. holders' = holders \cup {r} /\ st' = [st EXCEPT ![r] = "list"] /\ waiting' = waiting
    BY <1>2 DEF Ask
  <2>2. r \notin holders
    BY <1>1 DEF Queued
  <2>3. IsFiniteSet(holders') /\ Cardinality(holders') = Cardinality(holders) + 1
    BY <2>1, <2>2, FS_AddElement DEF Queued
  <2>4. Cardinality(holders') <= Permits
    BY <1>2, <2>3, FS_CardinalityType, ListingAssumption DEF Queued
  <2> QED
    BY <1>1, <2>1, <2>3, <2>4 DEF Queued
<1>3. CASE ~(Cardinality(holders) < Permits /\ waiting = <<>>)
  <2>1. holders' = holders /\ st' = [st EXCEPT ![r] = "wait"] /\ waiting' = Append(waiting, r)
    BY <1>3 DEF Ask
  <2>2. /\ waiting \in Seq(Routines) /\ Len(waiting) \in Nat
        /\ DOMAIN waiting = 1 .. Len(waiting)
    BY LenProperties DEF Queued
  <2>3. /\ waiting' \in Seq(Routines) /\ Len(waiting') = Len(waiting) + 1
        /\ DOMAIN waiting' = 1 .. Len(waiting')
        /\ \A i \in 1 .. Len(waiting) : waiting'[i] = waiting[i]
        /\ waiting'[Len(waiting')] = r
    BY <2>1, <2>2, AppendProperties, LenProperties
  <2>4. \A i \in DOMAIN waiting : waiting[i] # r
    BY <1>1 DEF Queued
  <2>5. \A i, j \in DOMAIN waiting' : waiting'[i] = waiting'[j] => i = j
    BY <2>2, <2>3, <2>4 DEF Queued
  <2>6. \A q \in Routines : (\E i \in DOMAIN waiting' : waiting'[i] = q)
                            <=> q = r \/ \E i \in DOMAIN waiting : waiting[i] = q
    BY <2>2, <2>3
  <2>7. \A q \in Routines : st'[q] = IF q = r THEN "wait" ELSE st[q]
    BY <1>1, <2>1
  <2>8. holders' = {q \in Routines : st'[q] = "list"}
    BY <1>1, <2>1, <2>7 DEF Queued
  <2> QED
    BY <2>1, <2>3, <2>5, <2>6, <2>7, <2>8 DEF Queued
<1> QED
  BY <1>2, <1>3

\* Who gives up leaves the queue.
LEMMA GiveUpKeeps ==
    ASSUME Types, Queued, NEW w \in Routines, GiveUp(w)
    PROVE  Queued'
<1>1. st[w] = "wait" /\ st' = [st EXCEPT ![w] = "done"] /\ holders' = holders
  BY DEF GiveUp
<1>2. PICK k \in DOMAIN waiting : waiting[k] = w /\ waiting' = RemoveAt(waiting, k)
  BY DEF GiveUp
<1>3. /\ waiting \in Seq(Routines) /\ Len(waiting) \in Nat
      /\ DOMAIN waiting = 1 .. Len(waiting) /\ k \in 1 .. Len(waiting)
  BY <1>2, LenProperties DEF Queued
<1> DEFINE before == SubSeq(waiting, 1, k - 1)
           after == SubSeq(waiting, k + 1, Len(waiting))
<1>4. \A i \in 1 .. Len(waiting) : waiting[i] \in Routines
  BY <1>3, ElementOfSeq
<1>5. /\ before \in Seq(Routines) /\ Len(before) = k - 1
      /\ \A i \in 1 .. k - 1 : before[i] = waiting[i]
  BY <1>3, <1>4, SubSeqProperties
<1>6. /\ after \in Seq(Routines) /\ Len(after) = Len(waiting) - k
      /\ \A i \in 1 .. Len(waiting) - k : after[i] = waiting[k + i]
  BY <1>3, <1>4, SubSeqProperties
<1>7. waiting' = before \o after
  BY <1>2 DEF RemoveAt
<1>8. /\ waiting' \in Seq(Routines) /\ Len(waiting') = Len(waiting) - 1
      /\ DOMAIN waiting' = 1 .. Len(waiting')
      /\ \A i \in 1 .. Len(waiting') :
            waiting'[i] = IF i < k THEN waiting[i] ELSE waiting[i + 1]
  <2> HIDE DEF before, after
  <2>1. /\ waiting' \in Seq(Routines) /\ Len(waiting') = Len(before) + Len(after)
        /\ \A i \in 1 .. Len(before) + Len(after) :
              waiting'[i] = IF i <= Len(before) THEN before[i] ELSE after[i - Len(before)]
    BY <1>5, <1>6, <1>7, ConcatProperties
  <2>2. Len(waiting') = Len(waiting) - 1 /\ DOMAIN waiting' = 1 .. Len(waiting')
    BY <1>3, <1>5, <1>6, <2>1, LenProperties
  <2>3. ASSUME NEW i \in 1 .. Len(waiting')
        PROVE  waiting'[i] = IF i < k THEN waiting[i] ELSE waiting[i + 1]
    <3>1. CASE i < k
      <4>1. i \in 1 .. k - 1 /\ i <= Len(before)
        BY <1>3, <1>5, <2>2, <3>1
      <4> QED
        BY <1>3, <1>5, <1>6, <2>1, <2>2, <3>1, <4>1
    <3>2. CASE ~(i < k)
      <4>1. /\ ~(i <= Len(before)) /\ i - Len(before) \in 1 .. Len(waiting) - k
            /\ k + (i - Len(before)) = i + 1
        BY <1>3, <1>5, <2>2, <3>2
      <4> QED
        BY <1>3, <1>5, <1>6, <2>1, <2>2, <3>2, <4>1
    <3> QED
      BY <3>1, <3>2
  <2> QED
    BY <2>1, <2>2, <2>3
<1>9. \A i, j \in DOMAIN waiting' : waiting'[i] = waiting'[j] => i = j
  <2> SUFFICES ASSUME NEW i \in 1 .. Len(waiting'), NEW j \in 1 .. Len(waiting'),
                      waiting'[i] = waiting'[j]
               PROVE  i = j
    BY <1>8
  <2> DEFINE at(n) == IF n < k THEN n ELSE n + 1
  <2>1. at(i) \in DOMAIN waiting /\ at(j) \in DOMAIN waiting
    BY <1>3, <1>8
  <2>2. waiting[at(i)] = waiting[at(j)]
    BY <1>8
  <2>3. at(i) = at(j)
    BY <2>1, <2>2 DEF Queued
  <2> QED
    BY <1>3, <1>8, <2>3
<1>10. ASSUME NEW q \in Routines
       PROVE  st'[q] = "wait" <=> \E i \in DOMAIN waiting' : waiting'[i] = q
  <2>1. ASSUME NEW i \in DOMAIN waiting', waiting'[i] = q PROVE st[q] = "wait" /\ q # w
    <3>1. PICK j \in DOMAIN waiting : j # k /\ waiting[j] = q
      <4>1. CASE i < k
        BY <1>3, <1>8, <2>1, <4>1
      <4>2. CASE ~(i < k)
        <5>1. i + 1 \in DOMAIN waiting /\ i + 1 # k /\ waiting[i + 1] = q
          BY <1>3, <1>8, <2>1, <4>2
        <5> QED
          BY <5>1
      <4> QED
        BY <4>1, <4>2
    <3> QED
      BY <1>2, <3>1 DEF Queued
  <2>2. ASSUME st[q] = "wait", q # w PROVE \E i \in DOMAIN waiting' : waiting'[i] = q
    <3>1. PICK j \in DOMAIN waiting : waiting[j] = q
      BY <2>2 DEF Queued
    <3>2. j # k
      BY <1>2, <2>2, <3>1
    <3>3. CASE j < k
      BY <1>3, <1>8, <3>1, <3>3
    <3>4. CASE j > k
      <4>1. j - 1 \in DOMAIN waiting' /\ waiting'[j - 1] = q
        BY <1>3, <1>8, <3>1, <3>4
      <4> QED
        BY <4>1
    <3> QED
      BY <1>3, <3>1, <3>2, <3>3, <3>4
  <2>3. st'[q] = IF q = w THEN "done" ELSE st[q]
    BY <1>1 DEF Types, Places
  <2> QED
    BY <2>1, <2>2, <2>3
<1>11. holders' = {q \in Routines : st'[q] = "list"}
  BY <1>1 DEF Queued, Types, Places
<1> QED
  BY <1>1, <1>8, <1>9, <1>10, <1>11 DEF Queued

-----------------------------------------------------------------------------
(* Steps                                                                    *)

\* What a step does not touch keeps its place: a lister may move up in the queue,
\* and a watcher of the context in use does not stop.
LEMMA ProgressKept ==
    ASSUME ListingInv, NEW a \in Apis,
           UNCHANGED <<locked, status, rbac, found, context>>,
           a \in toSpawn' <=> a \in toSpawn, failed => failed',
           apisMeta'[a] = apisMeta[a], cached'[a] = cached[a],
           listed'[Lister(a)] = listed[Lister(a)],
           \/ st'[Lister(a)] = st[Lister(a)]
           \/ st[Lister(a)] = "wait" /\ st'[Lister(a)] = "list",
           context # 0 => (st'[<<context, a>>] \in {"none", "done"}
                           <=> st[<<context, a>>] \in {"none", "done"})
    PROVE  Progress(a)'
<1> USE DEF Progress, Excused, Refused, Complete
<1>1. Progress(a) /\ (locked => context # 0) /\ apisMeta[a] \in {0, context}
  BY DEF ListingInv, Waits, Types
<1>2. CASE st'[Lister(a)] = st[Lister(a)]
  BY <1>1, <1>2
<1>3. CASE st[Lister(a)] = "wait" /\ st'[Lister(a)] = "list"
  BY <1>1, <1>3
<1> QED
  BY <1>2, <1>3

\* A step of one goroutine that is neither waiting nor listing before or after.
LEMMA MoveKeeps ==
    ASSUME ListingInv, NEW r \in Routines, NEW s,
           r \in Listers => s \in ListerStates, r \in Watchers => s \in WatcherStates,
           st' = [st EXCEPT ![r] = s],
           st[r] \notin {"wait", "list"}, s \notin {"wait", "list"},
           UNCHANGED <<holders, waiting>>
    PROVE  /\ Queued' /\ Places' /\ st'[r] = s
           /\ \A q \in Routines \ {r} : st'[q] = st[q]
<1> USE DEF ListingInv, Types, Places
<1>1. st'[r] = s /\ \A q \in Routines \ {r} : st'[q] = st[q]
  OBVIOUS
<1>2. Queued'
  <2>1. \A q \in Routines : /\ st'[q] = "wait" <=> st[q] = "wait"
                            /\ st'[q] = "list" <=> st[q] = "list"
    BY <1>1
  <2> QED
    BY <2>1, QueuedKept
<1>3. s \in ListerStates \cup WatcherStates
  BY Sorts
<1>4. st' \in [Routines -> ListerStates \cup WatcherStates]
  BY <1>3
<1>5. \A q \in Listers : q \in Routines /\ st'[q] \in ListerStates
  BY <1>1 DEF Routines
<1>6. \A q \in Watchers : q \in Routines /\ st'[q] \in WatcherStates
  BY <1>1 DEF Routines
<1> QED
  BY <1>1, <1>2, <1>4, <1>5, <1>6

\* ... of a lister ...
LEMMA ListerMoves ==
    ASSUME ListingInv, NEW a \in Apis,
           NEW s \in {"none", "start", "ask", "review", "dropping", "failing"},
           st' = [st EXCEPT ![Lister(a)] = s], st[Lister(a)] \notin {"wait", "list"},
           UNCHANGED <<holders, waiting>>
    PROVE  /\ Queued' /\ Places' /\ st'[Lister(a)] = s
           /\ \A q \in Routines \ {Lister(a)} : st'[q] = st[q]
<1>1. s \in ListerStates /\ s \notin {"wait", "list"}
  BY DEF ListerStates
<1>2. Lister(a) \in Routines /\ Lister(a) \notin Watchers
  BY Sorts
<1> QED
  BY <1>1, <1>2, MoveKeeps

\* ... and of a watcher.
LEMMA WatcherMoves ==
    ASSUME ListingInv, NEW w \in Watchers, NEW s \in {"watch", "ask", "loaded", "done"},
           st' = [st EXCEPT ![w] = s], st[w] \notin {"wait", "list"},
           UNCHANGED <<holders, waiting>>
    PROVE  /\ Queued' /\ Places' /\ st'[w] = s
           /\ \A q \in Routines \ {w} : st'[q] = st[q]
<1>1. s \in WatcherStates /\ s \notin {"wait", "list"}
  BY DEF WatcherStates
<1>2. w \in Routines /\ w \notin Listers
  BY Sorts
<1> QED
  BY <1>1, <1>2, MoveKeeps

\* Init
LEMMA ListingInit == Init => ListingInv
<1> SUFFICES ASSUME Init PROVE ListingInv
  OBVIOUS
<1> USE DEF Init
<1>1. Types
  <2>1. Places
    BY DEF Places, ListerStates, WatcherStates, Routines
  <2>2. 0 \in 0 .. Items
    BY ListingAssumption
  <2> QED
    BY <2>1, <2>2 DEF Types
<1>2. Queued
  <2>1. waiting \in Seq(Routines) /\ DOMAIN waiting = {}
    OBVIOUS
  <2>2. IsFiniteSet({}) /\ Cardinality({}) = 0
    BY FS_EmptySet
  <2>3. holders = {r \in Routines : st[r] = "list"}
    OBVIOUS
  <2>4. \A r \in Routines : st[r] # "wait"
    OBVIOUS
  <2> QED
    BY <2>1, <2>2, <2>3, <2>4, ListingAssumption DEF Queued
<1>3. Waits
  BY Sorts DEF Waits
<1>4. \A a \in Apis : Progress(a)
  BY Sorts DEF Progress
<1> QED
  BY <1>1, <1>2, <1>3, <1>4 DEF ListingInv

\* A new synchronization begins with a context of its own and nothing cached.
LEMMA SyncStartKeeps == ASSUME ListingInv, SyncStart PROVE ListingInv'
<1> USE DEF ListingInv
<1>1. /\ ~locked /\ UNCHANGED <<rbac, st, listed, holders, waiting>>
      /\ apisMeta' = [a \in Apis |-> 0] /\ cached' = [a \in Apis |-> 0] /\ failed' = FALSE
      /\ context' \in Contexts /\ context' # context
      /\ \A a \in Apis : st[<<context', a>>] \in {"none", "done"}
      /\ cancelled' = {w \in cancelled : w[1] # context'}
                         \cup {<<apisMeta[a], a>> : a \in {b \in Apis : apisMeta[b] # 0}}
      /\ \/ /\ found' \subseteq Apis /\ toSpawn' = found' /\ pc' = "spawn" /\ locked' = TRUE
            /\ status' = status
         \/ status' = "error" /\ UNCHANGED <<locked, found, toSpawn, pc>>
  BY DEF SyncStart, Unused
<1>2. context' # 0 /\ 0 \in 0 .. Items
  BY <1>1, Sorts, ListingAssumption
<1>3. cancelled' \subseteq Watchers /\ \A w \in cancelled' : w[1] # context'
  <2>1. \A a \in Apis : apisMeta[a] # 0 => apisMeta[a] = context /\ context \in Contexts
    BY DEF Types
  <2>2. \A a \in Apis : apisMeta[a] # 0 => /\ <<apisMeta[a], a>> \in Watchers
                                           /\ <<apisMeta[a], a>>[1] # context'
    BY <1>1, <2>1, Sorts
  <2> QED
    BY <1>1, <2>2 DEF Types
<1>4. Types'
  BY <1>1, <1>2, <1>3 DEF Types, Places
<1>5. Queued'
  BY <1>1 DEF Queued
<1>6. Waits'
  BY <1>1, <1>2 DEF Waits
<1>7. ASSUME NEW a \in Apis PROVE Progress(a)'
  <2>1. st[Lister(a)] = "none"
    BY <1>1 DEF Progress
  <2> QED
    BY <1>1, <1>2, <2>1 DEF Progress
<1> QED
  BY <1>4, <1>5, <1>6, <1>7

\* RunAllAsync and the end of sync().
LEMMA RunAllKeeps == ASSUME ListingInv, RunAll PROVE ListingInv'
<1> USE DEF ListingInv
<1>1. ASSUME NEW a \in Apis, Spawn(a) PROVE ListingInv'
  <2>1. /\ locked /\ a \in toSpawn /\ toSpawn' = toSpawn \ {a} /\ pc' = "check"
        /\ st' = [st EXCEPT ![Lister(a)] = "start"]
        /\ UNCHANGED <<locked, status, rbac, found, context, failed, apisMeta, cancelled,
                       listed, holders, waiting, cached>>
    BY <1>1 DEF Spawn
  <2>2. st[Lister(a)] = "none" /\ apisMeta[a] = 0 /\ cached[a] = 0
    BY <2>1 DEF Progress, Types
  <2>3. /\ Queued' /\ Places' /\ st'[Lister(a)] = "start"
        /\ \A q \in Routines \ {Lister(a)} : st'[q] = st[q]
    BY <2>1, <2>2, ListerMoves
  <2>4. Types'
    BY <2>1, <2>3 DEF Types
  <2>5. Waits'
    BY <2>1, <2>3, Sorts DEF Waits
  <2>6. context \in Contexts
    BY <2>1 DEF Waits, Types
  <2>7. ASSUME NEW b \in Apis PROVE Progress(b)'
    <3>1. st'[<<context, b>>] = st[<<context, b>>]
      BY <2>3, <2>6, Sorts
    <3>2. CASE b = a
      BY <2>1, <2>2, <2>3, <3>1, <3>2 DEF Progress, Types
    <3>3. CASE b # a
      <4>1. st'[Lister(b)] = st[Lister(b)]
        BY <2>3, <3>3, Sorts
      <4> QED
        BY <2>1, <3>1, <3>3, <4>1, ProgressKept
    <3> QED
      BY <3>2, <3>3
  <2> QED
    BY <2>3, <2>4, <2>5, <2>7
<1>2. CASE Check
  <2>1. /\ pc' = IF failed \/ toSpawn = {} THEN "wait" ELSE "spawn"
        /\ UNCHANGED <<locked, status, rbac, found, context, toSpawn, failed, apisMeta,
                       cancelled, st, listed, holders, waiting, cached>>
    BY <1>2 DEF Check
  <2>2. Types' /\ Queued' /\ Waits'
    BY <2>1 DEF Types, Places, Queued, Waits
  <2>3. \A a \in Apis : Progress(a)'
    BY <2>1, ProgressKept
  <2> QED
    BY <2>2, <2>3
<1>3. CASE SyncEnd
  <2>1. /\ locked /\ pc = "wait" /\ \A a \in Apis : st[Lister(a)] = "none"
        /\ locked' = FALSE /\ status' = IF failed THEN "error" ELSE "synced"
        /\ UNCHANGED <<rbac, found, context, pc, toSpawn, failed, apisMeta, cancelled, st,
                       listed, holders, waiting, cached>>
    BY <1>3 DEF SyncEnd
  <2>2. Types' /\ Queued' /\ Waits'
    BY <2>1 DEF Types, Places, Queued, Waits
  <2>3. ASSUME NEW a \in Apis PROVE Progress(a)'
    <3>1. failed \/ toSpawn = {}
      BY <2>1 DEF Waits
    <3> QED
      BY <2>1, <3>1 DEF Progress, Excused, Complete, Refused
  <2> QED
    BY <2>2, <2>3
<1> QED
  BY <1>1, <1>2, <1>3 DEF RunAll

\* A goroutine that gives its permit back, and the one that gets it.
LEMMA ReleaseMoves ==
    ASSUME ListingInv, NEW r \in Routines, st[r] = "list",
           NEW states \in [Routines -> ListerStates \cup WatcherStates],
           \A q \in Listers : states[q] \in ListerStates,
           \A q \in Watchers : states[q] \in WatcherStates,
           states[r] \notin {"wait", "list"},
           \A q \in Routines \ {r} : /\ states[q] = "wait" <=> st[q] = "wait"
                                     /\ states[q] = "list" <=> st[q] = "list",
           Release(r, states)
    PROVE  /\ Queued' /\ Places' /\ st'[r] = states[r]
           /\ \A q \in Routines : \/ st'[q] = states[q]
                                  \/ st[q] = "wait" /\ states[q] = "wait" /\ st'[q] = "list"
<1>1. /\ Queued' /\ st' \in [Routines -> ListerStates \cup WatcherStates]
      /\ \A q \in Routines : \/ st'[q] = states[q]
                             \/ states[q] = "wait" /\ st[q] = "wait" /\ st'[q] = "list"
  BY ReleaseKeeps DEF ListingInv
<1>2. \A q \in Listers : st'[q] \in ListerStates
  BY <1>1 DEF Routines, ListerStates
<1>3. \A q \in Watchers : st'[q] \in WatcherStates
  BY <1>1 DEF Routines, WatcherStates
<1> QED
  BY <1>1, <1>2, <1>3 DEF Places

\* A watcher whose context is in use is not cancelled.
LEMMA NotCancelled ==
    ASSUME ListingInv, NEW w \in cancelled, NEW a \in Apis
    PROVE  w \in Watchers /\ w # <<context, a>> /\ w # Lister(a)
<1>1. w \in Watchers /\ w[1] # context
  BY DEF ListingInv, Types
<1> QED
  BY <1>1, Sorts

\* Register, CheckPermission, Drop and Fail: moves of a lister on its own.
LEMMA ListerKeeps ==
    ASSUME ListingInv, NEW a \in Apis, NEW s \in {"none", "ask", "dropping", "failing"},
           st[Lister(a)] \in {"start", "review", "dropping", "failing"},
           st' = [st EXCEPT ![Lister(a)] = s],
           UNCHANGED <<locked, status, rbac, found, context, pc, toSpawn, cancelled, listed,
                       holders, waiting, cached>>,
           failed' \in BOOLEAN, failed => failed',
           \E c \in {0, context} : apisMeta' = [apisMeta EXCEPT ![a] = c],
           (locked /\ context # 0 /\ a \in found \ toSpawn) => Progress(a)'
    PROVE  ListingInv'
<1> USE DEF ListingInv
<1>1. /\ Queued' /\ Places' /\ st'[Lister(a)] = s
      /\ \A q \in Routines \ {Lister(a)} : st'[q] = st[q]
  BY ListerMoves
<1>2. locked /\ a \in found \ toSpawn /\ context \in Contexts /\ context # 0
  BY DEF Progress, Waits, Types
<1>3. apisMeta' \in [Apis -> {0, context}] /\ \A b \in Apis \ {a} : apisMeta'[b] = apisMeta[b]
  BY DEF Types
<1>4. Types'
  BY <1>1, <1>3 DEF Types
<1>5. Waits'
  BY <1>1, Sorts DEF Waits
<1>6. ASSUME NEW b \in Apis, b # a PROVE Progress(b)'
  <2>1. st'[Lister(b)] = st[Lister(b)] /\ st'[<<context, b>>] = st[<<context, b>>]
    BY <1>1, <1>2, <1>6, Sorts
  <2> QED
    BY <1>3, <1>6, <2>1, ProgressKept
<1> QED
  BY <1>1, <1>2, <1>4, <1>5, <1>6

\* The calls of RunAllAsync but for their lists.
LEMMA CallKeeps ==
    ASSUME ListingInv, NEW a \in Apis, Register(a) \/ CheckPermission(a) \/ Drop(a) \/ Fail(a)
    PROVE  ListingInv'
<1> USE DEF ListingInv
<1>0. apisMeta' = [apisMeta EXCEPT ![a] = apisMeta'[a]] /\ apisMeta'[a] \in {0, context}
      /\ failed' \in BOOLEAN /\ (failed => failed')
  BY DEF Register, CheckPermission, Drop, Fail, syncVars, Types
<1>1. locked /\ a \in found \ toSpawn /\ context \in Contexts /\ context # 0
  BY DEF Register, CheckPermission, Drop, Fail, Progress, Waits, Types
<1>2. st' = [st EXCEPT ![Lister(a)] = st'[Lister(a)]]
      /\ \A q \in Routines \ {Lister(a)} : st'[q] = st[q]
  BY Sorts DEF Register, CheckPermission, Drop, Fail, Types, Places
<1>3. st'[<<context, a>>] = st[<<context, a>>]
  BY <1>1, <1>2, Sorts
<1>4. CASE Register(a)
  <2>1. /\ st[Lister(a)] = "start" /\ st'[Lister(a)] = "ask" /\ apisMeta'[a] = context
        /\ UNCHANGED <<rbac, syncVars, listed, holders, waiting, cached>>
    BY <1>4, Sorts DEF Register, Types, Places
  <2>2. Progress(a)'
    BY <1>1, <1>3, <2>1 DEF Progress, Refused, Excused, Complete, syncVars
  <2> QED
    BY <1>0, <1>2, <2>1, <2>2, ListerKeeps DEF syncVars
<1>5. CASE CheckPermission(a)
  <2>1. /\ st[Lister(a)] = "review" /\ st'[Lister(a)] \in {"failing", "dropping"}
        /\ st'[Lister(a)] = "dropping" => a \notin Permitted
        /\ UNCHANGED <<rbac, syncVars, apisMeta, listed, holders, waiting, cached>>
    BY <1>5, Sorts DEF CheckPermission, Types, Places
  <2>2. Progress(a)'
    BY <1>1, <1>3, <2>1 DEF Progress, Refused, Excused, Complete, syncVars
  <2> QED
    BY <1>0, <1>2, <2>1, <2>2, ListerKeeps DEF syncVars
<1>6. CASE Drop(a)
  <2>1. /\ st[Lister(a)] = "dropping" /\ st'[Lister(a)] = "none" /\ apisMeta'[a] = 0
        /\ UNCHANGED <<rbac, syncVars, listed, holders, waiting, cached>>
    BY <1>6, Sorts DEF Drop, Types, Places
  <2>2. Progress(a)'
    BY <1>1, <1>3, <2>1 DEF Progress, Refused, Excused, Complete, syncVars
  <2> QED
    BY <1>0, <1>2, <2>1, <2>2, ListerKeeps DEF syncVars
<1>7. CASE Fail(a)
  <2>1. /\ st[Lister(a)] = "failing" /\ st'[Lister(a)] = "none" /\ failed'
        /\ UNCHANGED <<locked, status, rbac, found, context, pc, toSpawn, apisMeta, cancelled,
                       listed, holders, waiting, cached>>
    BY <1>7, Sorts DEF Fail, Types, Places
  <2>2. Progress(a)'
    BY <1>1, <1>3, <2>1 DEF Progress, Refused, Excused, Complete
  <2> QED
    BY <1>0, <1>2, <2>1, <2>2, ListerKeeps
<1> QED
  BY <1>4, <1>5, <1>6, <1>7

\* A goroutine asks for a permit; a lister has nothing yet.
LEMMA AskStep == ASSUME ListingInv, NEW r \in Routines, Ask(r) PROVE ListingInv'
<1> USE DEF ListingInv
<1>1. PICK s \in {"list", "wait"} : st' = [st EXCEPT ![r] = s]
  BY AskKeeps
<1>2. /\ st[r] = "ask" /\ listed' = [listed EXCEPT ![r] = 0] /\ Queued'
      /\ UNCHANGED <<rbac, syncVars, apisMeta, cached>>
  BY AskKeeps DEF Ask
<1>3. st'[r] = s /\ \A q \in Routines \ {r} : st'[q] = st[q] /\ listed'[q] = listed[q]
  BY <1>1, <1>2 DEF Types, Places
<1>4. Places'
  BY <1>1, <1>3 DEF Types, Places, ListerStates, WatcherStates, Routines
<1>5. Types'
  BY <1>2, <1>4, ListingAssumption DEF Types, syncVars
<1>6. Waits'
  BY <1>2, <1>3, Sorts DEF Waits, syncVars
<1>7. ASSUME NEW a \in Apis PROVE Progress(a)'
  <2>1. CASE r = Lister(a)
    <3>1. locked /\ context \in Contexts
      BY <1>2, <2>1 DEF Progress, Waits, Types
    <3>2. st'[<<context, a>>] = st[<<context, a>>]
      BY <1>3, <2>1, <3>1, Sorts
    <3>3. listed'[r] = 0
      BY <1>2 DEF Types
    <3> QED
      BY <1>2, <1>3, <2>1, <3>1, <3>2, <3>3 DEF Progress, syncVars
  <2>2. CASE r # Lister(a)
    <3>1. st'[Lister(a)] = st[Lister(a)] /\ listed'[Lister(a)] = listed[Lister(a)]
      BY <1>3, <2>2, Sorts
    <3>2. context # 0 => (st'[<<context, a>>] \in {"none", "done"}
                          <=> st[<<context, a>>] \in {"none", "done"})
      <4>1. context # 0 => <<context, a>> \in Routines
        BY Sorts DEF Types
      <4> QED
        BY <1>2, <1>3, <4>1
    <3> QED
      BY <1>2, <3>1, <3>2, ProgressKept DEF syncVars
  <2> QED
    BY <2>1, <2>2
<1> QED
  BY <1>2, <1>5, <1>6, <1>7

\* The next item of a list; a lister caches it.
LEMMA ItemStep == ASSUME ListingInv, NEW r \in Routines, Item(r) PROVE ListingInv'
<1> USE DEF ListingInv
<1>1. /\ st[r] = "list" /\ listed[r] < Items /\ listed' = [listed EXCEPT ![r] = @ + 1]
      /\ cached' = IF r \in Listers THEN [cached EXCEPT ![r[2]] = listed'[r]] ELSE cached
      /\ UNCHANGED <<rbac, syncVars, apisMeta, st, holders, waiting>>
  BY DEF Item
<1>2. listed[r] \in 0 .. Items /\ Items \in Nat
  BY ListingAssumption DEF Types
<1>3. listed' \in [Routines -> 0 .. Items] /\ listed'[r] = listed[r] + 1
      /\ \A q \in Routines \ {r} : listed'[q] = listed[q]
  BY <1>1, <1>2 DEF Types
<1>4. cached' \in [Apis -> 0 .. Items]
  BY <1>1, <1>3, Sorts DEF Types
<1>5. Types'
  BY <1>1, <1>3, <1>4 DEF Types, Places, syncVars
<1>6. Queued'
  BY <1>1 DEF Queued
<1>7. Waits'
  BY <1>1, <1>3, Sorts DEF Waits, syncVars
<1>8. ASSUME NEW a \in Apis PROVE Progress(a)'
  <2>1. CASE r = Lister(a)
    <3>1. cached'[a] = listed'[r]
      BY <1>1, <1>3, <2>1, Sorts DEF Types
    <3> QED
      BY <1>1, <1>3, <2>1, <3>1 DEF Progress, syncVars
  <2>2. CASE r # Lister(a)
    <3>1. listed'[Lister(a)] = listed[Lister(a)]
      BY <1>3, <2>2, Sorts
    <3>2. cached'[a] = cached[a]
      BY <1>1, <2>2, Sorts DEF Types
    <3> QED
      BY <1>1, <3>1, <3>2, ProgressKept DEF syncVars
  <2> QED
    BY <2>1, <2>2
<1> QED
  BY <1>5, <1>6, <1>7, <1>8

\* The list of a lister ends or fails.
LEMMA ListOverStep ==
    ASSUME ListingInv, NEW a \in Apis, ListEnds(a) \/ ListFails(a)
    PROVE  ListingInv'
<1> USE DEF ListingInv
<1> DEFINE L == Lister(a)
           W == <<context, a>>
<1>1. /\ st[L] = "list" /\ L \in Routines /\ locked /\ a \in found \ toSpawn
      /\ context \in Contexts /\ context # 0 /\ apisMeta[a] = context
      /\ W \in Watchers /\ W \in Routines /\ W # L /\ st[W] \in {"none", "done"}
      /\ cached[a] = listed[L]
      /\ UNCHANGED <<rbac, syncVars, apisMeta, listed, cached>>
  BY Sorts DEF ListEnds, ListFails, Progress, Waits, Types
<1>2. \E states \in [Routines -> ListerStates \cup WatcherStates] :
        /\ Release(L, states)
        /\ \A q \in Routines \ {L, W} : states[q] = st[q]
        /\ \/ states[L] = "none" /\ states[W] = "watch" /\ listed[L] = Items
           \/ states[L] = "failing" /\ states[W] = st[W]
           \/ states[L] = "review" /\ states[W] = st[W] /\ rbac = "strict"
           \/ states[L] = "dropping" /\ states[W] = st[W] /\ rbac = "normal"
  <2>1. CASE ListEnds(a)
    <3> DEFINE states == [st EXCEPT ![L] = "none", ![W] = "watch"]
    <3>1. states \in [Routines -> ListerStates \cup WatcherStates]
      BY DEF Types, Places, ListerStates, WatcherStates
    <3>2. states[L] = "none" /\ states[W] = "watch" /\ \A q \in Routines \ {L, W} : states[q] = st[q]
      BY <1>1 DEF Types, Places
    <3>3. Release(L, states) /\ listed[L] = Items
      BY <2>1 DEF ListEnds
    <3> HIDE DEF states
    <3> QED
      BY <3>1, <3>2, <3>3
  <2>2. CASE ListFails(a)
    <3>1. PICK s \in {"failing", "review", "dropping"} :
            /\ Release(L, [st EXCEPT ![L] = s])
            /\ s = "review" => rbac = "strict"
            /\ s = "dropping" => rbac = "normal"
      BY <2>2 DEF ListFails, Types
    <3> DEFINE states == [st EXCEPT ![L] = s]
    <3>2. states \in [Routines -> ListerStates \cup WatcherStates]
      BY DEF Types, Places, ListerStates, WatcherStates
    <3>3. states[L] = s /\ \A q \in Routines \ {L} : states[q] = st[q]
      BY <1>1 DEF Types, Places
    <3>4. Release(L, states)
      BY <3>1
    <3> HIDE DEF states
    <3> QED
      BY <1>1, <3>1, <3>2, <3>3, <3>4
  <2> QED
    BY <2>1, <2>2
<1>3. PICK states \in [Routines -> ListerStates \cup WatcherStates] :
        /\ Release(L, states)
        /\ \A q \in Routines \ {L, W} : states[q] = st[q]
        /\ \/ states[L] = "none" /\ states[W] = "watch" /\ listed[L] = Items
           \/ states[L] = "failing" /\ states[W] = st[W]
           \/ states[L] = "review" /\ states[W] = st[W] /\ rbac = "strict"
           \/ states[L] = "dropping" /\ states[W] = st[W] /\ rbac = "normal"
  BY <1>2
<1>4. /\ Queued' /\ Places' /\ st'[L] = states[L]
      /\ \A q \in Routines : \/ st'[q] = states[q]
                             \/ st[q] = "wait" /\ states[q] = "wait" /\ st'[q] = "list"
  <2>1. \A q \in Routines \ {L} : /\ states[q] = "wait" <=> st[q] = "wait"
                                  /\ states[q] = "list" <=> st[q] = "list"
    BY <1>1, <1>3
  <2>2. states[L] \notin {"wait", "list"}
    BY <1>3
  <2>3. L \in Listers /\ L \notin Watchers /\ W \notin Listers
    BY <1>1, Sorts
  <2>4. ASSUME NEW q \in Listers PROVE states[q] \in ListerStates
    <3>1. q \in Routines /\ q # W
      BY <2>3 DEF Routines
    <3> QED
      BY <1>3, <3>1 DEF Types, Places, ListerStates
  <2>5. ASSUME NEW q \in Watchers PROVE states[q] \in WatcherStates
    <3>1. q \in Routines /\ q # L
      BY <2>3 DEF Routines
    <3> QED
      BY <1>1, <1>3, <3>1 DEF Types, Places, WatcherStates
  <2> HIDE DEF L
  <2> QED
    BY <1>1, <1>3, <2>1, <2>2, <2>4, <2>5, ReleaseMoves
<1>5. Types'
  BY <1>1, <1>4 DEF Types, syncVars
<1>6. Waits'
  <2>1. ASSUME NEW w \in Watchers, st'[w] = "loaded" PROVE st[w] = "loaded"
    <3>1. w \in Routines /\ w # L
      BY Sorts
    <3> QED
      BY <1>1, <1>3, <1>4, <2>1, <3>1
  <2> QED
    BY <1>1, <2>1 DEF Waits, syncVars
<1>7. ASSUME NEW b \in Apis PROVE Progress(b)'
  <2>1. CASE b = a
    <3>1. st'[W] = states[W]
      BY <1>1, <1>3, <1>4
    <3> QED
      BY <1>1, <1>3, <1>4, <2>1, <3>1 DEF Progress, Refused, Excused, Complete, syncVars
  <2>2. CASE b # a
    <3>1. /\ Lister(b) \in Routines /\ Lister(b) # L /\ Lister(b) # W
          /\ <<context, b>> \in Routines /\ <<context, b>> # L /\ <<context, b>> # W
      BY <1>1, <2>2, Sorts
    <3>2. \/ st'[Lister(b)] = st[Lister(b)]
          \/ st[Lister(b)] = "wait" /\ st'[Lister(b)] = "list"
      BY <1>3, <1>4, <3>1
    <3>3. st'[<<context, b>>] \in {"none", "done"} <=> st[<<context, b>>] \in {"none", "done"}
      BY <1>3, <1>4, <3>1
    <3> QED
      BY <1>1, <3>2, <3>3, ProgressKept DEF syncVars
  <2> QED
    BY <2>1, <2>2
<1> QED
  BY <1>4, <1>5, <1>6, <1>7

\* Steps of watchers but for their lists.
LEMMA WatcherKeeps ==
    ASSUME ListingInv, NEW w \in Watchers, Relist(w) \/ Stop(w) \/ GiveUp(w) \/ Replace(w)
    PROVE  ListingInv'
<1> USE DEF ListingInv
<1>1. w \in Routines /\ w \notin Listers /\ w[2] \in Apis
  BY Sorts
<1>2. /\ st' = [st EXCEPT ![w] = st'[w]] /\ st'[w] \in {"ask", "watch", "done"}
      /\ \A q \in Routines \ {w} : st'[q] = st[q]
      /\ st'[w] = "done" => w \in cancelled
      /\ st[w] \notin {"none", "done"}
      /\ UNCHANGED <<rbac, syncVars, apisMeta, listed>>
  BY <1>1 DEF Relist, Stop, GiveUp, Replace, Types, Places
<1>3. \A a \in Apis : cached'[a] = cached[a] \/ (~locked /\ cached'[a] = Items)
  BY <1>1 DEF Relist, Stop, GiveUp, Replace, Waits, Types
<1>4. cached' \in [Apis -> 0 .. Items]
  BY <1>1 DEF Relist, Stop, GiveUp, Replace, Types
<1>5. Queued' /\ Places'
  <2>1. CASE GiveUp(w)
    BY <1>1, <1>2, <2>1, GiveUpKeeps DEF Types, Places, Routines, WatcherStates
  <2>2. CASE Relist(w) \/ Stop(w) \/ Replace(w)
    BY <1>2, <2>2, WatcherMoves DEF Relist, Stop, Replace
  <2> QED
    BY <2>1, <2>2
<1>6. Types'
  BY <1>2, <1>4, <1>5 DEF Types, syncVars
<1>7. Waits'
  BY <1>2, Sorts DEF Waits, syncVars
<1>8. ASSUME NEW a \in Apis PROVE Progress(a)'
  <2>1. st'[Lister(a)] = st[Lister(a)]
    BY <1>1, <1>2, Sorts
  <2>2. context # 0 => (st'[<<context, a>>] \in {"none", "done"}
                        <=> st[<<context, a>>] \in {"none", "done"})
    <3>1. CASE <<context, a>> = w
      BY <1>2, <3>1, NotCancelled
    <3>2. CASE <<context, a>> # w
      <4>1. context # 0 => <<context, a>> \in Routines
        BY Sorts DEF Types
      <4> QED
        BY <1>2, <3>2, <4>1
    <3> QED
      BY <3>1, <3>2
  <2>3. CASE cached'[a] = cached[a]
    BY <1>2, <2>1, <2>2, <2>3, ProgressKept DEF syncVars
  <2>4. CASE ~locked /\ cached'[a] = Items
    BY <1>2, <2>1, <2>2, <2>4 DEF Progress, Refused, Excused, Complete, syncVars, Types
  <2> QED
    BY <1>3, <2>3, <2>4
<1> QED
  BY <1>5, <1>6, <1>7, <1>8

\* The list of a watcher ends or fails.
LEMMA RelistOverStep ==
    ASSUME ListingInv, NEW w \in Watchers, RelistFails(w) \/ RelistEnds(w)
    PROVE  ListingInv'
<1> USE DEF ListingInv
<1>1. w \in Routines /\ w \notin Listers
  BY Sorts
<1>2. PICK s \in {"ask", "loaded"} : /\ Release(w, [st EXCEPT ![w] = s])
                                     /\ s = "loaded" => listed[w] = Items
  BY DEF RelistFails, RelistEnds
<1>3. st[w] = "list" /\ UNCHANGED <<rbac, syncVars, apisMeta, listed, cached>>
  BY DEF RelistFails, RelistEnds
<1> DEFINE states == [st EXCEPT ![w] = s]
<1>4. states[w] = s /\ \A q \in Routines \ {w} : states[q] = st[q]
  BY <1>1 DEF Types, Places
<1>5. states \in [Routines -> ListerStates \cup WatcherStates]
  BY DEF Types, Places, WatcherStates
<1>6. /\ \A q \in Listers : states[q] \in ListerStates
      /\ \A q \in Watchers : states[q] \in WatcherStates
  BY <1>1, <1>4 DEF Types, Places, Routines, WatcherStates
<1>7. Release(w, states)
  BY <1>2
<1> HIDE DEF states
<1>8. /\ Queued' /\ Places' /\ st'[w] = s
      /\ \A q \in Routines : \/ st'[q] = states[q]
                             \/ st[q] = "wait" /\ states[q] = "wait" /\ st'[q] = "list"
  BY <1>1, <1>3, <1>4, <1>5, <1>6, <1>7, ReleaseMoves
<1>9. Types'
  BY <1>3, <1>8 DEF Types, syncVars
<1>10. Waits'
  <2>1. ASSUME NEW v \in Watchers, st'[v] = "loaded" PROVE listed[v] = Items
    <3>1. v \in Routines
      BY Sorts
    <3> QED
      BY <1>2, <1>4, <1>8, <2>1, <3>1 DEF Waits
  <2> QED
    BY <1>3, <2>1 DEF Waits, syncVars
<1>11. ASSUME NEW a \in Apis PROVE Progress(a)'
  <2>1. \/ st'[Lister(a)] = st[Lister(a)]
        \/ st[Lister(a)] = "wait" /\ st'[Lister(a)] = "list"
    BY <1>1, <1>4, <1>8, Sorts
  <2>2. context # 0 => (st'[<<context, a>>] \in {"none", "done"}
                        <=> st[<<context, a>>] \in {"none", "done"})
    <3>1. context # 0 => <<context, a>> \in Routines
      BY Sorts DEF Types
    <3> QED
      BY <1>3, <1>4, <1>8, <3>1
  <2> QED
    BY <1>3, <2>1, <2>2, ProgressKept DEF syncVars
<1> QED
  BY <1>8, <1>9, <1>10, <1>11

-----------------------------------------------------------------------------
(* The theorems                                                             *)

\* Every step keeps the invariant.
LEMMA ListingStep == ListingInv /\ [Next]_vars => ListingInv'
<1> SUFFICES ASSUME ListingInv, [Next]_vars PROVE ListingInv'
  OBVIOUS
<1>1. CASE SyncStart \/ RunAll
  BY <1>1, SyncStartKeeps, RunAllKeeps
<1>2. ASSUME NEW a \in Apis, ListerStep(a) \/ ListFails(a) PROVE ListingInv'
  BY <1>2, CallKeeps, AskStep, ItemStep, ListOverStep, Sorts DEF ListerStep
<1>3. ASSUME NEW w \in Watchers, WatcherStep(w) \/ Relist(w) \/ RelistFails(w) PROVE ListingInv'
  BY <1>3, AskStep, ItemStep, WatcherKeeps, RelistOverStep, Sorts DEF WatcherStep
<1>4. CASE UNCHANGED vars
  BY <1>4 DEF vars, ListingInv, Types, Places, Queued, Waits, Progress, Excused, Refused,
              Complete
<1> QED
  BY <1>1, <1>2, <1>3, <1>4 DEF Next

\* Every variable has its type, no more lists run than listSemaphore permits, and
\* its queue holds those that wait, each once.
THEOREM ListingTypeCorrect == Spec => []ListingTypeOK
<1>1. ASSUME ListingInv PROVE ListingTypeOK
  <2> USE DEF ListingInv, Types, Places
  <2>1. apisMeta \in [Apis -> Contexts \cup {0}]
    BY <1>1
  <2>2. Range(waiting) = {r \in Routines : st[r] = "wait"}
    <3>1. \A i \in DOMAIN waiting : waiting[i] \in Routines
      BY <1>1, ElementOfSeq, LenProperties DEF Queued
    <3> QED
      BY <1>1, <3>1 DEF Queued, Range
  <2>3. \A r \in Routines : st[r] \in IF r \in Listers THEN ListerStates ELSE WatcherStates
    BY <1>1, Sorts
  <2> QED
    BY <1>1, <2>1, <2>2, <2>3 DEF ListingTypeOK, Queued, ListerStates, WatcherStates
<1> QED
  BY ListingInit, ListingStep, <1>1, PTL DEF Spec

\* A synchronization that reports success has listed to the end and watches every
\* API that discovery found, but for those whose list was refused in a way that
\* the RBAC option lets pass (sync, RunAllAsync, listResources).
THEOREM SyncedCorrect == Spec => []SyncedIsComplete
<1>1. ListingInv => SyncedIsComplete
  BY DEF ListingInv, Types, Progress, Excused, Refused, Complete, SyncedIsComplete
<1> QED
  BY ListingInit, ListingStep, <1>1, PTL DEF Spec
=============================================================================
