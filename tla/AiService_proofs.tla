--------------------------- MODULE AiService_proofs ---------------------------
(***************************************************************************)
(* Proofs about AiService, for all pods, entries, bundles and bounds: no   *)
(* key of the corpus has two chunks unless two pods have seeded at once    *)
(* (CorpusIsOnce), a seeding that has stored all it tried leaves no text   *)
(* out (CorpusIsWhole), an answer is made from the entries of the tenant   *)
(* who asks (AnswerIsOwn), and the totals are those of the events the      *)
(* service was given (TotalIsDelivered).                                   *)
(***************************************************************************)
EXTENDS AiService, FiniteSetTheorems, TLAPS

-----------------------------------------------------------------------------
(* The corpus.  At most one pod is seeding, so what it has found of a key   *)
(* is still so when it upserts the key.                                     *)
Step == [at : {"idle", "count", "find", "embed", "end"}, bundle : Nat, source : Nat,
         left : SUBSET STRING, found : Nat, whole : BOOLEAN]

TextsOK ==
    /\ seed \in [Pod -> Step]
    /\ bundle \in 1 .. Len(Bundles)
    /\ corpus = [s \in Source |-> corpus[s]]
    /\ \A s \in Source : corpus[s] \in [Keys(s) -> Nat]
    /\ \A p \in Pod : Seeding(p) => /\ seed[p].bundle \in 1 .. Len(Bundles)
                                    /\ seed[p].source \in 1 .. 3
    /\ \A p \in Pod : seed[p].at \in {"find", "embed"} =>
                         seed[p].left \subseteq Keys(Sources[seed[p].source])
    /\ \A p \in Pod : seed[p].at = "embed" => seed[p].left # {}

OneSeeder == overlapped \/ \A p, o \in Pod : Seeding(p) /\ Seeding(o) => p = o

FoundIsCorpus ==
    overlapped \/ \A p \in Pod : seed[p].at = "embed" =>
        seed[p].found = corpus[Sources[seed[p].source]][First(seed[p].left)]

CorpusInv == TextsOK /\ OneSeeder /\ FoundIsCorpus /\ CorpusIsOnce

LEMMA BundleAssumption ==
  /\ Len(Bundles) \in Nat \ {0}
  /\ \A n \in 1 .. Len(Bundles), s \in Source : /\ Bundles[n][s] \subseteq STRING
                                                /\ Bundles[n][s] \subseteq Keys(s)
<1>1. Source = {Sources[k] : k \in 1 .. 3}
  BY DEF Source
<1>2. Bundles \in Seq([Source -> SUBSET STRING]) /\ Bundles # <<>>
  BY <1>1, AiAssumption
<1>3. Len(Bundles) \in Nat /\ DOMAIN Bundles = 1 .. Len(Bundles) /\ Len(Bundles) # 0
  BY <1>2
<1>4. \A n \in 1 .. Len(Bundles) : Bundles[n] \in [Source -> SUBSET STRING]
  BY <1>2
<1> QED
  BY <1>3, <1>4 DEF Keys

LEMMA SourceOf == \A n \in 1 .. 3 : Sources[n] \in Source
  BY DEF Source

LEMMA KeysAreStrings == \A s \in Source : Keys(s) \subseteq STRING
<1> SUFFICES ASSUME NEW s \in Source, NEW k \in Keys(s) PROVE k \in STRING
  OBVIOUS
<1>1. PICK n \in DOMAIN Bundles : k \in Bundles[n][s]
  BY DEF Keys
<1>2. DOMAIN Bundles = 1 .. Len(Bundles)
  <2>1. Source = {Sources[m] : m \in 1 .. 3}
    BY DEF Source
  <2> QED
    BY <2>1, AiAssumption
<1> QED
  BY <1>1, <1>2, BundleAssumption

LEMMA FirstIsIn == \A left : left # {} => First(left) \in left
  BY DEF First

LEMMA CorpusStays == CorpusInv /\ UNCHANGED texts => CorpusInv'
  BY DEF CorpusInv, texts, TextsOK, OneSeeder, FoundIsCorpus, CorpusIsOnce, Seeding

(* A step of the pod p that leaves the corpus alone and does not begin a    *)
(* seeding, with its state afterwards.                                      *)
LEMMA CorpusMoves ==
  ASSUME CorpusInv, NEW p \in Pod, NEW to \in Step,
         seed' = [seed EXCEPT ![p] = to],
         UNCHANGED <<corpus, bundle, overlapped>>,
         to.at \in {"count", "find", "embed"} =>
            Seeding(p) /\ to.bundle \in 1 .. Len(Bundles) /\ to.source \in 1 .. 3,
         to.at \in {"find", "embed"} => to.left \subseteq Keys(Sources[to.source]),
         to.at = "embed" =>
            /\ to.left # {}
            /\ to.found = corpus[Sources[to.source]][First(to.left)]
  PROVE  CorpusInv'
<1>1. seed \in [Pod -> Step]
  BY DEF CorpusInv, TextsOK
<1>2. seed'[p] = to /\ \A o \in Pod \ {p} : seed'[o] = seed[o]
  BY <1>1
<1>3. seed' \in [Pod -> Step]
  BY <1>1
<1>4. TextsOK'
  <2>1. /\ bundle' \in 1 .. Len(Bundles)
        /\ corpus' = [s \in Source |-> corpus'[s]]
        /\ \A s \in Source : corpus'[s] \in [Keys(s) -> Nat]
    BY DEF CorpusInv, TextsOK
  <2>2. ASSUME NEW o \in Pod
        PROVE  /\ Seeding(o)' => /\ seed'[o].bundle \in 1 .. Len(Bundles)
                                 /\ seed'[o].source \in 1 .. 3
               /\ seed'[o].at \in {"find", "embed"} =>
                      seed'[o].left \subseteq Keys(Sources[seed'[o].source])
               /\ seed'[o].at = "embed" => seed'[o].left # {}
    <3>1. CASE o = p
      BY <1>2, <3>1 DEF Seeding
    <3>2. CASE o # p
      BY <1>2, <3>2 DEF CorpusInv, TextsOK, Seeding
    <3> QED
      BY <3>1, <3>2
  <2> QED
    BY <1>3, <2>1, <2>2 DEF TextsOK
<1>5. OneSeeder'
  BY <1>2 DEF CorpusInv, OneSeeder, Seeding
<1>6. FoundIsCorpus'
  BY <1>2 DEF CorpusInv, FoundIsCorpus
<1>7. CorpusIsOnce'
  BY DEF CorpusInv, CorpusIsOnce
<1> QED
  BY <1>4, <1>5, <1>6, <1>7 DEF CorpusInv

LEMMA NextSourceMoves ==
  ASSUME CorpusInv, NEW p \in Pod, Seeding(p), NextSource(p),
         UNCHANGED <<corpus, bundle, overlapped>>
  PROVE  CorpusInv'
<1>1. seed[p] \in Step /\ seed[p].source \in 1 .. 3 /\ seed[p].bundle \in 1 .. Len(Bundles)
  BY DEF CorpusInv, TextsOK
<1>2. Len(Sources) = 3
  BY DEF Sources
<1>3. CASE seed[p].source = 3
  <2> DEFINE to == [seed[p] EXCEPT !.at = "end", !.left = {}]
  <2>1. to \in Step /\ to.at = "end"
    BY <1>1 DEF Step
  <2>2. seed' = [seed EXCEPT ![p] = to]
    BY <1>2, <1>3 DEF NextSource
  <2> HIDE DEF to
  <2> QED
    BY <2>1, <2>2, CorpusMoves
<1>4. CASE seed[p].source # 3
  <2> DEFINE to == [seed[p] EXCEPT !.at = "count", !.source = @ + 1, !.left = {}]
  <2>0. seed[p].source + 1 \in 1 .. 3 /\ seed[p].source + 1 \in Nat
    BY <1>1, <1>4
  <2>1. /\ to \in Step /\ to.at = "count" /\ to.bundle = seed[p].bundle
        /\ to.source = seed[p].source + 1
    BY <1>1, <2>0 DEF Step
  <2>2. seed' = [seed EXCEPT ![p] = to]
    BY <1>2, <1>4 DEF NextSource
  <2> HIDE DEF to
  <2> QED
    BY <1>1, <2>0, <2>1, <2>2, CorpusMoves
<1> QED
  BY <1>3, <1>4

LEMMA SeedEndsMoves ==
  ASSUME CorpusInv, NEW p \in Pod, SeedEnds(p), UNCHANGED <<corpus, bundle, overlapped>>
  PROVE  CorpusInv'
<1> DEFINE to == [seed[p] EXCEPT !.at = "end", !.whole = FALSE]
<1>1. seed[p] \in Step
  BY DEF CorpusInv, TextsOK
<1>2. to \in Step /\ to.at = "end"
  BY <1>1 DEF Step
<1>3. seed' = [seed EXCEPT ![p] = to]
  BY <1>1 DEF SeedEnds, CorpusInv, TextsOK, Step
<1> HIDE DEF to
<1> QED
  BY <1>2, <1>3, CorpusMoves

(* A seeding begins: with another one, overlapped is set.                   *)
LEMMA CorpusSeed == ASSUME CorpusInv, NEW p \in Pod, Seed(p) PROVE CorpusInv'
<1>1. CASE SeedEnds(p)
  <2>1. corpus' = corpus /\ bundle' = bundle
    BY DEF Seed
  <2>2. seed[p] \in Step /\ seed \in [Pod -> Step]
    BY DEF CorpusInv, TextsOK
  <2>3. /\ seed' \in [Pod -> Step] /\ ~Seeding(p)'
        /\ \A o \in Pod \ {p} : seed'[o] = seed[o]
    BY <1>1, <2>2 DEF SeedEnds, Step, Seeding
  <2>4. overlapped => overlapped'
    BY DEF Seed
  <2>5. TextsOK'
    BY <2>1, <2>3 DEF CorpusInv, TextsOK, Seeding
  <2>6. OneSeeder' /\ FoundIsCorpus' /\ CorpusIsOnce'
    BY <2>1, <2>3, <2>4 DEF CorpusInv, OneSeeder, FoundIsCorpus, CorpusIsOnce, Seeding
  <2> QED
    BY <2>5, <2>6 DEF CorpusInv
<1>2. CASE seed' = [seed EXCEPT ![p] = [Idle EXCEPT !.at = "count", !.bundle = bundle, !.source = 1]]
  <2> DEFINE to == [Idle EXCEPT !.at = "count", !.bundle = bundle, !.source = 1]
  <2>0. Idle \in Step /\ bundle \in Nat
    BY BundleAssumption DEF Idle, Step, CorpusInv, TextsOK
  <2>1. to \in Step /\ to.at = "count" /\ to.bundle = bundle /\ to.source = 1
    BY <2>0 DEF Step
  <2>2. seed' = [seed EXCEPT ![p] = to]
    BY <1>2
  <2> HIDE DEF to
  <2>3. seed \in [Pod -> Step] /\ bundle \in 1 .. Len(Bundles)
    BY DEF CorpusInv, TextsOK
  <2>4. seed' \in [Pod -> Step] /\ seed'[p] = to /\ \A o \in Pod \ {p} : seed'[o] = seed[o]
    BY <2>1, <2>2, <2>3
  <2>5. /\ corpus' = corpus /\ bundle' = bundle
        /\ overlapped' = (overlapped \/ \E o \in Pod \ {p} : Seeding(o))
    BY DEF Seed
  <2>6. TextsOK'
    BY <2>1, <2>3, <2>4, <2>5 DEF CorpusInv, TextsOK, Seeding
  <2>7. OneSeeder'
    BY <2>4, <2>5 DEF CorpusInv, OneSeeder, Seeding
  <2>8. FoundIsCorpus' /\ CorpusIsOnce'
    BY <2>1, <2>4, <2>5 DEF CorpusInv, FoundIsCorpus, CorpusIsOnce
  <2> QED
    BY <2>6, <2>7, <2>8 DEF CorpusInv
<1> QED
  BY <1>1, <1>2 DEF Seed

LEMMA CorpusCount == ASSUME CorpusInv, NEW p \in Pod, CountSource(p) PROVE CorpusInv'
<1>1. /\ Seeding(p) /\ UNCHANGED <<corpus, bundle, overlapped>>
      /\ seed[p] \in Step /\ seed[p].source \in 1 .. 3 /\ seed[p].bundle \in 1 .. Len(Bundles)
  BY DEF CountSource, CorpusInv, TextsOK, Seeding
<1> DEFINE all == Bundles[seed[p].bundle][Sources[seed[p].source]]
           to == [seed[p] EXCEPT !.at = "find", !.left = all]
<1>2. all \subseteq STRING /\ all \subseteq Keys(Sources[seed[p].source])
  BY <1>1, SourceOf, BundleAssumption
<1>3. \/ NextSource(p) \/ SeedEnds(p)
      \/ seed' = [seed EXCEPT ![p].at = "find", ![p].left = all]
  BY DEF CountSource
<1> HIDE DEF all
<1>4. CASE seed' = [seed EXCEPT ![p].at = "find", ![p].left = all]
  <2>1. /\ to \in Step /\ to.at = "find" /\ to.left = all
        /\ to.bundle = seed[p].bundle /\ to.source = seed[p].source
    BY <1>1, <1>2 DEF Step
  <2>2. seed' = [seed EXCEPT ![p] = to]
    BY <1>1, <1>4 DEF CorpusInv, TextsOK, Step
  <2> HIDE DEF to
  <2> QED
    BY <1>1, <1>2, <2>1, <2>2, CorpusMoves
<1> QED
  BY <1>1, <1>3, <1>4, NextSourceMoves, SeedEndsMoves

LEMMA CorpusFind == ASSUME CorpusInv, NEW p \in Pod, FindKey(p) PROVE CorpusInv'
<1>1. /\ Seeding(p) /\ UNCHANGED <<corpus, bundle, overlapped>> /\ seed[p].at = "find"
      /\ seed[p] \in Step /\ seed[p].source \in 1 .. 3 /\ seed[p].bundle \in 1 .. Len(Bundles)
      /\ seed[p].left \subseteq Keys(Sources[seed[p].source])
  BY DEF FindKey, CorpusInv, TextsOK, Seeding
<1>2. CASE seed[p].left = {}
  BY <1>1, <1>2, NextSourceMoves DEF FindKey
<1>3. CASE seed[p].left # {}
  <2> DEFINE n == corpus[Sources[seed[p].source]][First(seed[p].left)]
             to == [seed[p] EXCEPT !.at = "embed", !.found = n]
  <2>1. n \in Nat
    BY <1>1, <1>3, SourceOf, FirstIsIn DEF CorpusInv, TextsOK
  <2>2. seed' = [seed EXCEPT ![p].at = "embed", ![p].found = n]
    BY <1>3 DEF FindKey
  <2>3. seed[p].left # {}
    BY <1>3
  <2> HIDE DEF n
  <2>4. /\ to \in Step /\ to.at = "embed" /\ to.left = seed[p].left /\ to.found = n
        /\ to.bundle = seed[p].bundle /\ to.source = seed[p].source
    BY <1>1, <2>1 DEF Step
  <2>5. seed' = [seed EXCEPT ![p] = to]
    BY <1>1, <2>2 DEF CorpusInv, TextsOK, Step
  <2> HIDE DEF to
  <2>6. to.found = corpus[Sources[to.source]][First(to.left)]
    BY <2>4 DEF n
  <2> QED
    BY <1>1, <2>3, <2>4, <2>5, <2>6, CorpusMoves
<1> QED
  BY <1>2, <1>3

(* A new chunk only if the key had none when it was looked for, and has     *)
(* none now, since no other pod seeds.                                      *)
LEMMA CorpusUpsert == ASSUME CorpusInv, NEW p \in Pod, UpsertKey(p) PROVE CorpusInv'
<1> DEFINE s == Sources[seed[p].source]
           k == First(seed[p].left)
           next == [seed[p] EXCEPT !.at = "find", !.left = @ \ {k}, !.found = 0]
           failed == [next EXCEPT !.whole = FALSE]
<1>1. /\ Seeding(p) /\ seed[p].at = "embed" /\ UNCHANGED <<bundle, overlapped>>
      /\ seed[p] \in Step /\ seed[p].source \in 1 .. 3 /\ seed[p].bundle \in 1 .. Len(Bundles)
      /\ seed[p].left \subseteq Keys(s)
  BY DEF UpsertKey, CorpusInv, TextsOK, Seeding
<1>2. /\ next \in Step /\ next.at = "find" /\ next.left \subseteq Keys(s)
      /\ next.bundle = seed[p].bundle /\ next.source = seed[p].source
  BY <1>1 DEF Step
<1>3. /\ failed \in Step /\ failed.at = "find" /\ failed.left \subseteq Keys(s)
      /\ failed.bundle = seed[p].bundle /\ failed.source = seed[p].source
  BY <1>2 DEF Step
<1>4. \/ seed' = [seed EXCEPT ![p] = failed] /\ corpus' = corpus
      \/ /\ seed' = [seed EXCEPT ![p] = next]
         /\ corpus' = [corpus EXCEPT ![s][k] = IF seed[p].found = 0 THEN @ + 1 ELSE @]
  BY DEF UpsertKey
<1>5. s \in Source /\ k \in Keys(s)
  BY <1>1, SourceOf, FirstIsIn DEF CorpusInv, TextsOK
<1>6. overlapped \/ seed[p].found = corpus[s][k]
  BY <1>1 DEF CorpusInv, FoundIsCorpus
<1> HIDE DEF next, failed, s, k
<1>7. CASE seed' = [seed EXCEPT ![p] = failed] /\ corpus' = corpus
  BY <1>1, <1>3, <1>7, CorpusMoves DEF s
<1>8. CASE /\ seed' = [seed EXCEPT ![p] = next]
           /\ corpus' = [corpus EXCEPT ![s][k] = IF seed[p].found = 0 THEN @ + 1 ELSE @]
  <2>1. seed \in [Pod -> Step]
    BY DEF CorpusInv, TextsOK
  <2>2. seed' \in [Pod -> Step] /\ seed'[p] = next /\ \A o \in Pod \ {p} : seed'[o] = seed[o]
    BY <1>2, <1>8, <2>1
  <2>3. /\ corpus = [x \in Source |-> corpus[x]]
        /\ \A x \in Source : corpus[x] \in [Keys(x) -> Nat]
    BY DEF CorpusInv, TextsOK
  <2>4. /\ corpus' = [x \in Source |-> corpus'[x]]
        /\ \A x \in Source \ {s} : corpus'[x] = corpus[x]
        /\ corpus'[s] = [corpus[s] EXCEPT ![k] = IF seed[p].found = 0 THEN @ + 1 ELSE @]
    BY <1>5, <1>8, <2>3
  <2>5. /\ corpus'[s] \in [Keys(s) -> Nat]
        /\ corpus'[s][k] = IF seed[p].found = 0 THEN corpus[s][k] + 1 ELSE corpus[s][k]
        /\ \A o \in Keys(s) \ {k} : corpus'[s][o] = corpus[s][o]
    BY <1>5, <2>3, <2>4
  <2>6. TextsOK'
    <3>1. \A x \in Source : corpus'[x] \in [Keys(x) -> Nat]
      BY <2>3, <2>4, <2>5
    <3> QED
      BY <1>1, <1>2, <2>2, <2>4, <3>1 DEF CorpusInv, TextsOK, Seeding, s
  <2>7. OneSeeder'
    BY <1>1, <2>2 DEF CorpusInv, OneSeeder, Seeding
  <2>8. FoundIsCorpus'
    <3>1. overlapped \/ \A o \in Pod \ {p} : ~Seeding(o)
      BY <1>1 DEF CorpusInv, OneSeeder
    <3>2. overlapped \/ \A o \in Pod : seed'[o].at # "embed"
      BY <1>2, <2>2, <3>1 DEF Seeding
    <3> QED
      BY <1>1, <3>2 DEF FoundIsCorpus
  <2>9. CorpusIsOnce'
    <3>1. ASSUME ~overlapped, NEW x \in Source, NEW y \in Keys(x) PROVE corpus'[x][y] <= 1
      <4>1. corpus[x][y] <= 1 /\ corpus[x][y] \in Nat /\ corpus[s][k] \in Nat
        BY <1>5, <2>3, <3>1 DEF CorpusInv, CorpusIsOnce
      <4>2. CASE x = s /\ y = k
        BY <1>6, <2>5, <3>1, <4>1, <4>2
      <4>3. CASE x = s /\ y # k
        BY <2>5, <4>1, <4>3
      <4>4. CASE x # s
        BY <2>4, <4>1, <4>4
      <4> QED
        BY <4>2, <4>3, <4>4
    <3> QED
      BY <1>1, <3>1 DEF CorpusIsOnce
  <2> QED
    BY <2>6, <2>7, <2>8, <2>9 DEF CorpusInv
<1> QED
  BY <1>4, <1>7, <1>8

LEMMA CorpusCrash == ASSUME CorpusInv, NEW p \in Pod, Crash(p) PROVE CorpusInv'
<1>1. seed' = [seed EXCEPT ![p] = Idle] /\ UNCHANGED <<corpus, bundle, overlapped>>
  BY DEF Crash
<1>2. Idle \in Step /\ Idle.at = "idle"
  BY DEF Idle, Step
<1> QED
  BY <1>1, <1>2, CorpusMoves

LEMMA CorpusStep == CorpusInv /\ [Next]_vars => CorpusInv'
<1> SUFFICES ASSUME CorpusInv, [Next]_vars PROVE CorpusInv'
  OBVIOUS
<1>1. CASE Ledger
  BY <1>1, CorpusStays DEF Ledger, NotifyAi, DropPost, PublishSagaReply
<1>2. CASE Consumer
  BY <1>2, CorpusStays DEF Consumer, Join, EachMessage, ReceiveEvent, CommitOffset
<1>3. CASE Stored
  BY <1>3, CorpusStays DEF Stored, SaveRow, IndexJournalChunk
<1>4. CASE Asked
  BY <1>4, CorpusStays DEF Asked, Search, Generate, Ask
<1>5. CASE ChangeBundle
  <2>1. /\ bundle' = bundle + 1 /\ bundle < Len(Bundles)
        /\ UNCHANGED <<seed, corpus, overlapped>>
    BY <1>5 DEF ChangeBundle
  <2>2. bundle' \in 1 .. Len(Bundles)
    BY <2>1, BundleAssumption DEF CorpusInv, TextsOK
  <2> QED
    BY <2>1, <2>2 DEF CorpusInv, TextsOK, OneSeeder, FoundIsCorpus, CorpusIsOnce, Seeding
<1>6. ASSUME NEW p \in Pod, StartPod(p) \/ Migrate(p) \/ ReadRows(p) \/ Rehydrate(p) \/ Listen(p)
      PROVE  CorpusInv'
  BY <1>6, CorpusStays DEF StartPod, Migrate, ReadRows, Rehydrate, Listen
<1>7. ASSUME NEW p \in Pod, Crash(p) \/ Seeder(p) PROVE CorpusInv'
  BY <1>7, CorpusCrash, CorpusSeed, CorpusCount, CorpusFind, CorpusUpsert DEF Seeder
<1>8. CASE UNCHANGED vars
  BY <1>8, CorpusStays DEF vars
<1> QED
  BY <1>1, <1>2, <1>3, <1>4, <1>5, <1>6, <1>7, <1>8 DEF Next, Start

LEMMA CorpusAlways == Spec => []CorpusInv
<1>1. Init => CorpusInv
  <2> SUFFICES ASSUME Init PROVE CorpusInv
    OBVIOUS
  <2>1. seed = [p \in Pod |-> Idle] /\ bundle = 1 /\ Idle \in Step /\ Idle.at = "idle"
    BY DEF Init, Idle, Step
  <2>2. /\ corpus = [s \in Source |-> [k \in Keys(s) |-> 0]]
    BY DEF Init
  <2>3. TextsOK
    BY <2>1, <2>2, BundleAssumption DEF TextsOK, Seeding
  <2>4. OneSeeder /\ FoundIsCorpus
    BY <2>1 DEF OneSeeder, FoundIsCorpus, Seeding
  <2>5. CorpusIsOnce
    BY <2>2 DEF CorpusIsOnce
  <2> QED
    BY <2>3, <2>4, <2>5 DEF CorpusInv
<1>2. CorpusInv /\ [Next]_vars => CorpusInv'
  BY CorpusStep
<1> QED
  BY <1>1, <1>2, PTL DEF Spec

(* However often pods stop and seed again, and whatever fails: no key has   *)
(* two chunks, unless two pods have seeded at the same time.                *)
THEOREM CorpusOnce == Spec => []CorpusIsOnce
<1>1. CorpusInv => CorpusIsOnce
  BY DEF CorpusInv
<1> QED
  BY <1>1, CorpusAlways, PTL

(* A seeding that has stored all it tried.  As long as every pod has seeded *)
(* the first bundle and none beside another, the corpus has no other keys;  *)
(* with one chunk each, as many chunks as the bundle has texts are all of   *)
(* them.                                                                    *)
SameBundle == bundle = 1 /\ ~overlapped
OnlyFirst == \A s \in Source : \A k \in Keys(s) : corpus[s][k] > 0 => k \in Bundles[1][s]
Has(n) == \A k \in Bundles[1][Sources[n]] : corpus[Sources[n]][k] > 0

WholeOf(p) ==
    /\ Seeding(p) => seed[p].bundle = 1
    /\ seed[p].at \in {"find", "embed"} => seed[p].left \subseteq Bundles[1][Sources[seed[p].source]]
    /\ seed[p].whole =>
         /\ seed[p].at = "end" => \A n \in 1 .. 3 : Has(n)
         /\ Seeding(p) => \A n \in 1 .. 3 : n < seed[p].source => Has(n)
         /\ seed[p].at \in {"find", "embed"} =>
              \A k \in Bundles[1][Sources[seed[p].source]] \ seed[p].left :
                 corpus[Sources[seed[p].source]][k] > 0

WholeInv == SameBundle => OnlyFirst /\ \A p \in Pod : WholeOf(p)

LEMMA CountedIsWhole ==
  ASSUME CorpusInv, SameBundle, OnlyFirst, NEW n \in 1 .. 3,
         CountShared(Sources[n]) >= Cardinality(Bundles[1][Sources[n]])
  PROVE  Has(n)
<1> DEFINE s == Sources[n]  all == Bundles[1][s]  of == [c \in Chunks(s) |-> c[1]]
<1>1. /\ s \in Source /\ corpus[s] \in [Keys(s) -> Nat] /\ all \subseteq Keys(s)
      /\ IsFiniteSet(all)
  <2>1. 1 \in DOMAIN Bundles /\ 1 \in 1 .. Len(Bundles)
    <3>1. Source = {Sources[m] : m \in 1 .. 3}
      BY DEF Source
    <3> QED
      BY <3>1, AiAssumption, BundleAssumption
  <2> QED
    BY <2>1, SourceOf, BundleAssumption, AiAssumption DEF CorpusInv, TextsOK
<1> HIDE DEF s, all
<1>2. \A k \in Keys(s) : corpus[s][k] \in {0, 1} /\ (corpus[s][k] = 1 => k \in all)
  <2>1. \A k \in Keys(s) : corpus[s][k] \in Nat /\ corpus[s][k] <= 1
    BY <1>1 DEF CorpusInv, CorpusIsOnce, SameBundle
  <2>2. \A k \in Keys(s) : corpus[s][k] > 0 => k \in all
    BY <1>1 DEF OnlyFirst, all
  <2> QED
    BY <2>1, <2>2
<1>3. \A c \in Chunks(s) : c[1] \in all /\ c = <<c[1], 1>> /\ corpus[s][c[1]] = 1
  <2>1. ASSUME NEW c \in Chunks(s) PROVE c[1] \in all /\ c = <<c[1], 1>> /\ corpus[s][c[1]] = 1
    <3>1. PICK k \in Keys(s) : c \in {k} \X (1 .. corpus[s][k])
      BY DEF Chunks
    <3>2. corpus[s][k] = 1 /\ c[1] = k /\ c[2] = 1
      BY <1>2, <3>1
    <3> QED
      BY <1>2, <3>1, <3>2
  <2> QED
    BY <2>1
<1>4. of \in Injection(Chunks(s), all)
  <2>1. of \in [Chunks(s) -> all]
    BY <1>3
  <2>2. \A a, b \in Chunks(s) : of[a] = of[b] => a = b
    BY <1>3
  <2> QED
    BY <2>1, <2>2 DEF Injection, IsInjective
<1> HIDE DEF of
<1>5. /\ IsFiniteSet(Chunks(s)) /\ Cardinality(Chunks(s)) <= Cardinality(all)
      /\ Cardinality(Chunks(s)) = Cardinality(all) => of \in Surjection(Chunks(s), all)
  BY <1>1, <1>4, FS_Injection
<1>6. Cardinality(Chunks(s)) \in Nat /\ Cardinality(all) \in Nat
  BY <1>1, <1>5, FS_CardinalityType
<1>7. of \in Surjection(Chunks(s), all)
  BY <1>5, <1>6 DEF CountShared, s, all
<1>8. \A k \in all : \E c \in Chunks(s) : of[c] = k
  BY <1>7 DEF Surjection
<1>9. \A k \in all : corpus[s][k] > 0
  BY <1>3, <1>8 DEF of
<1> QED
  BY <1>9 DEF Has, s, all

LEMMA WholeStays ==
  ASSUME WholeInv, UNCHANGED <<seed, corpus, bundle, overlapped>>
  PROVE  WholeInv'
  BY DEF WholeInv, SameBundle, OnlyFirst, WholeOf, Has, Seeding

\* A step of a pod that leaves the corpus, and what must be so afterwards.
LEMMA WholeMoves ==
  ASSUME CorpusInv, WholeInv, NEW p \in Pod, NEW to, seed' = [seed EXCEPT ![p] = to],
         UNCHANGED <<corpus, bundle>>, overlapped => overlapped',
         SameBundle' =>
            /\ to.at \in {"count", "find", "embed"} => to.bundle = 1
            /\ to.at \in {"find", "embed"} => to.left \subseteq Bundles[1][Sources[to.source]]
            /\ to.whole =>
                 /\ to.at = "end" => \A n \in 1 .. 3 : Has(n)
                 /\ to.at \in {"count", "find", "embed"} => \A n \in 1 .. 3 : n < to.source => Has(n)
                 /\ to.at \in {"find", "embed"} =>
                      \A k \in Bundles[1][Sources[to.source]] \ to.left : corpus[Sources[to.source]][k] > 0
  PROVE  WholeInv'
<1> SUFFICES ASSUME SameBundle' PROVE OnlyFirst' /\ \A o \in Pod : WholeOf(o)'
  BY DEF WholeInv
<1>1. SameBundle /\ OnlyFirst /\ \A o \in Pod : WholeOf(o)
  BY DEF WholeInv, SameBundle
<1>2. OnlyFirst' /\ \A n : Has(n)' <=> Has(n)
  BY <1>1 DEF OnlyFirst, Has
<1>3. seed'[p] = to /\ \A o \in Pod \ {p} : seed'[o] = seed[o]
  BY DEF CorpusInv, TextsOK
<1>4. ASSUME NEW o \in Pod PROVE WholeOf(o)'
  <2>1. CASE o = p
    BY <1>2, <1>3, <2>1 DEF WholeOf, Seeding
  <2>2. CASE o # p
    BY <1>1, <1>2, <1>3, <2>2 DEF WholeOf, Seeding
  <2> QED
    BY <2>1, <2>2
<1> QED
  BY <1>2, <1>4

LEMMA NextSourceWhole ==
  ASSUME CorpusInv, WholeInv, NEW p \in Pod, Seeding(p), NextSource(p),
         UNCHANGED <<corpus, bundle, overlapped>>,
         SameBundle /\ seed[p].whole => Has(seed[p].source)
  PROVE  WholeInv'
<1>1. seed[p] \in Step /\ seed[p].source \in 1 .. 3
  BY DEF CorpusInv, TextsOK
<1>2. Len(Sources) = 3
  BY DEF Sources
<1>3. SameBundle' => SameBundle /\ WholeOf(p)
  BY DEF SameBundle, WholeInv
<1>4. CASE seed[p].source = 3
  <2> DEFINE to == [seed[p] EXCEPT !.at = "end", !.left = {}]
  <2>1. to.at = "end" /\ to.whole = seed[p].whole
    BY <1>1 DEF Step
  <2>2. seed' = [seed EXCEPT ![p] = to]
    BY <1>2, <1>4 DEF NextSource
  <2>3. SameBundle' /\ to.whole => \A n \in 1 .. 3 : Has(n)
    BY <1>3, <1>4, <2>1 DEF WholeOf
  <2> HIDE DEF to
  <2> QED
    BY <2>1, <2>2, <2>3, WholeMoves
<1>5. CASE seed[p].source # 3
  <2> DEFINE to == [seed[p] EXCEPT !.at = "count", !.source = @ + 1, !.left = {}]
  <2>1. /\ to.at = "count" /\ to.bundle = seed[p].bundle /\ to.whole = seed[p].whole
        /\ to.source = seed[p].source + 1
    BY <1>1 DEF Step
  <2>2. seed' = [seed EXCEPT ![p] = to]
    BY <1>2, <1>5 DEF NextSource
  <2>3. SameBundle' => to.bundle = 1
    BY <1>3, <2>1 DEF WholeOf
  <2>4. SameBundle' /\ to.whole => \A n \in 1 .. 3 : n < to.source => Has(n)
    <3>1. \A n \in 1 .. 3 : n < seed[p].source + 1 => n = seed[p].source \/ n < seed[p].source
      BY <1>1
    <3> QED
      BY <1>3, <2>1, <3>1 DEF WholeOf
  <2> HIDE DEF to
  <2> QED
    BY <2>1, <2>2, <2>3, <2>4, WholeMoves
<1> QED
  BY <1>4, <1>5

LEMMA SeedEndsWhole ==
  ASSUME CorpusInv, WholeInv, NEW p \in Pod, SeedEnds(p), UNCHANGED <<corpus, bundle>>,
         overlapped => overlapped'
  PROVE  WholeInv'
<1> DEFINE to == [seed[p] EXCEPT !.at = "end", !.whole = FALSE]
<1>1. seed[p] \in Step
  BY DEF CorpusInv, TextsOK
<1>2. to.whole = FALSE /\ to.at = "end"
  BY <1>1 DEF Step
<1>3. seed' = [seed EXCEPT ![p] = to]
  BY <1>1 DEF SeedEnds, CorpusInv, TextsOK, Step
<1> HIDE DEF to
<1> QED
  BY <1>2, <1>3, WholeMoves

LEMMA WholeSeed == ASSUME CorpusInv, WholeInv, NEW p \in Pod, Seed(p) PROVE WholeInv'
<1>1. UNCHANGED <<corpus, bundle>> /\ (overlapped => overlapped')
  BY DEF Seed
<1>2. CASE SeedEnds(p)
  BY <1>1, <1>2, SeedEndsWhole
<1>3. CASE seed' = [seed EXCEPT ![p] = [Idle EXCEPT !.at = "count", !.bundle = bundle, !.source = 1]]
  <2> DEFINE to == [Idle EXCEPT !.at = "count", !.bundle = bundle, !.source = 1]
  <2>1. to.at = "count" /\ to.bundle = bundle /\ to.source = 1
    BY DEF Idle
  <2>2. seed' = [seed EXCEPT ![p] = to]
    BY <1>3
  <2> HIDE DEF to
  <2>3. \A n \in 1 .. 3 : ~ (n < to.source)
    BY <2>1
  <2>4. SameBundle' => to.bundle = 1
    BY <1>1, <2>1 DEF SameBundle
  <2> QED
    BY <1>1, <2>1, <2>2, <2>3, <2>4, WholeMoves
<1> QED
  BY <1>2, <1>3 DEF Seed

LEMMA WholeCount == ASSUME CorpusInv, WholeInv, NEW p \in Pod, CountSource(p) PROVE WholeInv'
<1>1. /\ Seeding(p) /\ UNCHANGED <<corpus, bundle, overlapped>>
      /\ seed[p] \in Step /\ seed[p].source \in 1 .. 3
  BY DEF CountSource, CorpusInv, TextsOK, Seeding
<1> DEFINE all == Bundles[seed[p].bundle][Sources[seed[p].source]]
           to == [seed[p] EXCEPT !.at = "find", !.left = all]
<1>2. \/ NextSource(p) /\ CountShared(Sources[seed[p].source]) >= Cardinality(all)
      \/ SeedEnds(p)
      \/ seed' = [seed EXCEPT ![p].at = "find", ![p].left = all]
  BY DEF CountSource
<1>3. SameBundle => all = Bundles[1][Sources[seed[p].source]] /\ OnlyFirst /\ WholeOf(p)
  BY <1>1 DEF WholeInv, WholeOf
<1> HIDE DEF all
<1>4. CASE NextSource(p) /\ CountShared(Sources[seed[p].source]) >= Cardinality(all)
  <2>1. SameBundle => Has(seed[p].source)
    BY <1>1, <1>3, <1>4, CountedIsWhole
  <2> QED
    BY <1>1, <1>4, <2>1, NextSourceWhole
<1>5. CASE seed' = [seed EXCEPT ![p].at = "find", ![p].left = all]
  <2>1. /\ to.at = "find" /\ to.left = all /\ to.whole = seed[p].whole
        /\ to.bundle = seed[p].bundle /\ to.source = seed[p].source
    BY <1>1 DEF Step
  <2>2. seed' = [seed EXCEPT ![p] = to]
    BY <1>1, <1>5 DEF CorpusInv, TextsOK, Step
  <2> HIDE DEF to
  <2>3. SameBundle' => SameBundle
    BY <1>1 DEF SameBundle
  <2>4. SameBundle' => /\ to.bundle = 1 /\ to.left = Bundles[1][Sources[to.source]]
                       /\ to.whole => \A n \in 1 .. 3 : n < to.source => Has(n)
    BY <1>1, <1>3, <2>1, <2>3 DEF WholeOf
  <2>5. SameBundle' => \A k \in Bundles[1][Sources[to.source]] \ to.left :
                          corpus[Sources[to.source]][k] > 0
    BY <2>4
  <2> QED
    BY <1>1, <2>1, <2>2, <2>4, <2>5, WholeMoves
<1> QED
  BY <1>1, <1>2, <1>4, <1>5, SeedEndsWhole

LEMMA WholeFind == ASSUME CorpusInv, WholeInv, NEW p \in Pod, FindKey(p) PROVE WholeInv'
<1>1. /\ Seeding(p) /\ UNCHANGED <<corpus, bundle, overlapped>> /\ seed[p].at = "find"
      /\ seed[p] \in Step /\ seed[p].source \in 1 .. 3
  BY DEF FindKey, CorpusInv, TextsOK, Seeding
<1>2. SameBundle => WholeOf(p)
  BY DEF WholeInv
<1>3. CASE seed[p].left = {}
  <2>1. SameBundle /\ seed[p].whole => Has(seed[p].source)
    BY <1>1, <1>2, <1>3 DEF WholeOf, Has
  <2> QED
    BY <1>1, <1>3, <2>1, NextSourceWhole DEF FindKey
<1>4. CASE seed[p].left # {}
  <2> DEFINE m == corpus[Sources[seed[p].source]][First(seed[p].left)]
             to == [seed[p] EXCEPT !.at = "embed", !.found = m]
  <2>1. seed' = [seed EXCEPT ![p].at = "embed", ![p].found = m]
    BY <1>4 DEF FindKey
  <2> HIDE DEF m
  <2>2. /\ to.at = "embed" /\ to.left = seed[p].left /\ to.whole = seed[p].whole
        /\ to.bundle = seed[p].bundle /\ to.source = seed[p].source
    BY <1>1 DEF Step
  <2>3. seed' = [seed EXCEPT ![p] = to]
    BY <1>1, <2>1 DEF CorpusInv, TextsOK, Step
  <2> HIDE DEF to
  <2>4. SameBundle' => SameBundle
    BY <1>1 DEF SameBundle
  <2> QED
    BY <1>1, <1>2, <2>2, <2>3, <2>4, WholeMoves DEF WholeOf
<1> QED
  BY <1>3, <1>4

LEMMA WholeUpsert == ASSUME CorpusInv, WholeInv, NEW p \in Pod, UpsertKey(p) PROVE WholeInv'
<1> DEFINE s == Sources[seed[p].source]
           k == First(seed[p].left)
           next == [seed[p] EXCEPT !.at = "find", !.left = @ \ {k}, !.found = 0]
           failed == [next EXCEPT !.whole = FALSE]
<1>1. /\ Seeding(p) /\ seed[p].at = "embed" /\ UNCHANGED <<bundle, overlapped>>
      /\ seed[p] \in Step /\ seed[p].source \in 1 .. 3
      /\ seed[p].left \subseteq Keys(s) /\ seed[p].left # {}
  BY DEF UpsertKey, CorpusInv, TextsOK, Seeding
<1>2. /\ next \in Step /\ next.at = "find" /\ next.left = seed[p].left \ {k}
      /\ next.bundle = seed[p].bundle /\ next.source = seed[p].source /\ next.whole = seed[p].whole
  BY <1>1 DEF Step
<1>3. /\ failed.at = "find" /\ failed.left = seed[p].left \ {k} /\ failed.whole = FALSE
      /\ failed.bundle = seed[p].bundle /\ failed.source = seed[p].source
  BY <1>2 DEF Step
<1>4. \/ seed' = [seed EXCEPT ![p] = failed] /\ corpus' = corpus
      \/ /\ seed' = [seed EXCEPT ![p] = next]
         /\ corpus' = [corpus EXCEPT ![s][k] = IF seed[p].found = 0 THEN @ + 1 ELSE @]
  BY DEF UpsertKey
<1>5. s \in Source /\ k \in Keys(s) /\ k \in seed[p].left
  BY <1>1, SourceOf, FirstIsIn
<1>6. overlapped \/ seed[p].found = corpus[s][k]
  BY <1>1 DEF CorpusInv, FoundIsCorpus
<1>7. SameBundle' => SameBundle
  BY <1>1 DEF SameBundle
<1>8. SameBundle => OnlyFirst /\ \A o \in Pod : WholeOf(o)
  BY DEF WholeInv
<1>9. SameBundle => /\ seed[p].bundle = 1 /\ seed[p].left \subseteq Bundles[1][s]
                    /\ seed[p].whole =>
                         /\ \A n \in 1 .. 3 : n < seed[p].source => Has(n)
                         /\ \A x \in Bundles[1][s] \ seed[p].left : corpus[s][x] > 0
  BY <1>1, <1>8 DEF WholeOf
<1> HIDE DEF next, failed, s, k
<1>10. CASE seed' = [seed EXCEPT ![p] = failed] /\ corpus' = corpus
  <2>1. SameBundle' => failed.bundle = 1 /\ failed.left \subseteq Bundles[1][Sources[failed.source]]
    BY <1>3, <1>7, <1>9 DEF s
  <2> QED
    BY <1>1, <1>3, <1>10, <2>1, WholeMoves
<1>11. CASE /\ seed' = [seed EXCEPT ![p] = next]
            /\ corpus' = [corpus EXCEPT ![s][k] = IF seed[p].found = 0 THEN @ + 1 ELSE @]
  <2>1. seed'[p] = next /\ \A o \in Pod \ {p} : seed'[o] = seed[o]
    BY <1>11 DEF CorpusInv, TextsOK
  <2>2. /\ corpus = [x \in Source |-> corpus[x]]
        /\ \A x \in Source : corpus[x] \in [Keys(x) -> Nat]
    BY DEF CorpusInv, TextsOK
  <2>3. /\ \A x \in Source \ {s} : corpus'[x] = corpus[x]
        /\ corpus'[s] = [corpus[s] EXCEPT ![k] = IF seed[p].found = 0 THEN @ + 1 ELSE @]
    BY <1>5, <1>11, <2>2
  <2>4. /\ corpus'[s][k] = IF seed[p].found = 0 THEN corpus[s][k] + 1 ELSE corpus[s][k]
        /\ \A o \in Keys(s) \ {k} : corpus'[s][o] = corpus[s][o]
    BY <1>5, <2>2, <2>3
  <2> SUFFICES ASSUME SameBundle' PROVE OnlyFirst' /\ \A o \in Pod : WholeOf(o)'
    BY DEF WholeInv
  <2>5. /\ SameBundle /\ seed[p].found = corpus[s][k] /\ corpus[s][k] \in Nat
    BY <1>5, <1>6, <1>7, <2>2 DEF SameBundle
  <2>6. corpus'[s][k] > 0 /\ k \in Bundles[1][s]
    BY <1>5, <1>9, <2>4, <2>5
  <2>7. \A x \in Source : \A y \in Keys(x) : corpus[x][y] > 0 => corpus'[x][y] > 0
    BY <2>3, <2>4, <2>6
  <2>8. \A n \in 1 .. 3 : Sources[n] \in Source /\ Bundles[1][Sources[n]] \subseteq Keys(Sources[n])
    BY SourceOf, BundleAssumption
  <2>9. \A n \in 1 .. 3 : Has(n) => Has(n)'
    BY <2>7, <2>8 DEF Has
  <2>10. OnlyFirst'
    <3>1. ASSUME NEW x \in Source, NEW y \in Keys(x), corpus'[x][y] > 0 PROVE y \in Bundles[1][x]
      <4>1. CASE x = s /\ y = k
        BY <2>6, <4>1
      <4>2. CASE ~(x = s /\ y = k)
        <5>1. corpus[x][y] > 0
          BY <2>3, <2>4, <3>1, <4>2
        <5> QED
          BY <1>8, <2>5, <5>1 DEF OnlyFirst
      <4> QED
        BY <4>1, <4>2
    <3> QED
      BY <3>1 DEF OnlyFirst
  <2>11. WholeOf(p)'
    <3>1. Sources[next.source] = s
      BY <1>2 DEF s
    <3>2. next.left \subseteq Bundles[1][s] /\ next.bundle = 1
      BY <1>2, <1>9, <2>5
    <3>3. next.whole => \A n \in 1 .. 3 : n < next.source => Has(n)'
      BY <1>2, <1>9, <2>5, <2>9
    <3>4. next.whole => \A x \in Bundles[1][s] \ next.left : corpus'[s][x] > 0
      <4>1. ASSUME next.whole, NEW x \in Bundles[1][s], x \notin next.left PROVE corpus'[s][x] > 0
        <5>1. CASE x = k
          BY <2>6, <5>1
        <5>2. CASE x # k
          <6>1. corpus[s][x] > 0
            BY <1>2, <1>9, <2>5, <4>1, <5>2
          <6>2. x \in Keys(s)
            BY <1>1, <2>8 DEF s
          <6> QED
            BY <1>5, <2>7, <6>1, <6>2
        <5> QED
          BY <5>1, <5>2
      <4> QED
        BY <4>1
    <3>5. next.at = "find"
      BY <1>2
    <3> QED
      BY <2>1, <3>1, <3>2, <3>3, <3>4, <3>5 DEF WholeOf, Seeding
  <2>12. ASSUME NEW o \in Pod \ {p} PROVE WholeOf(o)'
    <3>1. ~Seeding(o) /\ ~Seeding(o)' /\ seed'[o] = seed[o]
      <4>1. ~Seeding(o)
        BY <1>1, <2>5 DEF CorpusInv, OneSeeder, SameBundle
      <4> QED
        BY <2>1, <4>1 DEF Seeding
    <3>2. seed[o].whole /\ seed[o].at = "end" => \A n \in 1 .. 3 : Has(n)
      BY <1>8, <2>5 DEF WholeOf
    <3> QED
      BY <2>9, <3>1, <3>2 DEF WholeOf, Seeding
  <2> QED
    BY <2>10, <2>11, <2>12
<1> QED
  BY <1>4, <1>10, <1>11

LEMMA WholeStep == CorpusInv /\ WholeInv /\ [Next]_vars => WholeInv'
<1> SUFFICES ASSUME CorpusInv, WholeInv, [Next]_vars PROVE WholeInv'
  OBVIOUS
<1>1. CASE Ledger
  BY <1>1, WholeStays DEF Ledger, NotifyAi, DropPost, PublishSagaReply, texts
<1>2. CASE Consumer
  BY <1>2, WholeStays DEF Consumer, Join, EachMessage, ReceiveEvent, CommitOffset, texts
<1>3. CASE Stored
  BY <1>3, WholeStays DEF Stored, SaveRow, IndexJournalChunk, texts
<1>4. CASE Asked
  BY <1>4, WholeStays DEF Asked, Search, Generate, Ask, texts
<1>5. CASE ChangeBundle
  <2>1. bundle' # 1
    BY <1>5 DEF ChangeBundle, CorpusInv, TextsOK
  <2> QED
    BY <2>1 DEF WholeInv, SameBundle
<1>6. ASSUME NEW p \in Pod, StartPod(p) \/ Migrate(p) \/ ReadRows(p) \/ Rehydrate(p) \/ Listen(p)
      PROVE  WholeInv'
  BY <1>6, WholeStays DEF StartPod, Migrate, ReadRows, Rehydrate, Listen, texts
<1>7. ASSUME NEW p \in Pod, Crash(p) PROVE WholeInv'
  <2>1. seed' = [seed EXCEPT ![p] = Idle] /\ UNCHANGED <<corpus, bundle, overlapped>>
    BY <1>7 DEF Crash
  <2>2. Idle.at = "idle"
    BY DEF Idle
  <2> QED
    BY <2>1, <2>2, WholeMoves
<1>8. ASSUME NEW p \in Pod, Seeder(p) PROVE WholeInv'
  BY <1>8, WholeSeed, WholeCount, WholeFind, WholeUpsert DEF Seeder
<1>9. CASE UNCHANGED vars
  BY <1>9, WholeStays DEF vars, texts
<1> QED
  BY <1>1, <1>2, <1>3, <1>4, <1>5, <1>6, <1>7, <1>8, <1>9 DEF Next, Start

(* While the bundle stays the same and no two pods have seeded at once: a   *)
(* seeding that has ended and stored all it tried has left a chunk for      *)
(* every text, also where it counted the chunks and passed the source over. *)
THEOREM CorpusWhole == Spec => []CorpusIsWhole
<1>1. Init => WholeInv
  <2> SUFFICES ASSUME Init PROVE WholeInv
    OBVIOUS
  <2>1. seed = [p \in Pod |-> Idle] /\ Idle.at = "idle"
        /\ corpus = [s \in Source |-> [k \in Keys(s) |-> 0]]
    BY DEF Init, Idle
  <2>2. OnlyFirst
    BY <2>1 DEF OnlyFirst
  <2>3. \A p \in Pod : WholeOf(p)
    BY <2>1 DEF WholeOf, Seeding
  <2> QED
    BY <2>2, <2>3 DEF WholeInv
<1>2. CorpusInv /\ WholeInv /\ [Next]_vars => WholeInv'
  BY WholeStep
<1>3. WholeInv => CorpusIsWhole
  <2> SUFFICES ASSUME WholeInv, NEW p \in Pod, seed[p].at = "end", seed[p].whole, bundle = 1,
                      ~overlapped, NEW s \in Source, NEW k \in Bundles[1][s]
               PROVE  corpus[s][k] > 0
    BY DEF CorpusIsWhole
  <2>1. PICK n \in 1 .. 3 : s = Sources[n]
    BY DEF Source
  <2>2. WholeOf(p)
    BY DEF WholeInv, SameBundle
  <2>3. Has(n)
    BY <2>2 DEF WholeOf
  <2> QED
    BY <2>1, <2>3 DEF Has
<1>4. Spec => []CorpusInv
  BY CorpusAlways
<1> QED
  BY <1>1, <1>2, <1>3, <1>4, PTL DEF Spec

-----------------------------------------------------------------------------
(* Answers.  Whatever the service holds of an entry, in memory, in the      *)
(* table, in the store, or on the way there, it has been given; and what a  *)
(* question has read is of its tenant.                                      *)
BooksOK ==
    /\ counted \in [Pod -> [Entry -> Nat]]
    /\ saving \in [Pod -> [Entry -> Nat]]
    /\ rows \in [Entry -> Nat]
    /\ delivered \in [Entry -> Nat]
    /\ indexing \in [Pod -> SUBSET Entry]
    /\ chunks \subseteq Entry
    /\ pod \in [Pod -> [at : {"down", "started", "read", "seeding", "up"},
                       ready : {"not yet", "yes", "failed"}, found : [Entry -> Nat]]]

BusOK ==
    /\ topic \in Seq(Entry \cup {Reply})
    /\ posts \subseteq Entry
    /\ pos \in Nat
    /\ committed \in Nat \cup {-1}

Chunk == [shared : {TRUE}, about : Source \X STRING] \cup [shared : {FALSE}, about : Entry]
Asking == [at : {"embed", "generate", "answered"}, pod : Pod, tenant : Tenants,
           summary : [Entry -> Nat], chunks : SUBSET Chunk]
IsAsking(q) == query[q].at \in {"embed", "generate", "answered"}

QueryOK ==
    /\ query = [q \in Query |-> query[q]]
    /\ \A q \in Query : IsAsking(q) => query[q] \in Asking

HeldIsDelivered ==
    \A j \in Entry : delivered[j] = 0 =>
        /\ rows[j] = 0 /\ j \notin chunks
        /\ \A p \in Pod : /\ counted[p][j] = 0 /\ saving[p][j] = 0 /\ j \notin indexing[p]
                          /\ pod[p].found[j] = 0

ReadIsOwn ==
    \A q \in Query : IsAsking(q) =>
        /\ \A c \in query[q].chunks :
              ~c.shared => TenantOf[c.about] = query[q].tenant /\ delivered[c.about] > 0
        /\ \A j \in Entry :
              query[q].summary[j] > 0 => TenantOf[j] = query[q].tenant /\ delivered[j] > 0

AnswerInv == BooksOK /\ BusOK /\ QueryOK /\ HeldIsDelivered /\ ReadIsOwn

(* A step that leaves the questions alone, and takes back no delivery.      *)
LEMMA ReadStays ==
  ASSUME AnswerInv, query' = query, delivered' \in [Entry -> Nat],
         \A j \in Entry : delivered[j] <= delivered'[j]
  PROVE  QueryOK' /\ ReadIsOwn'
<1>1. QueryOK'
  BY DEF AnswerInv, QueryOK, IsAsking
<1>0. delivered \in [Entry -> Nat]
  BY DEF AnswerInv, BooksOK
<1>2. ASSUME NEW j \in Entry, delivered[j] > 0 PROVE delivered'[j] > 0
  BY <1>0, <1>2
<1>3. ASSUME NEW q \in Query, IsAsking(q), NEW c \in query[q].chunks, ~c.shared
      PROVE  c.about \in Entry
  BY <1>3 DEF AnswerInv, QueryOK, Asking, Chunk
<1>4. ReadIsOwn'
  BY <1>2, <1>3 DEF AnswerInv, ReadIsOwn, IsAsking
<1> QED
  BY <1>1, <1>4

(* One number of one pod is replaced. *)
LEMMA Replaced ==
  ASSUME NEW f \in [Pod -> [Entry -> Nat]], NEW p \in Pod, NEW j \in Entry, NEW n \in Nat,
         NEW g, g = [f EXCEPT ![p] = [f[p] EXCEPT ![j] = n]]
  PROVE  /\ g \in [Pod -> [Entry -> Nat]]
         /\ \A o \in Pod, i \in Entry : i # j => g[o][i] = f[o][i]
<1>1. [f[p] EXCEPT ![j] = n] \in [Entry -> Nat]
  OBVIOUS
<1>2. g[p] = [f[p] EXCEPT ![j] = n] /\ \A o \in Pod \ {p} : g[o] = f[o]
  OBVIOUS
<1> QED
  BY <1>1, <1>2

LEMMA BusStays == BusOK /\ UNCHANGED bus => BusOK'
  BY DEF BusOK, bus

LEMMA BooksStay ==
  BooksOK /\ HeldIsDelivered /\ UNCHANGED <<pod, books>> => BooksOK' /\ HeldIsDelivered'
<1>1. BooksOK /\ UNCHANGED <<pod, books>> => BooksOK'
  BY DEF BooksOK, books
<1>2. HeldIsDelivered /\ UNCHANGED <<pod, books>> => HeldIsDelivered'
  BY DEF HeldIsDelivered, books
<1> QED
  BY <1>1, <1>2

LEMMA DeliveredStays ==
  ASSUME BooksOK, UNCHANGED delivered
  PROVE  delivered' \in [Entry -> Nat] /\ \A j \in Entry : delivered[j] <= delivered'[j]
<1>1. delivered \in [Entry -> Nat]
  BY DEF BooksOK
<1> QED
  BY <1>1

LEMMA AnswerStays == AnswerInv /\ UNCHANGED <<bus, pod, books, query>> => AnswerInv'
  BY BusStays, BooksStay, DeliveredStays, ReadStays DEF AnswerInv, books

LEMMA AnswerIngest ==
  ASSUME AnswerInv, NEW p \in Pod, NEW j \in Entry, Ingest(p, j), UNCHANGED <<pod, query>>,
         BusOK'
  PROVE  AnswerInv'
<1>1. /\ counted' = [counted EXCEPT ![p] = [counted[p] EXCEPT ![j] = @ + 1]]
      /\ saving' = [saving EXCEPT ![p][j] = @ + 1]
      /\ indexing' = [indexing EXCEPT ![p] = IF pod[p].ready = "yes" THEN @ \cup {j} ELSE @]
      /\ delivered' = [delivered EXCEPT ![j] = @ + 1]
      /\ UNCHANGED <<rows, chunks>>
  BY DEF Ingest
<1>2. BooksOK
  BY DEF AnswerInv
<1>3. /\ delivered' \in [Entry -> Nat] /\ delivered'[j] > 0
      /\ \A i \in Entry \ {j} : delivered'[i] = delivered[i]
      /\ \A i \in Entry : delivered[i] <= delivered'[i]
  <2>1. delivered \in [Entry -> Nat]
    BY <1>2 DEF BooksOK
  <2> QED
    BY <1>1, <2>1
<1>4. /\ counted' \in [Pod -> [Entry -> Nat]]
      /\ \A o \in Pod, i \in Entry : i # j => counted'[o][i] = counted[o][i]
  <2>0. counted \in [Pod -> [Entry -> Nat]]
    BY <1>2 DEF BooksOK
  <2>1. counted[p][j] + 1 \in Nat
    BY <2>0
  <2>2. counted' = [counted EXCEPT ![p] = [counted[p] EXCEPT ![j] = counted[p][j] + 1]]
    BY <1>1
  <2> QED
    BY <2>0, <2>1, <2>2, Replaced
<1>5. /\ saving' \in [Pod -> [Entry -> Nat]]
      /\ \A o \in Pod, i \in Entry : i # j => saving'[o][i] = saving[o][i]
  <2>0. saving \in [Pod -> [Entry -> Nat]]
    BY <1>2 DEF BooksOK
  <2>1. saving[p][j] + 1 \in Nat
    BY <2>0
  <2>2. saving' = [saving EXCEPT ![p] = [saving[p] EXCEPT ![j] = saving[p][j] + 1]]
    BY <1>1, <2>0
  <2> QED
    BY <2>0, <2>1, <2>2, Replaced
<1>6. /\ indexing' \in [Pod -> SUBSET Entry]
      /\ \A o \in Pod : \A i \in Entry \ {j} : i \in indexing'[o] => i \in indexing[o]
  BY <1>1, <1>2 DEF BooksOK
<1>7. BooksOK'
  BY <1>1, <1>2, <1>3, <1>4, <1>5, <1>6 DEF BooksOK
<1>8. HeldIsDelivered'
  BY <1>1, <1>3, <1>4, <1>5, <1>6 DEF AnswerInv, HeldIsDelivered
<1> QED
  BY <1>3, <1>7, <1>8, ReadStays DEF AnswerInv

LEMMA AnswerEachMessage == ASSUME AnswerInv, NEW p \in Pod, EachMessage(p) PROVE AnswerInv'
<1>1. /\ pos < Len(topic) /\ pos' = pos + 1
      /\ UNCHANGED <<topic, committed, posts, pod, query>>
  BY DEF EachMessage
<1>2. BooksOK
  BY DEF AnswerInv
<1>3. topic[pos + 1] \in Entry \cup {Reply} /\ BusOK'
  BY <1>1 DEF AnswerInv, BusOK
<1>4. CASE topic[pos + 1] = Reply
  <2>1. UNCHANGED books
    BY <1>4 DEF EachMessage
  <2>2. BooksOK' /\ HeldIsDelivered'
    BY <1>1, <2>1, BooksStay DEF AnswerInv
  <2>3. delivered' = delivered
    BY <2>1 DEF books
  <2> QED
    BY <1>1, <1>2, <1>3, <2>2, <2>3, DeliveredStays, ReadStays DEF AnswerInv
<1>5. CASE topic[pos + 1] # Reply
  <2>1. topic[pos + 1] \in Entry /\ Ingest(p, topic[pos + 1])
    BY <1>3, <1>5 DEF EachMessage
  <2>2. PICK j \in Entry : Ingest(p, j)
    BY <2>1
  <2> QED
    BY <1>1, <1>3, <2>2, AnswerIngest
<1> QED
  BY <1>4, <1>5

LEMMA AnswerStored == ASSUME AnswerInv, Stored PROVE AnswerInv'
<1>1. PICK p \in Pod, j \in Entry : SaveRow(p, j) \/ IndexJournalChunk(p, j)
  BY DEF Stored
<1>2. /\ BooksOK /\ HeldIsDelivered
      /\ UNCHANGED <<bus, pod, counted, delivered, query>>
  BY <1>1 DEF AnswerInv, SaveRow, IndexJournalChunk
<1>3. BusOK' /\ delivered' \in [Entry -> Nat] /\ \A i \in Entry : delivered[i] <= delivered'[i]
  BY <1>2, BusStays, DeliveredStays DEF AnswerInv
<1>4. CASE SaveRow(p, j)
  <2>1. /\ saving[p][j] > 0
        /\ saving' = [saving EXCEPT ![p][j] = @ - 1]
        /\ rows' = [rows EXCEPT ![j] = @ + 1] \/ rows' = rows
        /\ UNCHANGED <<indexing, chunks>>
    BY <1>4 DEF SaveRow
  <2>2. delivered[j] # 0
    <3>1. saving[p][j] # 0
      BY <2>1
    <3> QED
      BY <1>2, <3>1 DEF HeldIsDelivered
  <2>3. /\ saving' \in [Pod -> [Entry -> Nat]]
        /\ \A o \in Pod, i \in Entry : i # j => saving'[o][i] = saving[o][i]
    <3>1. saving \in [Pod -> [Entry -> Nat]]
      BY <1>2 DEF BooksOK
    <3>2. saving[p][j] - 1 \in Nat
      BY <2>1, <3>1
    <3>3. saving' = [saving EXCEPT ![p] = [saving[p] EXCEPT ![j] = saving[p][j] - 1]]
      BY <2>1, <3>1
    <3> QED
      BY <3>1, <3>2, <3>3, Replaced
  <2>4. rows' \in [Entry -> Nat] /\ \A i \in Entry : i # j => rows'[i] = rows[i]
    <3>1. rows \in [Entry -> Nat]
      BY <1>2 DEF BooksOK
    <3> QED
      BY <2>1, <3>1
  <2>5. BooksOK'
    BY <1>2, <2>1, <2>3, <2>4 DEF BooksOK
  <2>6. HeldIsDelivered'
    BY <1>2, <2>1, <2>2, <2>3, <2>4 DEF HeldIsDelivered
  <2> QED
    BY <1>2, <1>3, <2>5, <2>6, ReadStays DEF AnswerInv
<1>5. CASE IndexJournalChunk(p, j)
  <2>1. /\ j \in indexing[p]
        /\ indexing' = [indexing EXCEPT ![p] = @ \ {j}]
        /\ chunks' = chunks \cup {j} \/ chunks' = chunks
        /\ UNCHANGED <<saving, rows>>
    BY <1>5 DEF IndexJournalChunk
  <2>2. delivered[j] # 0
    BY <2>1 DEF AnswerInv, HeldIsDelivered
  <2>3. /\ indexing' \in [Pod -> SUBSET Entry]
        /\ \A o \in Pod : indexing'[o] \subseteq indexing[o]
    BY <1>2, <2>1 DEF BooksOK
  <2>4. BooksOK'
    BY <1>2, <2>1, <2>3 DEF BooksOK
  <2>5. HeldIsDelivered'
    BY <1>2, <2>1, <2>2, <2>3 DEF HeldIsDelivered
  <2> QED
    BY <1>2, <1>3, <2>4, <2>5, ReadStays DEF AnswerInv
<1> QED
  BY <1>1, <1>4, <1>5

(* The start of a pod, which reads the rows and adds them. *)
LEMMA AnswerStart ==
  ASSUME AnswerInv, NEW p \in Pod,
         StartPod(p) \/ Migrate(p) \/ ReadRows(p) \/ Rehydrate(p) \/ Listen(p)
  PROVE  AnswerInv'
<1>1. /\ BooksOK /\ HeldIsDelivered
      /\ UNCHANGED <<bus, saving, rows, indexing, chunks, delivered, query>>
  BY DEF AnswerInv, StartPod, Migrate, ReadRows, Rehydrate, Listen, books
<1>2. BusOK' /\ delivered' \in [Entry -> Nat] /\ \A i \in Entry : delivered[i] <= delivered'[i]
  BY <1>1, BusStays, DeliveredStays DEF AnswerInv
<1> DEFINE PodState == [at : {"down", "started", "read", "seeding", "up"},
                        ready : {"not yet", "yes", "failed"}, found : [Entry -> Nat]]
<1>3. pod \in [Pod -> PodState] /\ Zero \in [Entry -> Nat] /\ \A j \in Entry : Zero[j] = 0
  BY <1>1 DEF BooksOK, Zero
<1>4. ASSUME NEW to \in PodState, pod' = [pod EXCEPT ![p] = to], counted' \in [Pod -> [Entry -> Nat]],
             \A j \in Entry : delivered[j] = 0 =>
                to.found[j] = 0 /\ \A o \in Pod : counted'[o][j] = 0
      PROVE  AnswerInv'
  <2>1. /\ pod' \in [Pod -> PodState] /\ pod'[p] = to
        /\ \A o \in Pod \ {p} : pod'[o] = pod[o]
    BY <1>3, <1>4
  <2>2. BooksOK'
    BY <1>1, <1>4, <2>1 DEF BooksOK
  <2>3. HeldIsDelivered'
    BY <1>1, <1>4, <2>1 DEF HeldIsDelivered
  <2> QED
    BY <1>1, <1>2, <2>2, <2>3, ReadStays DEF AnswerInv
<1>5. counted \in [Pod -> [Entry -> Nat]]
      /\ \A j \in Entry : delivered[j] = 0 =>
            rows[j] = 0 /\ pod[p].found[j] = 0 /\ \A o \in Pod : counted[o][j] = 0
  BY <1>1 DEF BooksOK, HeldIsDelivered
<1>6. CASE StartPod(p)
  <2> DEFINE to == [Down EXCEPT !.at = "started"]
  <2>1. to \in PodState /\ to.found = Zero
    BY <1>3 DEF Down
  <2>2. pod' = [pod EXCEPT ![p] = to] /\ counted' = counted
    BY <1>6 DEF StartPod, books
  <2> HIDE DEF to
  <2> QED
    BY <1>3, <1>4, <1>5, <2>1, <2>2
<1>7. CASE Migrate(p)
  <2>1. PICK r \in {"yes", "failed"} : pod' = [pod EXCEPT ![p].ready = r]
    BY <1>7 DEF Migrate
  <2> DEFINE to == [pod[p] EXCEPT !.ready = r]
  <2>2. to \in PodState /\ to.found = pod[p].found
    BY <1>3
  <2>3. pod' = [pod EXCEPT ![p] = to] /\ counted' = counted
    BY <1>3, <1>7, <2>1 DEF Migrate, books
  <2> HIDE DEF to
  <2> QED
    BY <1>4, <1>5, <2>2, <2>3
<1>8. CASE ReadRows(p)
  <2> DEFINE to == [pod[p] EXCEPT !.at = "read", !.found = rows]
  <2>1. to \in PodState /\ to.found = rows
    BY <1>1, <1>3 DEF BooksOK
  <2>2. pod' = [pod EXCEPT ![p] = to] /\ counted' = counted
    BY <1>3, <1>8 DEF ReadRows, books
  <2> HIDE DEF to
  <2> QED
    BY <1>4, <1>5, <2>1, <2>2
<1>9. CASE Rehydrate(p)
  <2> DEFINE to == [pod[p] EXCEPT !.at = "seeding", !.found = Zero]
             sum == [j \in Entry |-> counted[p][j] + pod[p].found[j]]
  <2>1. to \in PodState /\ to.found = Zero
    BY <1>3
  <2>2. pod' = [pod EXCEPT ![p] = to] /\ counted' = [counted EXCEPT ![p] = sum]
    BY <1>3, <1>9 DEF Rehydrate
  <2>3. counted[p] \in [Entry -> Nat] /\ pod[p].found \in [Entry -> Nat]
    BY <1>3, <1>5
  <2>4. sum \in [Entry -> Nat] /\ \A j \in Entry : delivered[j] = 0 => sum[j] = 0
    BY <1>5, <2>3
  <2> HIDE DEF to, sum
  <2>5. /\ counted' \in [Pod -> [Entry -> Nat]]
        /\ \A j \in Entry : delivered[j] = 0 => \A o \in Pod : counted'[o][j] = 0
    BY <1>5, <2>2, <2>4
  <2> QED
    BY <1>3, <1>4, <2>1, <2>2, <2>5
<1>10. CASE Listen(p)
  <2> DEFINE to == [pod[p] EXCEPT !.at = "up"]
  <2>1. to \in PodState /\ to.found = pod[p].found
    BY <1>3
  <2>2. pod' = [pod EXCEPT ![p] = to] /\ counted' = counted
    BY <1>3, <1>10 DEF Listen, books
  <2> HIDE DEF to
  <2> QED
    BY <1>4, <1>5, <2>1, <2>2
<1> QED
  BY <1>6, <1>7, <1>8, <1>9, <1>10

LEMMA AnswerCrash == ASSUME AnswerInv, NEW p \in Pod, Crash(p) PROVE AnswerInv'
<1>1. PICK done \in SUBSET {j \in Entry : saving[p][j] > 0} :
        rows' = [j \in Entry |-> rows[j] + IF j \in done THEN saving[p][j] ELSE 0]
  BY DEF Crash
<1>2. /\ BooksOK /\ HeldIsDelivered /\ BusOK /\ QueryOK /\ ReadIsOwn
      /\ UNCHANGED <<topic, committed, pos, posts, chunks, delivered>>
      /\ pod' = [pod EXCEPT ![p] = Down]
      /\ counted' = [counted EXCEPT ![p] = Zero]
      /\ saving' = [saving EXCEPT ![p] = Zero]
      /\ indexing' = [indexing EXCEPT ![p] = {}]
      /\ query' = [q \in Query |-> IF query[q].at \in {"embed", "generate"} /\ query[q].pod = p
                                   THEN [at |-> "failed"] ELSE query[q]]
  BY DEF AnswerInv, Crash
<1>3. Zero \in [Entry -> Nat] /\ \A j \in Entry : Zero[j] = 0
  BY DEF Zero
<1>4. /\ counted' \in [Pod -> [Entry -> Nat]]
      /\ \A o \in Pod : counted'[o] = IF o = p THEN Zero ELSE counted[o]
  <2>1. counted \in [Pod -> [Entry -> Nat]]
    BY <1>2 DEF BooksOK
  <2> QED
    BY <1>2, <1>3, <2>1
<1>5. /\ saving' \in [Pod -> [Entry -> Nat]]
      /\ \A o \in Pod : saving'[o] = IF o = p THEN Zero ELSE saving[o]
  <2>1. saving \in [Pod -> [Entry -> Nat]]
    BY <1>2 DEF BooksOK
  <2> QED
    BY <1>2, <1>3, <2>1
<1>6. /\ rows' \in [Entry -> Nat]
      /\ \A j \in Entry : rows[j] = 0 /\ saving[p][j] = 0 => rows'[j] = 0
  <2>1. rows \in [Entry -> Nat] /\ saving \in [Pod -> [Entry -> Nat]]
    BY <1>2 DEF BooksOK
  <2>2. saving[p] \in [Entry -> Nat]
    BY <2>1
  <2> QED
    BY <1>1, <2>1, <2>2
<1>7. /\ indexing' \in [Pod -> SUBSET Entry]
      /\ \A o \in Pod : indexing'[o] = IF o = p THEN {} ELSE indexing[o]
  <2>1. indexing \in [Pod -> SUBSET Entry]
    BY <1>2 DEF BooksOK
  <2> QED
    BY <1>2, <2>1
<1>8. /\ pod' \in [Pod -> [at : {"down", "started", "read", "seeding", "up"},
                          ready : {"not yet", "yes", "failed"}, found : [Entry -> Nat]]]
      /\ \A o \in Pod : pod'[o] = IF o = p THEN Down ELSE pod[o]
  <2>1. Down \in [at : {"down", "started", "read", "seeding", "up"},
                  ready : {"not yet", "yes", "failed"}, found : [Entry -> Nat]]
    BY <1>3 DEF Down
  <2> QED
    BY <1>2, <2>1 DEF BooksOK
<1>9. BooksOK' /\ BusOK'
  BY <1>2, <1>4, <1>5, <1>6, <1>7, <1>8 DEF BooksOK, BusOK
<1>10. HeldIsDelivered'
  <2> SUFFICES ASSUME NEW j \in Entry, delivered'[j] = 0
               PROVE  /\ rows'[j] = 0 /\ j \notin chunks'
                      /\ \A o \in Pod : /\ counted'[o][j] = 0 /\ saving'[o][j] = 0
                                        /\ j \notin indexing'[o] /\ pod'[o].found[j] = 0
    BY DEF HeldIsDelivered
  <2>1. /\ rows[j] = 0 /\ j \notin chunks
        /\ \A o \in Pod : /\ counted[o][j] = 0 /\ saving[o][j] = 0
                          /\ j \notin indexing[o] /\ pod[o].found[j] = 0
    BY <1>2 DEF HeldIsDelivered
  <2>2. Down.found[j] = 0
    BY <1>3 DEF Down
  <2> QED
    BY <1>2, <1>3, <1>4, <1>5, <1>6, <1>7, <1>8, <2>1, <2>2
<1>11. \A q \in Query : IsAsking(q)' => query'[q] = query[q] /\ IsAsking(q)
  BY <1>2 DEF IsAsking
<1>12. QueryOK' /\ ReadIsOwn'
  <2>1. QueryOK'
    BY <1>2, <1>11 DEF QueryOK
  <2>2. ReadIsOwn'
    BY <1>2, <1>11 DEF ReadIsOwn
  <2> QED
    BY <2>1, <2>2
<1> QED
  BY <1>9, <1>10, <1>12 DEF AnswerInv

(* The summary is of the tenant by its filter, and the chunks by the search. *)
LEMMA AnswerAsked == ASSUME AnswerInv, Asked PROVE AnswerInv'
<1>1. BusOK' /\ BooksOK' /\ HeldIsDelivered' /\ delivered' = delivered
  <2>1. UNCHANGED <<bus, pod, books>>
    BY DEF Asked, Search, Generate, Ask
  <2> QED
    BY <2>1, BusStays, BooksStay DEF AnswerInv, books
<1> SUFFICES QueryOK' /\ ReadIsOwn'
  BY <1>1 DEF AnswerInv
<1> DEFINE Own(a) ==
      /\ \A c \in a.chunks : ~c.shared => TenantOf[c.about] = a.tenant /\ delivered[c.about] > 0
      /\ \A j \in Entry : a.summary[j] > 0 => TenantOf[j] = a.tenant /\ delivered[j] > 0
<1>2. ASSUME NEW q \in Query, NEW a \in Asking, query' = [query EXCEPT ![q] = a], Own(a)
      PROVE  QueryOK' /\ ReadIsOwn'
  <2>1. query = [r \in Query |-> query[r]]
    BY DEF AnswerInv, QueryOK
  <2>2. /\ query' = [r \in Query |-> query'[r]] /\ query'[q] = a
        /\ \A r \in Query : r # q => query'[r] = query[r]
    BY <1>2, <2>1
  <2>3. QueryOK'
    BY <1>2, <2>2 DEF AnswerInv, QueryOK, IsAsking
  <2>4. ReadIsOwn'
    BY <1>1, <1>2, <2>2 DEF AnswerInv, ReadIsOwn, IsAsking
  <2> QED
    BY <2>3, <2>4
<1>3. PICK q \in Query : Search(q) \/ Generate(q) \/ (\E p \in Pod, t \in Tenants : Ask(q, p, t))
  BY DEF Asked
<1>4. ASSUME IsAsking(q)
      PROVE  query[q] \in Asking /\ Own(query[q])
  BY <1>4 DEF AnswerInv, QueryOK, ReadIsOwn
<1>5. ASSUME NEW p \in Pod, NEW t \in Tenants, Ask(q, p, t) PROVE QueryOK' /\ ReadIsOwn'
  <2> DEFINE a == [at |-> IF pod[p].ready = "yes" THEN "embed" ELSE "generate", pod |-> p,
                   tenant |-> t, summary |-> Summary(p, t), chunks |-> {}]
  <2>1. query' = [query EXCEPT ![q] = a]
    BY <1>5 DEF Ask
  <2>2. counted[p] \in [Entry -> Nat]
    BY DEF AnswerInv, BooksOK
  <2>3. Summary(p, t) \in [Entry -> Nat]
    BY <2>2 DEF Summary
  <2>4. a \in Asking /\ a.chunks = {} /\ a.tenant = t /\ a.summary = Summary(p, t)
    BY <2>3 DEF Asking
  <2>5. \A j \in Entry : Summary(p, t)[j] > 0 => TenantOf[j] = t /\ counted[p][j] > 0
    BY <2>2 DEF Summary
  <2>6. delivered \in [Entry -> Nat]
    BY DEF AnswerInv, BooksOK
  <2>7. \A j \in Entry : counted[p][j] > 0 => delivered[j] > 0
    BY <2>6 DEF AnswerInv, HeldIsDelivered
  <2> HIDE DEF a
  <2> QED
    BY <1>2, <2>1, <2>4, <2>5, <2>7
<1>6. CASE Search(q)
  <2>1. query[q].at = "embed" /\ IsAsking(q)
    BY <1>6 DEF Search, IsAsking
  <2>2. query[q] \in Asking /\ Own(query[q])
    BY <1>4, <2>1
  <2>3. ASSUME NEW found \in SUBSET Visible(query[q].tenant),
               query' = [query EXCEPT ![q].at = "generate", ![q].chunks = found]
        PROVE  QueryOK' /\ ReadIsOwn'
    <3> DEFINE a == [query[q] EXCEPT !.at = "generate", !.chunks = found]
    <3>1. Visible(query[q].tenant) \subseteq Chunk
      <4>1. Shared \subseteq Source \X STRING
        BY KeysAreStrings DEF Shared
      <4>2. chunks \subseteq Entry
        BY DEF AnswerInv, BooksOK
      <4> QED
        BY <4>1, <4>2 DEF Visible, Chunk
    <3>2. /\ a \in Asking /\ a.chunks = found /\ a.tenant = query[q].tenant
          /\ a.summary = query[q].summary
      BY <2>2, <2>3, <3>1 DEF Asking
    <3>3. query' = [query EXCEPT ![q] = a]
      BY <2>2, <2>3 DEF AnswerInv, QueryOK, Asking
    <3>4. \A c \in found : ~c.shared =>
             c.about \in chunks /\ TenantOf[c.about] = query[q].tenant
      BY <2>3 DEF Visible
    <3>5. delivered \in [Entry -> Nat] /\ chunks \subseteq Entry
      BY DEF AnswerInv, BooksOK
    <3>6. \A j \in chunks : delivered[j] > 0
      BY <3>5 DEF AnswerInv, HeldIsDelivered
    <3> HIDE DEF a
    <3> QED
      BY <1>2, <2>2, <3>2, <3>3, <3>4, <3>6
  <2>4. CASE query' = [query EXCEPT ![q].at = "generate"]
    <3> DEFINE a == [query[q] EXCEPT !.at = "generate"]
    <3>1. /\ a \in Asking /\ a.chunks = query[q].chunks /\ a.tenant = query[q].tenant
          /\ a.summary = query[q].summary
      BY <2>2 DEF Asking
    <3>2. query' = [query EXCEPT ![q] = a]
      BY <2>2, <2>4 DEF AnswerInv, QueryOK, Asking
    <3> HIDE DEF a
    <3> QED
      BY <1>2, <2>2, <3>1, <3>2
  <2> QED
    BY <1>6, <2>3, <2>4 DEF Search
<1>7. CASE Generate(q)
  <2>1. query[q] \in Asking /\ Own(query[q])
    BY <1>4, <1>7 DEF Generate, IsAsking
  <2> DEFINE a == [query[q] EXCEPT !.at = "answered"]
  <2>2. /\ a \in Asking /\ a.chunks = query[q].chunks /\ a.tenant = query[q].tenant
        /\ a.summary = query[q].summary
    BY <2>1 DEF Asking
  <2>3. query' = [query EXCEPT ![q] = a]
    BY <1>7, <2>1 DEF Generate, AnswerInv, QueryOK, Asking
  <2> HIDE DEF a
  <2> QED
    BY <1>2, <2>1, <2>2, <2>3
<1> QED
  BY <1>3, <1>5, <1>6, <1>7

LEMMA AnswerBus ==
  ASSUME AnswerInv, UNCHANGED <<pod, books, query>>, BusOK'
  PROVE  AnswerInv'
<1>1. delivered' = delivered
  BY DEF books
<1> QED
  BY <1>1, BooksStay, DeliveredStays, ReadStays DEF AnswerInv

LEMMA AnswerStep == AnswerInv /\ [Next]_vars => AnswerInv'
<1> SUFFICES ASSUME AnswerInv, [Next]_vars PROVE AnswerInv'
  OBVIOUS
<1>1. BusOK
  BY DEF AnswerInv
<1>2. ASSUME NEW j \in Entry, NotifyAi(j) \/ DropPost(j) PROVE AnswerInv'
  <2>1. UNCHANGED <<pod, books, query>>
    BY <1>2 DEF NotifyAi, DropPost
  <2>2. Append(topic, j) \in Seq(Entry \cup {Reply})
    BY <1>1 DEF BusOK
  <2>3. topic' \in {topic, Append(topic, j)} /\ posts' \in {posts, posts \cup {j}, posts \ {j}}
        /\ UNCHANGED <<pos, committed>>
    BY <1>2 DEF NotifyAi, DropPost
  <2> QED
    BY <1>1, <2>1, <2>2, <2>3, AnswerBus DEF BusOK
<1>3. CASE PublishSagaReply
  BY <1>1, <1>3, AnswerBus DEF PublishSagaReply, BusOK
<1>4. ASSUME NEW p \in Pod, Join(p) PROVE AnswerInv'
  BY <1>1, <1>4, AnswerBus DEF Join, BusOK
<1>5. CASE CommitOffset
  BY <1>1, <1>5, AnswerBus DEF CommitOffset, BusOK
<1>6. ASSUME NEW p \in Pod, NEW j \in Entry, ReceiveEvent(p, j) PROVE AnswerInv'
  <2>1. Ingest(p, j) /\ UNCHANGED <<pod, query>> /\ BusOK'
    BY <1>1, <1>6 DEF ReceiveEvent, BusOK
  <2> QED
    BY <2>1, AnswerIngest
<1>7. ASSUME NEW p \in Pod, Seeder(p) PROVE AnswerInv'
  BY <1>7, AnswerStays DEF Seeder, Seed, CountSource, FindKey, UpsertKey
<1>8. CASE ChangeBundle
  BY <1>8, AnswerStays DEF ChangeBundle
<1>9. ASSUME NEW p \in Pod, Start(p) PROVE AnswerInv'
  BY <1>9, AnswerStart, AnswerCrash DEF Start
<1>10. CASE UNCHANGED vars
  BY <1>10, AnswerStays DEF vars
<1> QED
  BY <1>2, <1>3, <1>4, <1>5, <1>6, <1>7, <1>8, <1>9, <1>10, AnswerEachMessage, AnswerStored,
     AnswerAsked DEF Next, Ledger, Consumer

LEMMA AnswerAlways == Spec => []AnswerInv
<1>1. Init => AnswerInv
  <2> SUFFICES ASSUME Init PROVE AnswerInv
    OBVIOUS
  <2>1. Zero \in [Entry -> Nat] /\ \A j \in Entry : Zero[j] = 0
    BY DEF Zero
  <2>2. BooksOK
    BY <2>1 DEF Init, BooksOK, Down
  <2>3. BusOK
    BY DEF Init, BusOK
  <2>4. HeldIsDelivered
    BY <2>1 DEF Init, HeldIsDelivered, Down
  <2>5. QueryOK /\ ReadIsOwn
    BY DEF Init, QueryOK, ReadIsOwn, IsAsking
  <2> QED
    BY <2>2, <2>3, <2>4, <2>5 DEF AnswerInv
<1>2. AnswerInv /\ [Next]_vars => AnswerInv'
  BY AnswerStep
<1> QED
  BY <1>1, <1>2, PTL DEF Spec

(* For any tenants, pods and questions: an answer is made from shared texts *)
(* and from entries of the tenant who asks that the service was given.      *)
THEOREM AnswersAreOwn == Spec => []AnswerIsOwn
<1>1. AnswerInv => AnswerIsOwn
  <2> SUFFICES ASSUME AnswerInv, NEW q \in Query, query[q].at = "answered"
               PROVE  LET read == {c.about : c \in {c \in query[q].chunks : ~c.shared}}
                                  \cup {j \in Entry : query[q].summary[j] > 0}
                      IN  \A j \in read : TenantOf[j] = query[q].tenant /\ delivered[j] > 0
    BY DEF AnswerIsOwn
  <2> QED
    BY DEF AnswerInv, ReadIsOwn, IsAsking
<1> QED
  BY <1>1, AnswerAlways, PTL

-----------------------------------------------------------------------------
(* Totals.  Each delivery of an entry has a place: a pod that is saving its *)
(* row, the table, or nowhere any more.  So there are never more rows than  *)
(* deliveries, whatever pods stop, and what a pod reads when it starts is   *)
(* not too much.  A pod that is alone has no other that saves, and what it  *)
(* is saving itself, it has been given after it has added the rows.         *)
Row == <<"row", 0>>
Gone == <<"gone", 0>>
Saving(p) == <<"saving", p>>
Place == ({"saving"} \X Pod) \cup {Row, Gone}
At(tok, x) == {k \in DOMAIN tok : tok[k] = x}

\* The n deliveries of an entry, r of them rows, w[p] on their way from p.
IsFate(tok, n, r, w) ==
    /\ tok \in [1 .. n -> Place]
    /\ Cardinality(At(tok, Row)) = r
    /\ \A p \in Pod : Cardinality(At(tok, Saving(p))) = w[p]

HasFate(n, r, w) == \E tok : IsFate(tok, n, r, w)
Underway(j) == [p \in Pod |-> saving[p][j]]

Fates == \A j \in Entry : HasFate(delivered[j], rows[j], Underway(j))

MemoryIsDelivered ==
    \A p \in Pod, j \in Entry \ early :
        /\ counted[p][j] <= delivered[j]
        /\ pod[p].at \in {"down", "started", "read"} => counted[p][j] = 0
        /\ pod[p].at = "read" => pod[p].found[j] <= delivered[j]

OwnerIsUp == \A p \in Pod : owner = p => pod[p].at # "down"

OthersAreDown ==
    \A p \in Pod \ scene.pods : pod[p].at = "down" /\ \A j \in Entry : saving[p][j] = 0

IdleIsEmpty ==
    \A p \in Pod, j \in Entry :
        pod[p].at = "down" \/ (pod[p].at \in {"started", "read"} /\ j \notin early) =>
            saving[p][j] = 0

\* For the pod that is alone.
NothingIsMissing ==
    \A p \in Pod, j \in Entry \ lost : scene.pods = {p} =>
        /\ rows[j] + saving[p][j] = delivered[j]
        /\ pod[p].at = "read" /\ j \notin early => pod[p].found[j] = rows[j]
        /\ pod[p].at \in {"seeding", "up"} /\ j \notin early => counted[p][j] = delivered[j]

Alone == OwnerIsUp /\ OthersAreDown /\ IdleIsEmpty /\ NothingIsMissing

TotalInv == Fates /\ MemoryIsDelivered /\ Alone

LEMMA Places ==
  /\ Row \in Place /\ Gone \in Place /\ Row # Gone
  /\ \A p \in Pod : Saving(p) \in Place /\ Saving(p) # Row /\ Saving(p) # Gone
  /\ \A p, o \in Pod : Saving(p) = Saving(o) => p = o
  BY DEF Row, Gone, Saving, Place

LEMMA AtIsFinite ==
  ASSUME NEW n \in Nat, NEW tok \in [1 .. n -> Place], NEW x
  PROVE  /\ IsFiniteSet(At(tok, x)) /\ Cardinality(At(tok, x)) \in Nat
         /\ Cardinality(At(tok, x)) <= n
<1>1. IsFiniteSet(1 .. n) /\ Cardinality(1 .. n) = n
  <2>1. 1 \in Int /\ n \in Int
    OBVIOUS
  <2> QED
    BY <2>1, FS_Interval
<1>2. At(tok, x) \subseteq 1 .. n
  BY DEF At
<1> QED
  BY <1>1, <1>2, FS_Subset, FS_CardinalityType

LEMMA FateBounds ==
  ASSUME NEW n \in Nat, NEW r \in Nat, NEW w, NEW tok, IsFate(tok, n, r, w)
  PROVE  r <= n
  BY AtIsFinite DEF IsFate

(* A delivery that has no place yet gets one. *)
LEMMA FateGrows ==
  ASSUME NEW n \in Nat, NEW r \in Nat, NEW w \in [Pod -> Nat], NEW tok, IsFate(tok, n, r, w),
         NEW p \in Pod
  PROVE  \E t : IsFate(t, n + 1, r, [w EXCEPT ![p] = @ + 1])
<1>0. tok \in [1 .. n -> Place]
  BY DEF IsFate
<1>1. PICK t : t = [k \in 1 .. n + 1 |-> IF k = n + 1 THEN Saving(p) ELSE tok[k]]
  OBVIOUS
<1>2. \A k \in 1 .. n : k \in 1 .. n + 1 /\ k # n + 1 /\ t[k] = tok[k]
  BY <1>1
<1>3. \A k \in 1 .. n + 1 : k = n + 1 \/ k \in 1 .. n
  OBVIOUS
<1>4. n + 1 \in 1 .. n + 1 /\ t[n + 1] = Saving(p) /\ n + 1 \notin 1 .. n
  BY <1>1
<1>5. DOMAIN t = 1 .. n + 1 /\ DOMAIN tok = 1 .. n
  BY <1>0, <1>1
<1>6. t \in [1 .. n + 1 -> Place]
  <2>1. \A k \in 1 .. n + 1 : t[k] \in Place
    BY <1>0, <1>2, <1>3, <1>4, Places
  <2> QED
    BY <1>1, <2>1
<1>7. At(t, Saving(p)) = At(tok, Saving(p)) \cup {n + 1}
  BY <1>2, <1>3, <1>4, <1>5 DEF At
<1>8. ASSUME NEW x, x # Saving(p) PROVE At(t, x) = At(tok, x)
  BY <1>2, <1>3, <1>4, <1>5, <1>8 DEF At
<1>9. Cardinality(At(t, Saving(p))) = w[p] + 1
  <2>1. n + 1 \notin At(tok, Saving(p))
    BY <1>4, <1>5 DEF At
  <2>2. Cardinality(At(tok, Saving(p)) \cup {n + 1}) = Cardinality(At(tok, Saving(p))) + 1
    BY <1>0, <2>1, AtIsFinite, FS_AddElement
  <2> QED
    BY <1>7, <2>2 DEF IsFate
<1>10. Cardinality(At(t, Row)) = r
  BY <1>8, Places DEF IsFate
<1>11. \A o \in Pod \ {p} : Cardinality(At(t, Saving(o))) = w[o]
  BY <1>8, Places DEF IsFate
<1> QED
  BY <1>6, <1>9, <1>10, <1>11 DEF IsFate

(* Deliveries that a pod is saving become rows, or get lost. *)
LEMMA FateMoves ==
  ASSUME NEW n \in Nat, NEW r \in Nat, NEW w \in [Pod -> Nat], NEW tok, IsFate(tok, n, r, w),
         NEW p \in Pod, NEW moved \in SUBSET At(tok, Saving(p)), NEW x \in {Row, Gone}
  PROVE  \E t : IsFate(t, n, IF x = Row THEN r + Cardinality(moved) ELSE r,
                       [w EXCEPT ![p] = @ - Cardinality(moved)])
<1>0. tok \in [1 .. n -> Place]
  BY DEF IsFate
<1>1. PICK t : t = [k \in 1 .. n |-> IF k \in moved THEN x ELSE tok[k]]
  OBVIOUS
<1>2. DOMAIN t = 1 .. n /\ DOMAIN tok = 1 .. n /\ t \in [1 .. n -> Place]
  BY <1>0, <1>1, Places
<1>3. /\ moved \subseteq 1 .. n /\ \A k \in moved : tok[k] = Saving(p) /\ t[k] = x
      /\ \A k \in (1 .. n) \ moved : t[k] = tok[k]
  BY <1>1, <1>2 DEF At
<1>4. /\ IsFiniteSet(moved) /\ Cardinality(moved) \in Nat
      /\ \A y : IsFiniteSet(At(tok, y)) /\ Cardinality(At(tok, y)) \in Nat
  BY <1>0, AtIsFinite, FS_Subset, FS_CardinalityType
<1>5. x # Saving(p)
  BY Places
<1>6. Cardinality(At(t, Saving(p))) = w[p] - Cardinality(moved)
  <2>1. At(t, Saving(p)) = At(tok, Saving(p)) \ moved
    BY <1>2, <1>3, <1>5 DEF At
  <2>2. At(tok, Saving(p)) \cap moved = moved
    OBVIOUS
  <2>3. Cardinality(At(tok, Saving(p)) \ moved) = Cardinality(At(tok, Saving(p))) - Cardinality(moved)
    BY <1>4, <2>2, FS_Difference
  <2> QED
    BY <2>1, <2>3 DEF IsFate
<1>7. ASSUME NEW y, y # x, y # Saving(p) PROVE At(t, y) = At(tok, y)
  BY <1>2, <1>3, <1>7 DEF At
<1>8. Cardinality(At(t, Row)) = IF x = Row THEN r + Cardinality(moved) ELSE r
  <2>1. CASE x = Row
    <3>1. At(t, Row) = At(tok, Row) \cup moved
      BY <1>2, <1>3, <2>1 DEF At
    <3>2. At(tok, Row) \cap moved = {}
      BY <1>3, Places DEF At
    <3>3. Cardinality({}) = 0
      BY FS_EmptySet
    <3>4. Cardinality(At(tok, Row) \cup moved)
            = Cardinality(At(tok, Row)) + Cardinality(moved) - Cardinality(At(tok, Row) \cap moved)
      BY <1>4, FS_Union
    <3>5. Cardinality(At(tok, Row)) = r
      BY DEF IsFate
    <3> QED
      BY <1>4, <2>1, <3>1, <3>2, <3>3, <3>4, <3>5
  <2>2. CASE x # Row
    BY <1>7, <2>2, Places DEF IsFate
  <2> QED
    BY <2>1, <2>2
<1>9. \A o \in Pod \ {p} : Cardinality(At(t, Saving(o))) = w[o]
  BY <1>7, Places DEF IsFate
<1> QED
  BY <1>2, <1>6, <1>8, <1>9 DEF IsFate

numbers == <<counted, saving, rows, delivered, early, lost>>

LEMMA UnderwayType ==
  ASSUME BooksOK, NEW j \in Entry
  PROVE  /\ Underway(j) \in [Pod -> Nat] /\ rows[j] \in Nat /\ delivered[j] \in Nat
         /\ \A p \in Pod : saving[p][j] \in Nat /\ counted[p][j] \in Nat
         /\ \A p \in Pod : pod[p].found[j] \in Nat
<1>1. \A p \in Pod : saving[p] \in [Entry -> Nat] /\ counted[p] \in [Entry -> Nat]
  BY DEF BooksOK
<1>2. \A p \in Pod : pod[p].found \in [Entry -> Nat]
  BY DEF BooksOK
<1>3. rows[j] \in Nat /\ delivered[j] \in Nat
  BY DEF BooksOK
<1>4. \A p \in Pod : saving[p][j] \in Nat /\ counted[p][j] \in Nat
  BY <1>1
<1>5. \A p \in Pod : pod[p].found[j] \in Nat
  BY <1>2
<1>6. Underway(j) \in [Pod -> Nat]
  BY <1>4 DEF Underway
<1> QED
  BY <1>3, <1>4, <1>5, <1>6

LEMMA RowsAreDelivered ==
  ASSUME BooksOK, Fates, NEW j \in Entry
  PROVE  rows[j] <= delivered[j]
  BY UnderwayType, FateBounds DEF Fates, HasFate

(* A step that moves no numbers and starts or stops no pod. *)
LEMMA TotalStays ==
  TotalInv /\ UNCHANGED <<numbers, pod, owner, scene>> => TotalInv'
<1> SUFFICES ASSUME TotalInv, UNCHANGED <<numbers, pod, owner, scene>> PROVE TotalInv'
  OBVIOUS
<1>1. UNCHANGED <<counted, saving, rows, delivered, early, lost, pod, owner, scene>>
  BY DEF numbers
<1>2. Fates'
  BY <1>1 DEF TotalInv, Fates, Underway
<1>3. MemoryIsDelivered'
  BY <1>1 DEF TotalInv, MemoryIsDelivered
<1>4. OwnerIsUp' /\ OthersAreDown'
  BY <1>1 DEF TotalInv, Alone, OwnerIsUp, OthersAreDown
<1>5. IdleIsEmpty' /\ NothingIsMissing'
  BY <1>1 DEF TotalInv, Alone, IdleIsEmpty, NothingIsMissing
<1> QED
  BY <1>2, <1>3, <1>4, <1>5 DEF TotalInv, Alone

LEMMA TotalJoin == ASSUME TotalInv, NEW p \in Pod, Join(p) PROVE TotalInv'
<1>1. /\ pod[p].at # "down" /\ owner' = p
      /\ UNCHANGED <<counted, saving, rows, delivered, early, lost, pod, scene>>
  BY DEF Join, books
<1>2. Fates'
  BY <1>1 DEF TotalInv, Fates, Underway
<1>3. MemoryIsDelivered'
  BY <1>1 DEF TotalInv, MemoryIsDelivered
<1>4. OwnerIsUp' /\ OthersAreDown'
  BY <1>1 DEF TotalInv, Alone, OwnerIsUp, OthersAreDown
<1>5. IdleIsEmpty' /\ NothingIsMissing'
  BY <1>1 DEF TotalInv, Alone, IdleIsEmpty, NothingIsMissing
<1> QED
  BY <1>2, <1>3, <1>4, <1>5 DEF TotalInv, Alone

(* One number of one pod is replaced: the others of any kind are as before. *)
LEMMA ReplacedIn ==
  ASSUME NEW f \in [Pod -> [Entry -> Nat]], NEW p \in Pod, NEW j \in Entry, NEW n \in Nat,
         NEW g, g = [f EXCEPT ![p][j] = n]
  PROVE  /\ g[p][j] = n
         /\ \A o \in Pod, i \in Entry : o # p \/ i # j => g[o][i] = f[o][i]
  OBVIOUS

(* ingestEvent of a pod that is up in some way. *)
LEMMA TotalIngest ==
  ASSUME AnswerInv, TotalInv, NEW p \in Pod, NEW j \in Entry, Ingest(p, j), pod[p].at # "down",
         UNCHANGED <<pod, owner, scene>>
  PROVE  TotalInv'
<1>1. /\ counted' = [counted EXCEPT ![p] = [counted[p] EXCEPT ![j] = @ + 1]]
      /\ saving' = [saving EXCEPT ![p][j] = @ + 1]
      /\ delivered' = [delivered EXCEPT ![j] = @ + 1]
      /\ early' = IF pod[p].at \in {"started", "read"} THEN early \cup {j} ELSE early
      /\ UNCHANGED <<rows, lost, pod, owner, scene>>
  BY DEF Ingest
<1>2. /\ BooksOK /\ counted \in [Pod -> [Entry -> Nat]] /\ saving \in [Pod -> [Entry -> Nat]]
      /\ delivered \in [Entry -> Nat]
  BY DEF AnswerInv, BooksOK
<1>3. delivered'[j] = delivered[j] + 1 /\ \A i \in Entry \ {j} : delivered'[i] = delivered[i]
  BY <1>1, <1>2
<1>4. /\ counted'[p][j] = counted[p][j] + 1
      /\ \A o \in Pod, i \in Entry : o # p \/ i # j => counted'[o][i] = counted[o][i]
  <2>1. counted' = [counted EXCEPT ![p][j] = counted[p][j] + 1] /\ counted[p][j] + 1 \in Nat
    BY <1>1, <1>2
  <2> QED
    BY <1>2, <2>1, ReplacedIn
<1>5. /\ saving'[p][j] = saving[p][j] + 1
      /\ \A o \in Pod, i \in Entry : o # p \/ i # j => saving'[o][i] = saving[o][i]
  <2>1. saving' = [saving EXCEPT ![p][j] = saving[p][j] + 1] /\ saving[p][j] + 1 \in Nat
    BY <1>1, <1>2
  <2> QED
    BY <1>2, <2>1, ReplacedIn
<1>6. Fates'
  <2> SUFFICES ASSUME NEW i \in Entry
               PROVE  HasFate(delivered'[i], rows[i], [o \in Pod |-> saving'[o][i]])
    BY <1>1 DEF Fates, Underway
  <2>1. PICK tok : IsFate(tok, delivered[i], rows[i], Underway(i))
    BY DEF TotalInv, Fates, HasFate
  <2>2. CASE i = j
    <3>1. \E t : IsFate(t, delivered[j] + 1, rows[j], [Underway(j) EXCEPT ![p] = @ + 1])
      BY <1>2, <2>1, <2>2, UnderwayType, FateGrows
    <3>2. [o \in Pod |-> saving'[o][j]] = [Underway(j) EXCEPT ![p] = @ + 1]
      BY <1>5 DEF Underway
    <3> QED
      BY <1>3, <2>2, <3>1, <3>2 DEF HasFate
  <2>3. CASE i # j
    <3>1. [o \in Pod |-> saving'[o][i]] = Underway(i)
      BY <1>5, <2>3 DEF Underway
    <3> QED
      BY <1>3, <2>1, <2>3, <3>1 DEF HasFate
  <2> QED
    BY <2>2, <2>3
<1>7. \A i \in Entry : i \notin early' => i \notin early
  BY <1>1
<1>8. j \notin early' => pod[p].at \notin {"down", "started", "read"}
  BY <1>1
<1>9. MemoryIsDelivered'
  <2> SUFFICES ASSUME NEW o \in Pod, NEW i \in Entry, i \notin early'
               PROVE  /\ counted'[o][i] <= delivered'[i]
                      /\ pod[o].at \in {"down", "started", "read"} => counted'[o][i] = 0
                      /\ pod[o].at = "read" => pod[o].found[i] <= delivered'[i]
    BY <1>1 DEF MemoryIsDelivered
  <2>1. /\ counted[o][i] <= delivered[i]
        /\ pod[o].at \in {"down", "started", "read"} => counted[o][i] = 0
        /\ pod[o].at = "read" => pod[o].found[i] <= delivered[i]
    BY <1>7 DEF TotalInv, MemoryIsDelivered
  <2>2. /\ counted[o][i] \in Nat /\ delivered[i] \in Nat
        /\ pod[o].found[i] \in Nat
    BY <1>2, UnderwayType
  <2>3. CASE i # j
    BY <1>3, <1>4, <2>1, <2>3
  <2>4. CASE i = j
    <3>1. CASE o = p
      BY <1>3, <1>4, <1>8, <2>1, <2>2, <2>4, <3>1
    <3>2. CASE o # p
      BY <1>3, <1>4, <2>1, <2>2, <2>4, <3>2
    <3> QED
      BY <3>1, <3>2
  <2> QED
    BY <2>3, <2>4
<1>10. OwnerIsUp'
  BY <1>1 DEF TotalInv, Alone, OwnerIsUp
<1>11. p \in scene.pods
  BY DEF TotalInv, Alone, OthersAreDown
<1>12. OthersAreDown'
  BY <1>1, <1>5, <1>11 DEF TotalInv, Alone, OthersAreDown
<1>13. IdleIsEmpty'
  <2> SUFFICES ASSUME NEW o \in Pod, NEW i \in Entry,
                      pod[o].at = "down" \/ (pod[o].at \in {"started", "read"} /\ i \notin early')
               PROVE  saving'[o][i] = 0
    BY <1>1 DEF IdleIsEmpty
  <2>1. saving[o][i] = 0
    BY <1>7 DEF TotalInv, Alone, IdleIsEmpty
  <2>2. o # p \/ i # j
    BY <1>8
  <2> QED
    BY <1>5, <2>1, <2>2
<1>14. NothingIsMissing'
  <2> SUFFICES ASSUME NEW o \in Pod, NEW i \in Entry, i \notin lost, scene.pods = {o}
               PROVE  /\ rows[i] + saving'[o][i] = delivered'[i]
                      /\ pod[o].at = "read" /\ i \notin early' => pod[o].found[i] = rows[i]
                      /\ pod[o].at \in {"seeding", "up"} /\ i \notin early' =>
                            counted'[o][i] = delivered'[i]
    BY <1>1 DEF NothingIsMissing
  <2>1. /\ rows[i] + saving[o][i] = delivered[i]
        /\ pod[o].at = "read" /\ i \notin early' => pod[o].found[i] = rows[i]
        /\ pod[o].at \in {"seeding", "up"} /\ i \notin early' =>
              counted[o][i] = delivered[i]
    BY <1>7 DEF TotalInv, Alone, NothingIsMissing
  <2>2. o = p
    BY <1>11
  <2>3. /\ rows[i] \in Nat /\ saving[o][i] \in Nat /\ counted[o][i] \in Nat
        /\ delivered[i] \in Nat
    BY <1>2, UnderwayType
  <2>4. CASE i # j
    BY <1>3, <1>4, <1>5, <2>1, <2>4
  <2>5. CASE i = j
    BY <1>3, <1>4, <1>5, <2>1, <2>2, <2>3, <2>5
  <2> QED
    BY <2>4, <2>5
<1> QED
  BY <1>6, <1>9, <1>10, <1>12, <1>13, <1>14 DEF TotalInv, Alone

LEMMA TotalSave == ASSUME AnswerInv, TotalInv, NEW p \in Pod, NEW j \in Entry, SaveRow(p, j)
                   PROVE  TotalInv'
<1>1. /\ saving[p][j] > 0
      /\ saving' = [saving EXCEPT ![p][j] = @ - 1]
      /\ \/ rows' = [rows EXCEPT ![j] = @ + 1] /\ lost' = lost
         \/ lost' = lost \cup {j} /\ rows' = rows
      /\ UNCHANGED <<counted, delivered, early, pod, owner, scene>>
  BY DEF SaveRow, MayFail, bounds, bus
<1>2. BooksOK /\ saving \in [Pod -> [Entry -> Nat]] /\ rows \in [Entry -> Nat]
  BY DEF AnswerInv, BooksOK
<1>3. /\ saving'[p][j] = saving[p][j] - 1
      /\ \A o \in Pod, i \in Entry : o # p \/ i # j => saving'[o][i] = saving[o][i]
  <2>1. saving' = [saving EXCEPT ![p][j] = saving[p][j] - 1] /\ saving[p][j] - 1 \in Nat
    BY <1>1, <1>2
  <2> QED
    BY <1>2, <2>1, ReplacedIn
<1>4. /\ \/ rows'[j] = rows[j] + 1 /\ lost' = lost
         \/ rows'[j] = rows[j] /\ j \in lost'
      /\ \A i \in Entry \ {j} : rows'[i] = rows[i]
      /\ \A i \in Entry : i \notin lost' => i \notin lost
  BY <1>1, <1>2
<1>5. Fates'
  <2> SUFFICES ASSUME NEW i \in Entry
               PROVE  HasFate(delivered[i], rows'[i], [o \in Pod |-> saving'[o][i]])
    BY <1>1 DEF Fates, Underway
  <2>1. PICK tok : IsFate(tok, delivered[i], rows[i], Underway(i))
    BY DEF TotalInv, Fates, HasFate
  <2>2. CASE i = j
    <3>1. /\ Underway(j) \in [Pod -> Nat] /\ rows[j] \in Nat /\ delivered[j] \in Nat
          /\ Underway(j)[p] = saving[p][j]
      BY <1>2, UnderwayType DEF Underway
    <3>2. At(tok, Saving(p)) # {}
      <4>1. Cardinality(At(tok, Saving(p))) > 0
        BY <1>1, <2>1, <2>2, <3>1 DEF IsFate
      <4> QED
        BY <4>1, FS_EmptySet
    <3>3. PICK k \in At(tok, Saving(p)) : TRUE
      BY <3>2
    <3>4. Cardinality({k}) = 1 /\ {k} \in SUBSET At(tok, Saving(p))
      BY <3>3, FS_Singleton
    <3>5. /\ \E t : IsFate(t, delivered[j], rows[j] + 1, [Underway(j) EXCEPT ![p] = @ - 1])
          /\ \E t : IsFate(t, delivered[j], rows[j], [Underway(j) EXCEPT ![p] = @ - 1])
      <4>1. PICK m : m = {k}
        OBVIOUS
      <4>2. ASSUME NEW x \in {Row, Gone}
            PROVE  \E t : IsFate(t, delivered[j],
                                 IF x = Row THEN rows[j] + Cardinality(m) ELSE rows[j],
                                 [Underway(j) EXCEPT ![p] = @ - Cardinality(m)])
        BY <2>1, <2>2, <3>1, <3>4, <4>1, FateMoves
      <4>3. Cardinality(m) = 1
        BY <3>4, <4>1
      <4>4. Row # Gone
        BY Places
      <4>5. \E t : IsFate(t, delivered[j], rows[j] + 1, [Underway(j) EXCEPT ![p] = @ - 1])
        BY <4>2, <4>3
      <4>6. \E t : IsFate(t, delivered[j], rows[j], [Underway(j) EXCEPT ![p] = @ - 1])
        BY <4>2, <4>3, <4>4
      <4> QED
        BY <4>5, <4>6
    <3>6. [o \in Pod |-> saving'[o][j]] = [Underway(j) EXCEPT ![p] = @ - 1]
      BY <1>3 DEF Underway
    <3> QED
      BY <1>4, <2>2, <3>5, <3>6 DEF HasFate
  <2>3. CASE i # j
    <3>1. [o \in Pod |-> saving'[o][i]] = Underway(i)
      BY <1>3, <2>3 DEF Underway
    <3> QED
      BY <1>4, <2>1, <2>3, <3>1 DEF HasFate
  <2> QED
    BY <2>2, <2>3
<1>6. MemoryIsDelivered' /\ OwnerIsUp'
  BY <1>1 DEF TotalInv, Alone, MemoryIsDelivered, OwnerIsUp
<1>7. \A o \in Pod, i \in Entry : saving[o][i] = 0 => saving'[o][i] = 0
  BY <1>1, <1>3
<1>8. OthersAreDown' /\ IdleIsEmpty'
  BY <1>1, <1>7 DEF TotalInv, Alone, OthersAreDown, IdleIsEmpty
<1>9. p \in scene.pods /\ (pod[p].at \in {"started", "read"} => j \in early)
  BY <1>1 DEF TotalInv, Alone, OthersAreDown, IdleIsEmpty
<1>10. NothingIsMissing'
  <2> SUFFICES ASSUME NEW o \in Pod, NEW i \in Entry, i \notin lost', scene.pods = {o}
               PROVE  /\ rows'[i] + saving'[o][i] = delivered[i]
                      /\ pod[o].at = "read" /\ i \notin early => pod[o].found[i] = rows'[i]
                      /\ pod[o].at \in {"seeding", "up"} /\ i \notin early =>
                            counted[o][i] = delivered[i]
    BY <1>1 DEF NothingIsMissing
  <2>1. /\ rows[i] + saving[o][i] = delivered[i]
        /\ pod[o].at = "read" /\ i \notin early => pod[o].found[i] = rows[i]
        /\ pod[o].at \in {"seeding", "up"} /\ i \notin early =>
              counted[o][i] = delivered[i]
    BY <1>4 DEF TotalInv, Alone, NothingIsMissing
  <2>2. o = p
    BY <1>9
  <2>3. rows[i] \in Nat /\ saving[o][i] \in Nat
    BY <1>2, UnderwayType
  <2>4. CASE i # j
    BY <1>3, <1>4, <2>1, <2>4
  <2>5. CASE i = j
    <3>1. rows'[i] = rows[i] + 1 /\ saving'[o][i] = saving[o][i] - 1
      BY <1>3, <1>4, <2>2, <2>5
    <3>2. rows'[i] + saving'[o][i] = delivered[i]
      BY <2>1, <2>3, <3>1
    <3> QED
      BY <1>9, <2>1, <2>2, <2>5, <3>2
  <2> QED
    BY <2>4, <2>5
<1> QED
  BY <1>5, <1>6, <1>8, <1>10 DEF TotalInv, Alone

(* A pod stops: each of its saves is done or is not. *)
LEMMA TotalCrash == ASSUME AnswerInv, TotalInv, NEW p \in Pod, Crash(p) PROVE TotalInv'
<1>1. PICK done \in SUBSET {j \in Entry : saving[p][j] > 0} :
        /\ rows' = [j \in Entry |-> rows[j] + IF j \in done THEN saving[p][j] ELSE 0]
        /\ lost' = lost \cup {j \in Entry \ done : saving[p][j] > 0}
  BY DEF Crash
<1>2. /\ owner' = (IF owner = p THEN Nobody ELSE owner)
      /\ pod' = [pod EXCEPT ![p] = Down]
      /\ counted' = [counted EXCEPT ![p] = Zero]
      /\ saving' = [saving EXCEPT ![p] = Zero]
      /\ UNCHANGED <<delivered, early, scene>>
  BY DEF Crash
<1>3. /\ BooksOK /\ counted \in [Pod -> [Entry -> Nat]] /\ saving \in [Pod -> [Entry -> Nat]]
      /\ pod = [o \in Pod |-> pod[o]]
  BY DEF AnswerInv, BooksOK
<1>4. /\ \A o \in Pod : saving'[o] = IF o = p THEN Zero ELSE saving[o]
      /\ \A o \in Pod : counted'[o] = IF o = p THEN Zero ELSE counted[o]
      /\ \A o \in Pod : pod'[o] = IF o = p THEN Down ELSE pod[o]
      /\ \A i \in Entry : Zero[i] = 0
      /\ Down.at = "down"
  <2>1. \A o \in Pod : saving'[o] = IF o = p THEN Zero ELSE saving[o]
    BY <1>2, <1>3, Zenon
  <2>2. \A o \in Pod : counted'[o] = IF o = p THEN Zero ELSE counted[o]
    BY <1>2, <1>3, Zenon
  <2>3. \A o \in Pod : pod'[o] = IF o = p THEN Down ELSE pod[o]
    BY <1>2, <1>3
  <2> QED
    BY <2>1, <2>2, <2>3 DEF Zero, Down
<1>5. \A i \in Entry :
        /\ i \in done => rows'[i] = rows[i] + saving[p][i]
        /\ i \notin done => rows'[i] = rows[i]
        /\ i \notin lost' => i \notin lost /\ (i \in done \/ saving[p][i] = 0)
  BY <1>1, <1>3, UnderwayType
<1>6. Fates'
  <2> SUFFICES ASSUME NEW i \in Entry
               PROVE  HasFate(delivered[i], rows'[i], [o \in Pod |-> saving'[o][i]])
    BY <1>2 DEF Fates, Underway
  <2>1. PICK tok : IsFate(tok, delivered[i], rows[i], Underway(i))
    BY DEF TotalInv, Fates, HasFate
  <2>2. /\ Underway(i) \in [Pod -> Nat] /\ rows[i] \in Nat /\ delivered[i] \in Nat
        /\ Underway(i)[p] = saving[p][i] /\ saving[p][i] \in Nat
    BY <1>3, UnderwayType DEF Underway
  <2>3. PICK m : m = At(tok, Saving(p))
    OBVIOUS
  <2>4. Cardinality(m) = saving[p][i]
    BY <2>1, <2>2, <2>3 DEF IsFate
  <2>5. ASSUME NEW x \in {Row, Gone}
        PROVE  \E t : IsFate(t, delivered[i],
                             IF x = Row THEN rows[i] + Cardinality(m) ELSE rows[i],
                             [Underway(i) EXCEPT ![p] = @ - Cardinality(m)])
    <3>1. PICK w \in [Pod -> Nat] : w = Underway(i)
      BY <2>2
    <3>2. m \in SUBSET At(tok, Saving(p)) /\ IsFate(tok, delivered[i], rows[i], w)
      BY <2>1, <2>3, <3>1
    <3>3. \E t : IsFate(t, delivered[i], IF x = Row THEN rows[i] + Cardinality(m) ELSE rows[i],
                        [w EXCEPT ![p] = @ - Cardinality(m)])
      BY <2>2, <3>2, FateMoves
    <3> QED
      BY <3>1, <3>3
  <2>6. [o \in Pod |-> saving'[o][i]] = [Underway(i) EXCEPT ![p] = @ - Cardinality(m)]
    <3>1. \A o \in Pod : saving'[o][i] = IF o = p THEN 0 ELSE saving[o][i]
      BY <1>4
    <3>2. Underway(i)[p] - Cardinality(m) = 0
      BY <2>2, <2>4
    <3>3. [Underway(i) EXCEPT ![p] = @ - Cardinality(m)]
            = [o \in Pod |-> IF o = p THEN 0 ELSE saving[o][i]]
      BY <3>2 DEF Underway
    <3> QED
      BY <3>1, <3>3
  <2>7. CASE i \in done
    BY <1>5, <2>4, <2>5, <2>6, <2>7 DEF HasFate
  <2>8. CASE i \notin done
    BY <1>5, <2>5, <2>6, <2>8, Places DEF HasFate
  <2> QED
    BY <2>7, <2>8
<1>7. MemoryIsDelivered'
  <2> SUFFICES ASSUME NEW o \in Pod, NEW i \in Entry, i \notin early
               PROVE  /\ counted'[o][i] <= delivered[i]
                      /\ pod'[o].at \in {"down", "started", "read"} => counted'[o][i] = 0
                      /\ pod'[o].at = "read" => pod'[o].found[i] <= delivered[i]
    BY <1>2 DEF MemoryIsDelivered
  <2>1. delivered[i] \in Nat
    BY <1>3, UnderwayType
  <2>2. CASE o = p
    BY <1>4, <2>1, <2>2
  <2>3. CASE o # p
    BY <1>4, <2>3 DEF TotalInv, MemoryIsDelivered
  <2> QED
    BY <2>2, <2>3
<1>8. OwnerIsUp'
  BY <1>2, <1>4, AiAssumption DEF TotalInv, Alone, OwnerIsUp, Nobody
<1>9. OthersAreDown' /\ IdleIsEmpty'
  BY <1>2, <1>4 DEF TotalInv, Alone, OthersAreDown, IdleIsEmpty
<1>10. p \in scene.pods
  <2>1. pod[p].at # "down"
    BY DEF Crash
  <2> QED
    BY <2>1 DEF TotalInv, Alone, OthersAreDown
<1>11. NothingIsMissing'
  <2> SUFFICES ASSUME NEW o \in Pod, NEW i \in Entry, i \notin lost', scene.pods = {o}
               PROVE  /\ rows'[i] + saving'[o][i] = delivered[i]
                      /\ pod'[o].at = "read" /\ i \notin early => pod'[o].found[i] = rows'[i]
                      /\ pod'[o].at \in {"seeding", "up"} /\ i \notin early =>
                            counted'[o][i] = delivered[i]
    BY <1>2 DEF NothingIsMissing
  <2>1. o = p /\ i \notin lost
    BY <1>5, <1>10
  <2>2. rows[i] + saving[p][i] = delivered[i] /\ rows[i] \in Nat /\ saving[p][i] \in Nat
    BY <1>3, <2>1, UnderwayType DEF TotalInv, Alone, NothingIsMissing
  <2>3. rows'[i] = delivered[i] /\ delivered[i] \in Nat
    BY <1>3, <1>5, <2>2, UnderwayType
  <2> QED
    BY <1>4, <2>1, <2>3
<1> QED
  BY <1>6, <1>7, <1>8, <1>9, <1>11 DEF TotalInv, Alone

(* A step of the start of a pod, which changes where it is and, at the end  *)
(* of the reading, what it has counted.                                     *)
Fits(p, to, now) ==
    \A j \in Entry \ early :
        /\ now[j] <= delivered[j]
        /\ to.at \in {"started", "read"} => now[j] = 0 /\ saving[p][j] = 0
        /\ to.at = "read" => to.found[j] = rows[j]
        /\ j \notin lost /\ scene.pods = {p} /\ to.at \in {"seeding", "up"} =>
              now[j] = delivered[j]

LEMMA TotalMoves ==
  ASSUME AnswerInv, TotalInv, NEW p \in Pod, NEW to, pod' = [pod EXCEPT ![p] = to],
         UNCHANGED <<saving, rows, delivered, early, lost, owner, scene>>,
         NEW now \in [Entry -> Nat], counted' = [counted EXCEPT ![p] = now],
         pod[p].at # "down" \/ p \in scene.pods,
         to.at # "down", Fits(p, to, now)
  PROVE  TotalInv'
<1>0. \A j \in Entry : j \notin early =>
        /\ now[j] <= delivered[j]
        /\ to.at \in {"started", "read"} => now[j] = 0 /\ saving[p][j] = 0
        /\ to.at = "read" => to.found[j] = rows[j]
        /\ j \notin lost /\ scene.pods = {p} /\ to.at \in {"seeding", "up"} =>
              now[j] = delivered[j]
  BY DEF Fits
<1>1. /\ BooksOK /\ counted \in [Pod -> [Entry -> Nat]] /\ pod = [o \in Pod |-> pod[o]]
  BY DEF AnswerInv, BooksOK
<1>2. /\ pod'[p] = to /\ \A o \in Pod : o # p => pod'[o] = pod[o]
      /\ counted'[p] = now /\ \A o \in Pod : o # p => counted'[o] = counted[o]
  <2>1. pod'[p] = to /\ \A o \in Pod : o # p => pod'[o] = pod[o]
    BY <1>1
  <2>2. counted'[p] = now /\ \A o \in Pod : o # p => counted'[o] = counted[o]
    BY <1>1
  <2> QED
    BY <2>1, <2>2
<1>3. Fates'
  BY DEF TotalInv, Fates, Underway
<1>4. MemoryIsDelivered'
  <2> SUFFICES ASSUME NEW o \in Pod, NEW j \in Entry, j \notin early
               PROVE  /\ counted'[o][j] <= delivered[j]
                      /\ pod'[o].at \in {"down", "started", "read"} => counted'[o][j] = 0
                      /\ pod'[o].at = "read" => pod'[o].found[j] <= delivered[j]
    BY DEF MemoryIsDelivered
  <2>1. CASE o = p
    <3>1. rows[j] <= delivered[j]
      BY <1>1, RowsAreDelivered DEF TotalInv
    <3> QED
      BY <1>0, <1>2, <2>1, <3>1
  <2>2. CASE o # p
    BY <1>2, <2>2 DEF TotalInv, MemoryIsDelivered
  <2> QED
    BY <2>1, <2>2
<1>5. OwnerIsUp'
  BY <1>2 DEF TotalInv, Alone, OwnerIsUp
<1>6. p \in scene.pods
  BY DEF TotalInv, Alone, OthersAreDown
<1>7. OthersAreDown'
  BY <1>2, <1>6 DEF TotalInv, Alone, OthersAreDown
<1>8. IdleIsEmpty'
  <2> SUFFICES ASSUME NEW o \in Pod, NEW j \in Entry,
                 pod'[o].at = "down" \/ (pod'[o].at \in {"started", "read"} /\ j \notin early)
               PROVE  saving[o][j] = 0
    BY DEF IdleIsEmpty
  <2>1. CASE o = p
    BY <1>0, <1>2, <2>1
  <2>2. CASE o # p
    BY <1>2, <2>2 DEF TotalInv, Alone, IdleIsEmpty
  <2> QED
    BY <2>1, <2>2
<1>9. NothingIsMissing'
  <2> SUFFICES ASSUME NEW o \in Pod, NEW j \in Entry, j \notin lost, scene.pods = {o}
               PROVE  /\ rows[j] + saving[o][j] = delivered[j]
                      /\ pod'[o].at = "read" /\ j \notin early => pod'[o].found[j] = rows[j]
                      /\ pod'[o].at \in {"seeding", "up"} /\ j \notin early =>
                            counted'[o][j] = delivered[j]
    BY DEF NothingIsMissing
  <2>1. o = p
    BY <1>6
  <2>2. rows[j] + saving[o][j] = delivered[j]
    BY DEF TotalInv, Alone, NothingIsMissing
  <2> QED
    BY <1>0, <1>2, <2>1, <2>2
<1> QED
  BY <1>3, <1>4, <1>5, <1>7, <1>8, <1>9 DEF TotalInv, Alone

(* The same for the migration of the vector store. *)
LEMMA TotalMigrates ==
  ASSUME TotalInv, BooksOK, NEW p \in Pod, NEW to, pod' = [pod EXCEPT ![p] = to],
         to.at = pod[p].at, to.found = pod[p].found,
         UNCHANGED <<counted, saving, rows, delivered, early, lost, owner, scene>>
  PROVE  TotalInv'
<1>1. \A o \in Pod : pod'[o].at = pod[o].at /\ pod'[o].found = pod[o].found
  BY DEF BooksOK
<1>2. Fates'
  BY DEF TotalInv, Fates, Underway
<1>3. MemoryIsDelivered'
  BY <1>1 DEF TotalInv, MemoryIsDelivered
<1>4. OwnerIsUp' /\ OthersAreDown'
  BY <1>1 DEF TotalInv, Alone, OwnerIsUp, OthersAreDown
<1>5. IdleIsEmpty' /\ NothingIsMissing'
  BY <1>1 DEF TotalInv, Alone, IdleIsEmpty, NothingIsMissing
<1> QED
  BY <1>2, <1>3, <1>4, <1>5 DEF TotalInv, Alone

LEMMA TotalStart ==
  ASSUME AnswerInv, TotalInv, NEW p \in Pod,
         StartPod(p) \/ Migrate(p) \/ ReadRows(p) \/ Rehydrate(p) \/ Listen(p)
  PROVE  TotalInv'
<1>1. UNCHANGED <<saving, rows, delivered, early, lost, owner, scene>>
  BY DEF StartPod, Migrate, ReadRows, Rehydrate, Listen, MayFail, bus, books, bounds
<1>2. /\ BooksOK /\ counted \in [Pod -> [Entry -> Nat]] /\ counted[p] \in [Entry -> Nat]
      /\ rows \in [Entry -> Nat]
      /\ pod = [o \in Pod |-> pod[o]]
      /\ pod[p] \in [at : {"down", "started", "read", "seeding", "up"},
                     ready : {"not yet", "yes", "failed"}, found : [Entry -> Nat]]
  BY DEF AnswerInv, BooksOK
<1>3. \A j \in Entry \ early :
        /\ counted[p][j] <= delivered[j]
        /\ pod[p].at \in {"down", "started", "read"} => counted[p][j] = 0
        /\ pod[p].at = "read" => pod[p].found[j] <= delivered[j]
  BY DEF TotalInv, MemoryIsDelivered
<1>4. \A j \in Entry : pod[p].at = "down" \/ (pod[p].at \in {"started", "read"} /\ j \notin early) =>
        saving[p][j] = 0
  BY DEF TotalInv, Alone, IdleIsEmpty
<1>5. \A j \in Entry \ lost : scene.pods = {p} =>
        /\ rows[j] + saving[p][j] = delivered[j]
        /\ pod[p].at = "read" /\ j \notin early => pod[p].found[j] = rows[j]
        /\ pod[p].at \in {"seeding", "up"} /\ j \notin early => counted[p][j] = delivered[j]
  BY DEF TotalInv, Alone, NothingIsMissing
<1>6. \A j \in Entry : /\ rows[j] \in Nat /\ delivered[j] \in Nat
                       /\ saving[p][j] \in Nat /\ counted[p][j] \in Nat
                       /\ pod[p].found[j] \in Nat
  BY <1>2, UnderwayType
<1>7. CASE StartPod(p)
  <2>1. PICK to : to = [Down EXCEPT !.at = "started"]
    OBVIOUS
  <2>2. to.at = "started"
    BY <2>1 DEF Down
  <2>3. /\ pod' = [pod EXCEPT ![p] = to] /\ counted' = [counted EXCEPT ![p] = counted[p]]
        /\ p \in scene.pods /\ pod[p].at = "down"
    BY <1>2, <1>7, <2>1 DEF StartPod, books
  <2>4. Fits(p, to, counted[p])
    BY <1>3, <1>4, <2>2, <2>3 DEF Fits
  <2> QED
    BY <1>1, <1>2, <2>2, <2>3, <2>4, TotalMoves
<1>8. CASE Migrate(p)
  <2>1. PICK r \in {"yes", "failed"} : pod' = [pod EXCEPT ![p].ready = r]
    BY <1>8 DEF Migrate
  <2>2. PICK to : to = [pod[p] EXCEPT !.ready = r]
    OBVIOUS
  <2>3. to.at = pod[p].at /\ to.found = pod[p].found
    BY <1>2, <2>2
  <2>4. pod' = [pod EXCEPT ![p] = to] /\ counted' = counted
    BY <1>2, <1>8, <2>1, <2>2 DEF Migrate, books
  <2> QED
    BY <1>1, <1>2, <2>3, <2>4, TotalMigrates
<1>9. CASE ReadRows(p)
  <2>1. PICK to : to = [pod[p] EXCEPT !.at = "read", !.found = rows]
    OBVIOUS
  <2>2. to.at = "read" /\ to.found = rows
    BY <1>2, <2>1
  <2>3. /\ pod' = [pod EXCEPT ![p] = to] /\ counted' = [counted EXCEPT ![p] = counted[p]]
        /\ pod[p].at = "started"
    BY <1>2, <1>9, <2>1 DEF ReadRows, books
  <2>4. Fits(p, to, counted[p])
    BY <1>3, <1>4, <2>2, <2>3 DEF Fits
  <2> QED
    BY <1>1, <1>2, <2>2, <2>3, <2>4, TotalMoves
<1>10. CASE Rehydrate(p)
  <2>1. PICK to : to = [pod[p] EXCEPT !.at = "seeding", !.found = Zero]
    OBVIOUS
  <2>2. PICK now : now = [j \in Entry |-> counted[p][j] + pod[p].found[j]]
    OBVIOUS
  <2>3. to.at = "seeding"
    BY <1>2, <2>1
  <2>4. now \in [Entry -> Nat] /\ \A j \in Entry : now[j] = counted[p][j] + pod[p].found[j]
    BY <1>6, <2>2
  <2>5. /\ pod' = [pod EXCEPT ![p] = to] /\ counted' = [counted EXCEPT ![p] = now]
        /\ pod[p].at = "read"
    BY <1>2, <1>10, <2>1, <2>2 DEF Rehydrate
  <2>6. \A j \in Entry : j \notin early => now[j] = pod[p].found[j] /\ now[j] <= delivered[j]
    BY <1>3, <1>6, <2>4, <2>5
  <2>7. \A j \in Entry : j \notin early /\ j \notin lost /\ scene.pods = {p} =>
           now[j] = delivered[j]
    BY <1>4, <1>5, <1>6, <2>5, <2>6
  <2>8. Fits(p, to, now)
    BY <2>3, <2>6, <2>7 DEF Fits
  <2> QED
    BY <1>1, <2>3, <2>4, <2>5, <2>8, TotalMoves
<1>11. CASE Listen(p)
  <2>1. PICK to : to = [pod[p] EXCEPT !.at = "up"]
    OBVIOUS
  <2>2. to.at = "up"
    BY <1>2, <2>1
  <2>3. /\ pod' = [pod EXCEPT ![p] = to] /\ counted' = [counted EXCEPT ![p] = counted[p]]
        /\ pod[p].at = "seeding"
    BY <1>2, <1>11, <2>1 DEF Listen, books
  <2>4. \A j \in Entry : j \notin early /\ j \notin lost /\ scene.pods = {p} =>
           counted[p][j] = delivered[j]
    BY <1>5, <2>3
  <2>5. Fits(p, to, counted[p])
    BY <1>3, <2>2, <2>4 DEF Fits
  <2> QED
    BY <1>1, <1>2, <2>2, <2>3, <2>5, TotalMoves
<1> QED
  BY <1>7, <1>8, <1>9, <1>10, <1>11

LEMMA SceneStays == [Next]_vars => scene' = scene
<1>1. MayFail => scene' = scene
  BY DEF MayFail
<1>2. Ledger \/ Consumer \/ ChangeBundle \/ UNCHANGED vars => scene' = scene
  BY DEF Ledger, NotifyAi, DropPost, PublishSagaReply, Consumer, Join, EachMessage, ReceiveEvent,
         CommitOffset, ChangeBundle, vars, bounds
<1>3. Stored \/ Asked => scene' = scene
  BY <1>1 DEF Stored, SaveRow, IndexJournalChunk, Asked, Ask, Search, Generate, bounds
<1>4. (\E p \in Pod : Start(p)) => scene' = scene
  BY <1>1 DEF Start, StartPod, Migrate, ReadRows, Rehydrate, Listen, Crash, bounds
<1>5. (\E p \in Pod : Seeder(p)) => scene' = scene
  BY <1>1 DEF Seeder, Seed, CountSource, FindKey, UpsertKey, bounds
<1> QED
  BY <1>2, <1>3, <1>4, <1>5 DEF Next

LEMMA TotalStep == AnswerInv /\ TotalInv /\ [Next]_vars => TotalInv'
<1> SUFFICES ASSUME AnswerInv, TotalInv, [Next]_vars PROVE TotalInv'
  OBVIOUS
<1>1. CASE Ledger
  BY <1>1, TotalStays DEF Ledger, NotifyAi, DropPost, PublishSagaReply, bus, books, numbers, bounds
<1>2. ASSUME NEW p \in Pod, EachMessage(p) PROVE TotalInv'
  <2>1. /\ owner = p /\ UNCHANGED <<pod, owner, scene>>
        /\ IF topic[pos + 1] = Reply THEN UNCHANGED books ELSE Ingest(p, topic[pos + 1])
    BY <1>2 DEF EachMessage, bounds
  <2>2. pod[p].at # "down"
    BY <2>1 DEF TotalInv, Alone, OwnerIsUp
  <2>3. CASE UNCHANGED books
    BY <2>1, <2>3, TotalStays DEF books, numbers
  <2>4. CASE topic[pos + 1] # Reply
    <3>1. topic[pos + 1] \in Entry \cup {Reply}
      BY <1>2 DEF EachMessage, AnswerInv, BusOK
    <3>2. PICK j \in Entry : j = topic[pos + 1]
      BY <2>4, <3>1
    <3> QED
      BY <2>1, <2>2, <2>4, <3>2, TotalIngest
  <2> QED
    BY <2>1, <2>3, <2>4
<1>3. ASSUME NEW p \in Pod, NEW j \in Entry, ReceiveEvent(p, j) PROVE TotalInv'
  <2>1. Ingest(p, j) /\ pod[p].at # "down" /\ UNCHANGED <<pod, owner, scene>>
    BY <1>3 DEF ReceiveEvent, Listening, bounds
  <2> QED
    BY <2>1, TotalIngest
<1>4. CASE CommitOffset
  BY <1>4, TotalStays DEF CommitOffset, books, numbers, bounds
<1>5. ASSUME NEW p \in Pod, NEW j \in Entry, IndexJournalChunk(p, j) PROVE TotalInv'
  BY <1>5, TotalStays DEF IndexJournalChunk, MayFail, bus, numbers, bounds
<1>6. CASE Asked
  BY <1>6, TotalStays DEF Asked, Ask, Search, Generate, MayFail, bus, books, numbers, bounds
<1>7. CASE ChangeBundle
  BY <1>7, TotalStays DEF ChangeBundle, bus, books, numbers, bounds
<1>8. ASSUME NEW p \in Pod, Seeder(p) PROVE TotalInv'
  BY <1>8, TotalStays
     DEF Seeder, Seed, CountSource, FindKey, UpsertKey, MayFail, bus, books, numbers, bounds
<1>9. ASSUME NEW p \in Pod, Start(p) PROVE TotalInv'
  BY <1>9, TotalStart, TotalCrash DEF Start
<1>10. CASE UNCHANGED vars
  BY <1>10, TotalStays DEF vars, bus, books, numbers, bounds
<1> QED
  BY <1>1, <1>2, <1>3, <1>4, <1>5, <1>6, <1>7, <1>8, <1>9, <1>10, TotalJoin, TotalSave
     DEF Next, Consumer, Stored

(* For any pods, entries and crashes: no pod has counted an entry more often *)
(* than the service was given it, and the totals of the only pod are just    *)
(* what it and the pods before it were given, except for entries whose row   *)
(* was not saved and those it was given before it had added its rows.        *)
THEOREM TotalsAreDelivered == Spec => []TotalIsDelivered
<1>1. Init => TotalInv
  <2> SUFFICES ASSUME Init PROVE TotalInv
    OBVIOUS
  <2>1. \A j \in Entry : Zero[j] = 0
    BY DEF Zero
  <2>2. Fates
    <3> SUFFICES ASSUME NEW j \in Entry PROVE HasFate(0, 0, Underway(j))
      BY <2>1 DEF Init, Fates
    <3>1. PICK tok : tok = [k \in 1 .. 0 |-> Row]
      OBVIOUS
    <3>2. tok \in [1 .. 0 -> Place] /\ \A x : At(tok, x) = {}
      BY <3>1 DEF At
    <3>3. \A p \in Pod : Underway(j)[p] = 0
      BY <2>1 DEF Init, Underway
    <3> QED
      BY <3>2, <3>3, FS_EmptySet DEF HasFate, IsFate
  <2>3. \A p \in Pod, j \in Entry :
          /\ pod[p].at = "down" /\ counted[p][j] = 0 /\ saving[p][j] = 0
          /\ rows[j] = 0 /\ delivered[j] = 0
    <3>1. \A p \in Pod : pod[p].at = "down" /\ counted[p] = Zero /\ saving[p] = Zero
      BY DEF Init, Down
    <3>2. rows = Zero /\ delivered = Zero
      BY DEF Init
    <3> QED
      BY <2>1, <3>1, <3>2
  <2>5. MemoryIsDelivered
    BY <2>3 DEF MemoryIsDelivered
  <2>4. Alone
    <3>1. OwnerIsUp
      BY AiAssumption DEF Init, OwnerIsUp, Nobody
    <3>2. OthersAreDown /\ IdleIsEmpty
      BY <2>1 DEF Init, OthersAreDown, IdleIsEmpty, Down
    <3>3. NothingIsMissing
      BY <2>3 DEF NothingIsMissing
    <3> QED
      BY <3>1, <3>2, <3>3 DEF Alone
  <2> QED
    BY <2>2, <2>4, <2>5 DEF TotalInv
<1>2. AnswerInv /\ TotalInv /\ [Next]_vars => TotalInv'
  BY TotalStep
<1>3. Spec => [](scene \in Scene)
  <2>1. Init => scene \in Scene
    BY DEF Init
  <2>2. scene \in Scene /\ [Next]_vars => (scene \in Scene)'
    <3> SUFFICES ASSUME [Next]_vars PROVE scene' = scene
      OBVIOUS
    <3> QED
      BY SceneStays
  <2> QED
    BY <2>1, <2>2, PTL DEF Spec
<1>4. TotalInv /\ scene \in Scene => TotalIsDelivered
  <2> SUFFICES ASSUME TotalInv, scene \in Scene, NEW p \in scene.pods, NEW j \in Entry \ early
               PROVE  /\ counted[p][j] <= delivered[j]
                      /\ scene.pods = {p} /\ pod[p].at \in {"seeding", "up"} /\ j \notin lost =>
                           counted[p][j] = delivered[j]
    BY DEF TotalIsDelivered
  <2>1. p \in Pod
    BY AiAssumption
  <2> QED
    BY <2>1 DEF TotalInv, MemoryIsDelivered, Alone, NothingIsMissing
<1> QED
  BY <1>1, <1>2, <1>3, <1>4, AnswerAlways, PTL DEF Spec
=============================================================================
