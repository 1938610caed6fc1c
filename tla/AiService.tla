------------------------------ MODULE AiService ------------------------------
(***************************************************************************)
(* The AI service (services/ai/src): what it counts of the ledger's        *)
(* journalEntryPosted events, its chunks in the vector store, the corpus   *)
(* of compliance texts it seeds there when it starts, and the answers it   *)
(* makes from both.                                                        *)
(*                                                                         *)
(* The topic ledger.events has one partition, so of several pods one gets  *)
(* its messages.  The onModuleInit hooks of the providers of one module    *)
(* run side by side: the vector store's migration, the rows that AiService *)
(* reads, the seeding that follows, and the Kafka consumer.  HTTP is       *)
(* served when all of them have ended.                                     *)
(*                                                                         *)
(* An entry stands for its event.  What memory holds of a tenant (total,   *)
(* count and history) is how often each of its entries was added; dates,   *)
(* texts and embeddings are left out.                                      *)
(***************************************************************************)
EXTENDS Integers, Sequences, FiniteSets, FiniteSetsExt

CONSTANTS Pod,
          Entry, TenantOf, Amount,  \* journal entries, their tenants and amounts
          SpikeLimit,  \* the total above which an insight is added
          MaxInsights, \* insights that are kept
          Bundles,     \* Bundles[n]: from source to the keys of its texts
          Nearest,     \* chunks that a search returns at most
          Query,       \* questions of users
          Scene,       \* what to look at together: pods, entries and events
          MaxJoins,    \* bound on joins of the consumer group
          MaxCrashes,  \* bound on pods that stop
          MaxFailures, \* bound on saves, embeddings and fetches that fail
          MaxFaults    \* bound on sends to Kafka that report an error

Sources == <<"ska_account", "compliance_rule", "tax_category">>

ASSUME AiAssumption ==
    /\ TenantOf \in [Entry -> STRING] /\ Amount \in [Entry -> Int]
    /\ {SpikeLimit, MaxInsights, Nearest, MaxJoins, MaxCrashes, MaxFailures, MaxFaults}
         \subseteq Nat
    /\ "reply" \notin Entry /\ "nobody" \notin Pod
    /\ \A s \in Scene : s.pods \subseteq Pod
    /\ Bundles \in Seq([{Sources[k] : k \in 1 .. 3} -> SUBSET STRING]) \ {<<>>}
    /\ \A n \in DOMAIN Bundles, k \in 1 .. 3 : IsFiniteSet(Bundles[n][Sources[k]])

VARIABLES topic, committed,  \* ledger.events and the group's offset, -1 for none
          owner, pos,        \* the pod that has the partition, its next offset
          posts,             \* posts of events to the service under way
          posted,            \* entries the ledger has told of
          pod,               \* pod[p]: how far its start is
          counted,           \* counted[p][j]: how often p has added j
          insights,          \* insights[p][t]: how many are kept
          saving,            \* saving[p][j]: rows on their way to the table
          rows,              \* rows[j]: the table ai_financial_events
          indexing, chunks,  \* journal chunks being embedded, and stored
          seed,              \* seed[p]: where the seeding of p is
          corpus,            \* corpus[s][k]: the chunks of key k of source s
          bundle,            \* which bundle compliance serves
          query,             \* query[q]: a question and where it is
          delivered,         \* history: how often ingestEvent ran for j
          early, lost,       \* history: entries added before the rows of the
                             \* pod were, and entries whose row was not saved
          overlapped,        \* history: two pods have seeded at once
          joins, crashes, failures, faults, scene

bus == <<topic, committed, owner, pos, posts, posted>>
books == <<counted, insights, saving, rows, indexing, chunks, delivered, early, lost>>
texts == <<seed, corpus, bundle, overlapped>>
bounds == <<joins, crashes, failures, faults, scene>>
vars == <<bus, pod, books, texts, query, bounds>>

-----------------------------------------------------------------------------
Tenants == {TenantOf[j] : j \in Entry}
Source == {Sources[k] : k \in 1 .. 3}
Keys(s) == UNION {Bundles[n][s] : n \in DOMAIN Bundles}
Zero == [j \in Entry |-> 0]
Nobody == "nobody"

\* ready is that of the vector store.
Down == [at |-> "down", ready |-> "not yet", found |-> Zero]
\* bundle is the one fetched, left the keys of the source still to seed,
\* found the copies of the key that were there; whole is FALSE from the
\* first text that was not stored.
Idle == [at |-> "idle", bundle |-> 0, source |-> 0, left |-> {}, found |-> 0, whole |-> TRUE]

Init ==
    /\ topic = <<>> /\ committed = -1 /\ owner = Nobody /\ pos = 0
    /\ posts = {} /\ posted = {}
    /\ pod = [p \in Pod |-> Down]
    /\ counted = [p \in Pod |-> Zero]
    /\ insights = [p \in Pod |-> [t \in Tenants |-> 0]]
    /\ saving = [p \in Pod |-> Zero] /\ rows = Zero
    /\ indexing = [p \in Pod |-> {}] /\ chunks = {}
    /\ seed = [p \in Pod |-> Idle]
    /\ corpus = [s \in Source |-> [k \in Keys(s) |-> 0]]
    /\ bundle = 1
    /\ query = [q \in Query |-> [at |-> "new"]]
    /\ delivered = Zero /\ early = {} /\ lost = {} /\ overlapped = FALSE
    /\ joins = 0 /\ crashes = 0 /\ failures = 0 /\ faults = 0
    /\ scene \in Scene

Listening(p) == pod[p].at = "up"
Total(c, t) == MapThenSumSet(LAMBDA j : c[j] * Amount[j], {j \in Entry : TenantOf[j] = t})
May(event) == event \in scene.events
MayFail == May("fail") /\ failures < MaxFailures /\ failures' = failures + 1 /\ UNCHANGED <<joins, crashes, faults, scene>>

-----------------------------------------------------------------------------
(* notifyAi of the ledger service: Kafka, and a post when that throws, which *)
(* it may do for a message that was appended.  The topic has other messages. *)
NotifyAi(j) ==
    /\ j \in scene.entries \ posted
    /\ posted' = posted \cup {j}
    /\ \/ topic' = Append(topic, j) /\ UNCHANGED <<posts, faults>>
       \/ /\ May("fault") /\ faults < MaxFaults /\ faults' = faults + 1
          /\ posts' = posts \cup {j}
          /\ topic' \in {topic, Append(topic, j)}
    /\ UNCHANGED <<committed, owner, pos, pod, books, texts, query,
                   joins, crashes, failures, scene>>

\* publishSagaReply: an answer for operations goes to the same topic.
Reply == "reply"
PublishSagaReply ==
    /\ May("reply") /\ \A k \in DOMAIN topic : topic[k] # Reply
    /\ topic' = Append(topic, Reply)
    /\ UNCHANGED <<committed, owner, pos, posts, posted, pod, books, texts, query, bounds>>

\* The list of insights is cut at its bound.
AddInsight(p, t) == [insights EXCEPT ![p][t] = IF @ < MaxInsights THEN @ + 1 ELSE @]

\* ingestEvent: the event is added at once; its row is saved and its text
\* embedded meanwhile.
Ingest(p, j) ==
    LET t == TenantOf[j]
        now == [counted[p] EXCEPT ![j] = @ + 1]
    IN  /\ counted' = [counted EXCEPT ![p] = now]
        /\ saving' = [saving EXCEPT ![p][j] = @ + 1]
        /\ indexing' = [indexing EXCEPT ![p] = IF pod[p].ready = "yes" THEN @ \cup {j} ELSE @]
        /\ insights' = IF Total(now, t) > SpikeLimit THEN AddInsight(p, t) ELSE insights
        /\ delivered' = [delivered EXCEPT ![j] = @ + 1]
        /\ early' = IF pod[p].at \in {"started", "read"} THEN early \cup {j} ELSE early
        /\ UNCHANGED <<rows, chunks, lost>>

\* A pod joins the group, also when another has the partition; without an
\* offset of the group it begins at the end (fromBeginning: false).
Join(p) ==
    /\ pod[p].at # "down" /\ owner # p
    /\ May("events") /\ joins < MaxJoins
    /\ owner' = p
    /\ pos' = IF committed = -1 THEN Len(topic) ELSE committed
    /\ joins' = joins + 1
    /\ UNCHANGED <<topic, committed, posts, posted, pod, books, texts, query,
                   crashes, failures, faults, scene>>

\* eachMessage of the consumer, which offers every message and skips replies.
EachMessage(p) ==
    /\ owner = p /\ pos < Len(topic)
    /\ pos' = pos + 1
    /\ IF topic[pos + 1] = Reply THEN UNCHANGED books ELSE Ingest(p, topic[pos + 1])
    /\ UNCHANGED <<topic, committed, owner, posts, posted, pod, texts, query, bounds>>

CommitOffset ==
    /\ owner # Nobody /\ pos # committed
    /\ committed' = pos
    /\ UNCHANGED <<topic, owner, pos, posts, posted, pod, books, texts, query, bounds>>

\* POST /ai/events
ReceiveEvent(p, j) ==
    /\ j \in posts /\ Listening(p)
    /\ posts' = posts \ {j}
    /\ Ingest(p, j)
    /\ UNCHANGED <<topic, committed, owner, pos, posted, pod, texts, query, bounds>>

\* No pod answers in time, and the ledger only logs it.
DropPost(j) ==
    /\ j \in posts
    /\ posts' = posts \ {j}
    /\ UNCHANGED <<topic, committed, owner, pos, posted, pod, books, texts, query, bounds>>

\* Mutant: a row that is saved again when the save reports an error after it
\* was committed.
SaveRowAgain(p, j) ==
    /\ saving[p][j] > 0
    /\ \/ saving' = [saving EXCEPT ![p][j] = @ - 1] /\ UNCHANGED bounds
       \/ MayFail /\ UNCHANGED saving
    /\ rows' = [rows EXCEPT ![j] = @ + 1]
    /\ UNCHANGED <<bus, pod, counted, insights, indexing, chunks, delivered, early, lost,
                   texts, query>>

\* The two things ingestEvent has left behind end, each by itself; an error
\* is logged.
SaveRow(p, j) ==
    /\ saving[p][j] > 0
    /\ saving' = [saving EXCEPT ![p][j] = @ - 1]
    /\ \/ rows' = [rows EXCEPT ![j] = @ + 1] /\ UNCHANGED <<lost, bounds>>
       \/ MayFail /\ lost' = lost \cup {j} /\ UNCHANGED rows
    /\ UNCHANGED <<bus, pod, counted, insights, indexing, chunks, delivered, early, texts, query>>

IndexJournalChunk(p, j) ==
    /\ j \in indexing[p]
    /\ indexing' = [indexing EXCEPT ![p] = @ \ {j}]
    /\ \/ chunks' = chunks \cup {j} /\ UNCHANGED bounds
       \/ MayFail /\ UNCHANGED chunks
    /\ UNCHANGED <<bus, pod, counted, insights, saving, rows, delivered, early, lost, texts, query>>

-----------------------------------------------------------------------------
(* The start of a pod.                                                      *)
StartPod(p) ==
    /\ p \in scene.pods /\ pod[p].at = "down"
    /\ pod' = [pod EXCEPT ![p] = [Down EXCEPT !.at = "started"]]
    /\ UNCHANGED <<bus, books, texts, query, bounds>>

\* onModuleInit of the vector store; a migration that fails leaves it not
\* ready for good.
Migrate(p) ==
    /\ pod[p].at # "down" /\ pod[p].ready = "not yet"
    /\ \/ May("store") /\ pod' = [pod EXCEPT ![p].ready = "yes"] /\ UNCHANGED bounds
       \/ pod' = [pod EXCEPT ![p].ready = "failed"] /\ IF May("store") THEN MayFail ELSE UNCHANGED bounds
    /\ UNCHANGED <<bus, books, texts, query>>

\* onModuleInit of AiService reads the rows, and adds them when it has them.
ReadRows(p) ==
    /\ pod[p].at = "started"
    /\ pod' = [pod EXCEPT ![p].at = "read", ![p].found = rows]
    /\ UNCHANGED <<bus, books, texts, query, bounds>>

Rehydrate(p) ==
    /\ pod[p].at = "read"
    /\ counted' = [counted EXCEPT ![p] = [j \in Entry |-> @[j] + pod[p].found[j]]]
    /\ pod' = [pod EXCEPT ![p].at = "seeding", ![p].found = Zero]
    /\ UNCHANGED <<bus, insights, saving, rows, indexing, chunks, delivered, early, lost,
                   texts, query, bounds>>

\* Mutant: a source that has any chunks is passed over.
CountAny(s) == IF \E k \in Keys(s) : corpus[s][k] > 0 THEN Cardinality(Keys(s)) ELSE 0

\* What the start of a source needs: how many shared chunks it has already.
Chunks(s) == UNION {{k} \X (1 .. corpus[s][k]) : k \in Keys(s)}
CountShared(s) == Cardinality(Chunks(s))

Seeding(p) == seed[p].at \in {"count", "find", "embed"}

\* seed(): nothing when the store is not ready or compliance is not there.
SeedEnds(p) == seed' = [seed EXCEPT ![p].at = "end", ![p].whole = FALSE]

Seed(p) ==
    /\ pod[p].at = "seeding" /\ seed[p].at = "idle"
    /\ \/ /\ pod[p].ready = "yes" /\ May("seed")
          /\ seed' = [seed EXCEPT ![p] = [Idle EXCEPT !.at = "count", !.bundle = bundle, !.source = 1]]
          /\ UNCHANGED bounds
       \/ pod[p].ready # "yes" /\ SeedEnds(p) /\ UNCHANGED bounds
       \/ pod[p].ready = "yes" /\ SeedEnds(p) /\ IF May("seed") THEN MayFail ELSE UNCHANGED bounds
    /\ overlapped' = (overlapped \/ \E o \in Pod \ {p} : Seeding(o))
    /\ UNCHANGED <<bus, pod, books, corpus, bundle, query>>

NextSource(p) ==
    seed' = [seed EXCEPT ![p] =
        IF seed[p].source = Len(Sources) THEN [seed[p] EXCEPT !.at = "end", !.left = {}]
        ELSE [seed[p] EXCEPT !.at = "count", !.source = seed[p].source + 1, !.left = {}]]

\* seedAccounts, seedRules, seedTaxCategories: a source that has as many
\* chunks as the bundle has texts is passed over.
CountSource(p) ==
    LET s == Sources[seed[p].source]  all == Bundles[seed[p].bundle][s]
    IN  /\ seed[p].at = "count"
        /\ \/ /\ IF CountShared(s) >= Cardinality(all) THEN NextSource(p)
                 ELSE seed' = [seed EXCEPT ![p].at = "find", ![p].left = all]
              /\ UNCHANGED bounds
           \/ MayFail /\ SeedEnds(p)
        /\ UNCHANGED <<bus, pod, books, corpus, bundle, overlapped, query>>

\* The bundle's texts are stored in one order.
First(left) == CHOOSE k \in left : TRUE

\* upsertShared: the id that the key has, an embedding, and the upsert.
FindKey(p) ==
    LET s == Sources[seed[p].source] IN
    /\ seed[p].at = "find"
    /\ IF seed[p].left = {} THEN NextSource(p)
       ELSE seed' = [seed EXCEPT ![p].at = "embed",
                         ![p].found = corpus[s][First(seed[p].left)]]
    /\ UNCHANGED <<bus, pod, books, corpus, bundle, overlapped, query, bounds>>

\* Mutant: every text gets a new id.
UpsertKeyAnew(p) ==
    LET s == Sources[seed[p].source]
        k == First(seed[p].left)
    IN  /\ seed[p].at = "embed"
        /\ corpus' = [corpus EXCEPT ![s][k] = @ + 1]
        /\ seed' = [seed EXCEPT ![p].at = "find", ![p].left = @ \ {k}]
        /\ UNCHANGED <<bus, pod, books, bundle, overlapped, query, bounds>>

UpsertKey(p) ==
    LET s == Sources[seed[p].source]
        k == First(seed[p].left)
        next == [seed[p] EXCEPT !.at = "find", !.left = @ \ {k}, !.found = 0]
    IN  /\ seed[p].at = "embed"
        /\ \/ /\ corpus' = [corpus EXCEPT ![s][k] = IF seed[p].found = 0 THEN @ + 1 ELSE @]
              /\ seed' = [seed EXCEPT ![p] = next]
              /\ UNCHANGED bounds
           \/ /\ MayFail
              /\ seed' = [seed EXCEPT ![p] = [next EXCEPT !.whole = FALSE]]
              /\ UNCHANGED corpus
        /\ UNCHANGED <<bus, pod, books, bundle, overlapped, query>>

\* All hooks have ended, and the pod listens.
Listen(p) ==
    /\ pod[p].at = "seeding" /\ pod[p].ready # "not yet" /\ seed[p].at = "end"
    /\ pod' = [pod EXCEPT ![p].at = "up"]
    /\ UNCHANGED <<bus, books, texts, query, bounds>>

\* A pod stops, with some of its saves done.
Crash(p) ==
    /\ pod[p].at # "down"
    /\ May("crash") /\ crashes < MaxCrashes /\ crashes' = crashes + 1
    /\ \E done \in SUBSET {j \in Entry : saving[p][j] > 0} :
         /\ rows' = [j \in Entry |-> rows[j] + IF j \in done THEN saving[p][j] ELSE 0]
         /\ lost' = lost \cup {j \in Entry \ done : saving[p][j] > 0}
    /\ owner' = IF owner = p THEN Nobody ELSE owner
    /\ pod' = [pod EXCEPT ![p] = Down]
    /\ counted' = [counted EXCEPT ![p] = Zero]
    /\ insights' = [insights EXCEPT ![p] = [t \in Tenants |-> 0]]
    /\ saving' = [saving EXCEPT ![p] = Zero]
    /\ indexing' = [indexing EXCEPT ![p] = {}]
    /\ seed' = [seed EXCEPT ![p] = Idle]
    /\ query' = [q \in Query |-> IF query[q].at \in {"embed", "generate"} /\ query[q].pod = p
                                 THEN [at |-> "failed"] ELSE query[q]]
    /\ UNCHANGED <<topic, committed, pos, posts, posted, chunks, delivered, early,
                   corpus, bundle, overlapped, joins, failures, faults, scene>>

\* A deployment of compliance with another bundle.
ChangeBundle ==
    /\ May("law") /\ bundle < Len(Bundles)
    /\ bundle' = bundle + 1
    /\ UNCHANGED <<bus, pod, books, seed, corpus, overlapped, query, bounds>>

-----------------------------------------------------------------------------
(* A question: answerWithRag takes its summary first, then searches, then   *)
(* asks the model.                                                          *)
Summary(p, t) == [j \in Entry |-> IF TenantOf[j] = t THEN counted[p][j] ELSE 0]

Ask(q, p, t) ==
    /\ May("ask") /\ query[q].at = "new" /\ Listening(p)
    /\ query' = [query EXCEPT ![q] =
           [at |-> IF pod[p].ready = "yes" THEN "embed" ELSE "generate", pod |-> p, tenant |-> t,
            summary |-> Summary(p, t), chunks |-> {}]]
    /\ UNCHANGED <<bus, pod, books, texts, bounds>>

Shared == {sk \in Source \X UNION {Keys(s) : s \in Source} :
              sk[2] \in Keys(sk[1]) /\ corpus[sk[1]][sk[2]] > 0}
\* Mutant: the search leaves the tenant out.
VisibleToAll(t) == [shared : {TRUE}, about : Shared] \cup [shared : {FALSE}, about : chunks]

\* similaritySearch: the shared chunks and those of the tenant.
Visible(t) == [shared : {TRUE}, about : Shared]
                \cup [shared : {FALSE}, about : {j \in chunks : TenantOf[j] = t}]

Search(q) ==
    /\ query[q].at = "embed"
    /\ \/ /\ \E found \in SUBSET Visible(query[q].tenant) :
               /\ Cardinality(found) = IF Cardinality(Visible(query[q].tenant)) < Nearest
                                       THEN Cardinality(Visible(query[q].tenant)) ELSE Nearest
               /\ query' = [query EXCEPT ![q].at = "generate", ![q].chunks = found]
          /\ UNCHANGED bounds
       \/ MayFail /\ query' = [query EXCEPT ![q].at = "generate"]
    /\ UNCHANGED <<bus, pod, books, texts>>

\* callGemini: its text, or the summary when there is no key or no answer;
\* the sources of the answer are the chunks either way.
Generate(q) ==
    /\ query[q].at = "generate"
    /\ query' = [query EXCEPT ![q].at = "answered"]
    /\ UNCHANGED <<bus, pod, books, texts, bounds>>

-----------------------------------------------------------------------------
Ledger ==
    \/ \E j \in Entry : NotifyAi(j) \/ DropPost(j)
    \/ PublishSagaReply

Consumer ==
    \/ \E p \in Pod : Join(p) \/ EachMessage(p) \/ (\E j \in Entry : ReceiveEvent(p, j))
    \/ CommitOffset

Stored == \E p \in Pod, j \in Entry : SaveRow(p, j) \/ IndexJournalChunk(p, j)

Start(p) ==
    StartPod(p) \/ Migrate(p) \/ ReadRows(p) \/ Rehydrate(p) \/ Listen(p) \/ Crash(p)

Seeder(p) == Seed(p) \/ CountSource(p) \/ FindKey(p) \/ UpsertKey(p)

Asked ==
    \E q \in Query :
        Search(q) \/ Generate(q) \/ (\E p \in Pod, t \in Tenants : Ask(q, p, t))

Next ==
    \/ Ledger \/ Consumer \/ Stored \/ Asked \/ ChangeBundle
    \/ \E p \in Pod : Start(p) \/ Seeder(p)

Spec == Init /\ [][Next]_vars

-----------------------------------------------------------------------------
(* Properties.                                                              *)

\* No pod adds an entry more often than ingestEvent was called with it, and
\* when there is one pod its totals are just the events that it and the pods
\* before it were given, whatever stopped in between: what was added is in
\* the rows, and what is in the rows is added when a pod starts, once.
\* Except for entries whose row was not saved, and for those that a pod is
\* given before it has added its rows, which may be counted twice.
TotalIsDelivered ==
    \A p \in scene.pods, j \in Entry \ early :
        /\ counted[p][j] <= delivered[j]
        /\ scene.pods = {p} /\ pod[p].at \in {"seeding", "up"} /\ j \notin lost =>
             counted[p][j] = delivered[j]

\* "Restarting the service never duplicates the corpus"
\* (compliance-corpus.seeder.ts:22): no key has two chunks, also after
\* seedings that stopped half way or failed for some keys and were repeated,
\* unless two pods have seeded at the same time.
CorpusIsOnce ==
    overlapped \/ \A s \in Source : \A k \in Keys(s) : corpus[s][k] <= 1

\* A seeding that has ended and stored every text it tried has left the
\* vector store with a chunk for every text of the bundle, also when it has
\* passed over a source because of the number of its chunks: as long as the
\* bundle stays the same and no two pods have seeded at once.
CorpusIsWhole ==
    \A p \in Pod :
        seed[p].at = "end" /\ seed[p].whole /\ bundle = 1 /\ ~overlapped =>
            \A s \in Source : \A k \in Bundles[1][s] : corpus[s][k] > 0

\* "Tenant isolation is strict" (ai.service.ts:216): the chunks and the
\* summary an answer is made from are of shared texts and of entries of the
\* tenant who asks, entries the service was given, though the chunks are read
\* after the summary and by another way.
AnswerIsOwn ==
    \A q \in Query :
        query[q].at = "answered" =>
            LET read == {c.about : c \in {c \in query[q].chunks : ~c.shared}}
                        \cup {j \in Entry : query[q].summary[j] > 0}
            IN  \A j \in read : TenantOf[j] = query[q].tenant /\ delivered[j] > 0

=============================================================================
