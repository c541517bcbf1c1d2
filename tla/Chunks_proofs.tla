----------------------------- MODULE Chunks_proofs -----------------------------
(***************************************************************************)
(* No request for a chunk is swallowed, for any world, any number of       *)
(* clients and of jobs.                                                    *)
(***************************************************************************)
EXTENDS Chunks, TLAPS, FiniteSetTheorems, SequenceTheorems

(* A client that has left sends nothing any more, and one that is there    *)
(* is somewhere.                                                           *)
Gone ==
    \A k \in Clients : /\ players[k] = Away => up[k] = <<>>
                       /\ players[k] # Away => place[k] # Away

IInv == TypeOK /\ Gone /\ NothingSwallowed

(* Messages about the chunks of a set, put into a sequence.                *)
LEMMA SeqOfSet ==
    ASSUME NEW S, IsFiniteSet(S)
    PROVE  SetToSeq(S) \in Seq(S)
<1> DEFINE n == Cardinality(S)
<1>1. n \in Nat /\ Bijection(1 .. n, S) # {}
  BY FS_CardinalityType DEF ExistsBijection
<1> HIDE DEF n
<1>2. PICK f : f \in Bijection(1 .. n, S)
  BY <1>1
<1>3. f \in [1 .. n -> S] /\ IsInjective(f)
  BY <1>2 DEF Bijection, Injection
<1>4. SetToSeq(S) \in [1 .. n -> S]
  BY <1>3 DEF SetToSeq, n
<1> QED
  BY <1>1, <1>4

LEMMA FiniteRange ==
    ASSUME NEW S, IsFiniteSet(S), NEW f, DOMAIN f = S, f = [c \in S |-> f[c]]
    PROVE  IsFiniteSet({f[c] : c \in S})
<1> DEFINE T == {f[c] : c \in S}
<1>1. f \in [S -> T] /\ \A t \in T : \E c \in S : f[c] = t
  OBVIOUS
<1>2. f \in Surjection(S, T)
  BY <1>1 DEF Surjection
<1> QED
  BY <1>2, FS_Surjection

LEMMA Answers ==
    ASSUME NEW S \in SUBSET Chunks
    PROVE  SetToSeq({[key |-> c, ok |-> TRUE] : c \in S}) \in Seq(ToClient)
<1> DEFINE f == [c \in S |-> [key |-> c, ok |-> TRUE]]
           T == {[key |-> c, ok |-> TRUE] : c \in S}
<1>1. \A c \in S : f[c] = [key |-> c, ok |-> TRUE] /\ f[c] \in ToClient
  BY DEF ToClient
<1>2. DOMAIN f = S /\ f = [c \in S |-> f[c]]
  OBVIOUS
<1> HIDE DEF f
<1>3. IsFiniteSet(S)
  BY FS_Subset, ChunksAssumption
<1>4. IsFiniteSet({f[c] : c \in S})
  BY <1>2, <1>3, FiniteRange
<1>5. T = {f[c] : c \in S} /\ T \subseteq ToClient
  BY <1>1
<1> HIDE DEF T
<1>6. SetToSeq(T) \in Seq(T)
  BY <1>4, <1>5, SeqOfSet
<1> QED
  BY <1>5, <1>6 DEF T

LEMMA Requests ==
    ASSUME NEW S \in SUBSET Chunks
    PROVE  SetToSeq({[what |-> "request", key |-> c] : c \in S}) \in Seq(ToServer)
<1> DEFINE f == [c \in S |-> [what |-> "request", key |-> c]]
           T == {[what |-> "request", key |-> c] : c \in S}
<1>1. \A c \in S : f[c] = [what |-> "request", key |-> c] /\ f[c] \in ToServer
  BY DEF ToServer
<1>2. DOMAIN f = S /\ f = [c \in S |-> f[c]]
  OBVIOUS
<1> HIDE DEF f
<1>3. IsFiniteSet(S)
  BY FS_Subset, ChunksAssumption
<1>4. IsFiniteSet({f[c] : c \in S})
  BY <1>2, <1>3, FiniteRange
<1>5. T = {f[c] : c \in S} /\ T \subseteq ToServer
  BY <1>1
<1> HIDE DEF T
<1>6. SetToSeq(T) \in Seq(T)
  BY <1>4, <1>5, SeqOfSet
<1> QED
  BY <1>5, <1>6 DEF T

LEMMA RemoveTyped ==
    ASSUME NEW S, NEW s \in Seq(S), NEW i \in DOMAIN s
    PROVE  RemoveAt(s, i) \in Seq(S)
<1>1. Len(s) \in Nat /\ i \in 1 .. Len(s)
  OBVIOUS
<1>2. SubSeq(s, 1, i - 1) \in Seq(S) /\ SubSeq(s, i + 1, Len(s)) \in Seq(S)
  BY <1>1
<1> QED
  BY <1>2 DEF RemoveAt

LEMMA Marked ==
    ASSUME NEW s \in Seq(Job)
    PROVE  Unlisted(s) \in Seq(Job) /\ Cancelled(s) \in Seq(Job)
<1>1. Len(s) \in Nat /\ DOMAIN s = 1 .. Len(s) /\ \A i \in 1 .. Len(s) : s[i] \in Job
  OBVIOUS
<1>2. ASSUME NEW i \in 1 .. Len(s)
      PROVE  /\ [s[i] EXCEPT !.listed = FALSE] \in Job
             /\ [s[i] EXCEPT !.cancel = @ \/ s[i].listed, !.listed = FALSE] \in Job
  BY <1>1 DEF Job
<1>3. Unlisted(s) \in [1 .. Len(s) -> Job] /\ Cancelled(s) \in [1 .. Len(s) -> Job]
  BY <1>1, <1>2 DEF Unlisted, Cancelled
<1> QED
  BY <1>1, <1>3

LEMMA Told ==
    ASSUME TypeOK, NEW keys \in SUBSET Chunks
    PROVE  Tell(down, keys) \in [Clients -> Seq(ToClient)]
<1>1. ASSUME NEW k \in Clients
      PROVE  down[k] \o SetToSeq({[key |-> c, ok |-> TRUE] : c \in {d \in keys : InView(k, d)}})
                 \in Seq(ToClient)
  <2> DEFINE near == {d \in keys : InView(k, d)}
  <2>1. near \in SUBSET Chunks
    OBVIOUS
  <2> HIDE DEF near
  <2>2. SetToSeq({[key |-> c, ok |-> TRUE] : c \in near}) \in Seq(ToClient)
    BY <2>1, Answers
  <2>3. down[k] \o SetToSeq({[key |-> c, ok |-> TRUE] : c \in near}) \in Seq(ToClient)
    BY <2>2 DEF TypeOK
  <2> QED
    BY <2>3 DEF near
<1> QED
  BY <1>1 DEF Tell
-----------------------------------------------------------------------------
LEMMA FewerLeft ==
    ASSUME scene \in Scene
    PROVE  /\ scene.moves > 0 => [scene EXCEPT !.moves = @ - 1] \in Scene
           /\ scene.reloads > 0 => [scene EXCEPT !.reloads = @ - 1] \in Scene
<1>1. scene.moves \in Nat /\ scene.reloads \in Nat
  BY DEF Scene
<1>2. scene.moves > 0 => scene.moves - 1 \in Nat
  BY <1>1
<1>3. scene.reloads > 0 => scene.reloads - 1 \in Nat
  BY <1>1
<1> QED
  BY <1>2, <1>3 DEF Scene

LEMMA InitTyped == Init => IInv
<1> SUFFICES ASSUME Init PROVE IInv
  OBVIOUS
<1>1. scene \in Scene /\ scene.start \in [Clients -> Places \cup {Away}]
  BY ChunksAssumption DEF Init, Scene
<1>2. 0 \in 0 .. Stride * Stride - 1
  BY ChunksAssumption
<1>3. TypeOK
  BY <1>1, <1>2 DEF Init, TypeOK
<1>4. Gone /\ NothingSwallowed
  BY DEF Init, Gone, NothingSwallowed
<1> QED
  BY <1>3, <1>4 DEF IInv
-----------------------------------------------------------------------------
(* What the messages and the clients change keeps NothingSwallowed: it is  *)
(* about the generator only.                                               *)
LEMMA GeneratorKept ==
    ASSUME NothingSwallowed, UNCHANGED generator
    PROVE  NothingSwallowed'
  BY DEF NothingSwallowed, generator

LEMMA MessageKeeps ==
    ASSUME IInv, NEW k \in Clients, HandleMessage(k)
    PROVE  IInv'
<1> USE DEF IInv
<1>1. up[k] \in Seq(ToServer) /\ up[k] # <<>> /\ up[k][1] \in ToServer /\ Tail(up[k]) \in Seq(ToServer)
  BY DEF HandleMessage, HandleRequest, HandlePhysics, TypeOK
<1>2. up' = [up EXCEPT ![k] = Tail(@)]
  BY DEF HandleMessage, HandleRequest, HandlePhysics
<1>3. up' \in [Clients -> Seq(ToServer)]
  BY <1>1, <1>2 DEF TypeOK
<1>4. players[k] # Away
  BY <1>1 DEF Gone
<1>5. UNCHANGED generator
  BY DEF HandleMessage, HandleRequest, HandlePhysics
<1>6. CASE HandleRequest(k)
  <2>1. up[k][1].key \in Chunks
    BY <1>1, <1>6 DEF HandleRequest, ToServer
  <2>2. down' \in [Clients -> Seq(ToClient)]
    <3> DEFINE m == [key |-> up[k][1].key, ok |-> TRUE]
    <3>1. m \in ToClient
      BY <2>1 DEF ToClient
    <3>2. down' = [down EXCEPT ![k] = Append(@, m)] \/ down' = down
      BY <1>6 DEF HandleRequest
    <3> HIDE DEF m
    <3>3. down \in [Clients -> Seq(ToClient)]
      BY DEF TypeOK
    <3>4. Append(down[k], m) \in Seq(ToClient)
      BY <3>1, <3>3
    <3> QED
      BY <3>2, <3>3, <3>4
  <2>3. requested' \in Seq(Request)
    <3> DEFINE m == [asker |-> k, key |-> up[k][1].key]
    <3>1. m \in Request
      BY <2>1 DEF Request
    <3>2. requested' = Append(requested, m) \/ requested' = requested
      BY <1>6 DEF HandleRequest
    <3> HIDE DEF m
    <3>3. requested \in Seq(Request)
      BY DEF TypeOK
    <3> QED
      BY <3>1, <3>2, <3>3
  <2>4. TypeOK'
    BY <1>3, <1>6, <2>2, <2>3 DEF HandleRequest, TypeOK, generator, client
  <2>5. Gone'
    BY <1>2, <1>3, <1>4, <1>6 DEF HandleRequest, Gone, TypeOK, client
  <2> QED
    BY <1>5, <2>4, <2>5, GeneratorKept
<1>7. CASE HandlePhysics(k)
  <2>1. up[k][1].at \in Places
    BY <1>1, <1>7 DEF HandlePhysics, ToServer
  <2>2. players' = [players EXCEPT ![k] = up[k][1].at]
    BY <1>7 DEF HandlePhysics
  <2>3. TypeOK'
    BY <1>3, <1>7, <2>1, <2>2 DEF HandlePhysics, TypeOK, generator, client
  <2>4. Gone'
    BY <1>2, <1>3, <1>4, <1>7, <2>1, <2>2, ChunksAssumption DEF HandlePhysics, Gone, TypeOK, client
  <2> QED
    BY <1>5, <2>3, <2>4, GeneratorKept
<1> QED
  BY <1>6, <1>7 DEF HandleMessage

LEMMA EndMessagesKeeps ==
    ASSUME IInv, EndMessages
    PROVE  IInv'
<1>1. TypeOK' /\ Gone'
  BY DEF IInv, EndMessages, TypeOK, Gone, generator, client
<1> QED
  BY <1>1, GeneratorKept DEF IInv, EndMessages
-----------------------------------------------------------------------------
LEMMA ReceiveKeeps ==
    ASSUME IInv, ReceiveChunk
    PROVE  IInv'
<1> USE DEF IInv
<1> DEFINE r == Head(results)
<1>1. /\ results \in Seq(Result) /\ results # <<>> /\ r \in Result /\ Tail(results) \in Seq(Result)
      /\ r.key \in Chunks /\ r.version \in Nat /\ r.asker \in Clients \cup {Away}
  <2>1. results \in Seq(Result) /\ results # <<>>
    BY DEF ReceiveChunk, TypeOK
  <2>2. r \in Result /\ Tail(results) \in Seq(Result)
    BY <2>1
  <2> QED
    BY <2>1, <2>2 DEF Result
<1>2. /\ results' = Tail(results)
      /\ pending' = pending \ {r.key}
      /\ jobs' = [jobs EXCEPT ![r.key] = Unlisted(@)]
  BY DEF ReceiveChunk
<1>3. jobs' \in [Chunks -> Seq(Job)]
  BY <1>1, <1>2, Marked DEF TypeOK
<1>4. down' \in [Clients -> Seq(ToClient)]
  <2>1. CASE down' = Tell(down, {r.key})
    BY <1>1, <2>1, Told
  <2>2. CASE Playing(r.asker) /\ down' = [down EXCEPT ![r.asker] = Append(@, [key |-> r.key, ok |-> FALSE])]
    <3>1. r.asker \in Clients /\ [key |-> r.key, ok |-> FALSE] \in ToClient
      BY <1>1, <2>2 DEF Playing, ToClient
    <3>2. Append(down[r.asker], [key |-> r.key, ok |-> FALSE]) \in Seq(ToClient)
      BY <3>1 DEF TypeOK
    <3> QED
      BY <2>2, <3>1, <3>2 DEF TypeOK
  <2>3. CASE UNCHANGED down
    BY <2>3 DEF TypeOK
  <2> QED
    BY <2>1, <2>2, <2>3 DEF ReceiveChunk
<1>5. terrain' \in [Chunks -> Nat] /\ modified' \subseteq Chunks /\ renew' \subseteq Chunks
  BY <1>1 DEF ReceiveChunk, TypeOK
<1>6. TypeOK'
  BY <1>1, <1>2, <1>3, <1>4, <1>5 DEF ReceiveChunk, TypeOK, client
<1>7. Gone'
  BY DEF ReceiveChunk, Gone, client
<1>8. NothingSwallowed'
  <2> SUFFICES ASSUME NEW c \in pending'
               PROVE  \/ \E i \in DOMAIN jobs'[c] : jobs'[c][i].listed /\ ~jobs'[c][i].cancel
                      \/ \E n \in DOMAIN results' : results'[n].key = c
    BY DEF NothingSwallowed
  <2>1. c \in pending /\ c # r.key /\ c \in Chunks
    BY <1>2 DEF TypeOK
  <2>2. jobs'[c] = jobs[c]
    BY <1>2, <2>1 DEF TypeOK
  <2>3. CASE \E i \in DOMAIN jobs[c] : jobs[c][i].listed /\ ~jobs[c][i].cancel
    BY <2>2, <2>3
  <2>4. CASE \E n \in DOMAIN results : results[n].key = c
    <3>1. PICK n \in DOMAIN results : results[n].key = c
      BY <2>4
    <3>2. n # 1 /\ n \in 1 .. Len(results) /\ Len(results) \in Nat
      BY <1>1, <2>1, <3>1
    <3>3. n - 1 \in DOMAIN results' /\ results'[n - 1] = results[n]
      BY <1>1, <1>2, <3>2
    <3> QED
      BY <3>1, <3>3
  <2> QED
    BY <2>1, <2>3, <2>4 DEF NothingSwallowed
<1> QED
  BY <1>6, <1>7, <1>8
-----------------------------------------------------------------------------
(* cancel_if_pending removes the entries with the jobs' listing.           *)
LEMMA CancelKeeps ==
    ASSUME IInv, NEW keys, Cancel(keys), UNCHANGED results
    PROVE  /\ pending' \subseteq Chunks
           /\ jobs' \in [Chunks -> Seq(Job)]
           /\ NothingSwallowed'
<1> USE DEF IInv
<1>1. pending' = pending \ keys
  BY DEF Cancel
<1>2. jobs' = [c \in Chunks |-> IF c \in keys THEN Cancelled(jobs[c]) ELSE jobs[c]]
  BY DEF Cancel
<1>3. jobs' \in [Chunks -> Seq(Job)]
  BY <1>2, Marked DEF TypeOK
<1>4. \A c \in pending' : c \in pending /\ c \in Chunks /\ jobs'[c] = jobs[c]
  BY <1>1, <1>2 DEF TypeOK
<1>5. NothingSwallowed'
  BY <1>4 DEF NothingSwallowed
<1> QED
  BY <1>1, <1>3, <1>5 DEF TypeOK

LEMMA UnloadKeeps ==
    ASSUME IInv, Unload
    PROVE  IInv'
<1> USE DEF IInv
<1>1. PICK far : Cancel(far) /\ renew' = renew \ far
                 /\ terrain' = [c \in Chunks |-> IF c \in far THEN 0 ELSE terrain[c]]
  BY DEF Unload
<1>2. terrain' \in [Chunks -> Nat] /\ renew' \subseteq Chunks
  BY <1>1 DEF TypeOK
<1>3. TypeOK'
  BY <1>1, <1>2, CancelKeeps DEF Unload, TypeOK, client
<1>4. Gone'
  BY DEF Unload, Gone, client
<1> QED
  BY <1>1, <1>3, <1>4, CancelKeeps DEF Unload
-----------------------------------------------------------------------------
(* A job that is started is the one the new entry waits for.               *)
LEMMA NewIsListed ==
    ASSUME NEW s \in Seq(Job), NEW asker \in Clients \cup {Away}, NEW v \in Nat
    PROVE  LET t == Append(s, NewJob(asker, v))
           IN  /\ t \in Seq(Job)
               /\ \E i \in DOMAIN t : t[i].listed /\ ~t[i].cancel
<1> DEFINE j == NewJob(asker, v)
           t == Append(s, j)
<1>1. j \in Job /\ j.listed /\ ~j.cancel
  BY DEF NewJob, Job
<1> HIDE DEF j
<1>2. t \in Seq(Job) /\ Len(s) + 1 \in DOMAIN t /\ t[Len(s) + 1] = j
  BY <1>1
<1> QED
  BY <1>1, <1>2 DEF j

LEMMA GenerateKeeps ==
    ASSUME IInv, GenerateChunk
    PROVE  IInv'
<1> USE DEF IInv
<1> DEFINE r == Head(requested)
<1>1. /\ requested \in Seq(Request) /\ requested # <<>>
      /\ r \in Request /\ Tail(requested) \in Seq(Request)
  <2>1. requested \in Seq(Request) /\ requested # <<>>
    BY DEF GenerateChunk, TypeOK
  <2> QED
    BY <2>1
<1>2. r.key \in Chunks /\ r.asker \in Clients
  BY <1>1 DEF Request
<1>3. Gone'
  BY DEF GenerateChunk, Gone, client
<1>4. CASE UNCHANGED <<pending, jobs>>
  <2>1. TypeOK'
    BY <1>1, <1>4 DEF GenerateChunk, TypeOK, client
  <2> QED
    BY <1>3, <1>4, <2>1, GeneratorKept DEF GenerateChunk, generator
<1>5. CASE /\ pending' = pending \cup {r.key}
           /\ jobs' = [jobs EXCEPT ![r.key] = Append(@, NewJob(r.asker, version))]
  <2>1. /\ jobs[r.key] \in Seq(Job) /\ version \in Nat
        /\ jobs'[r.key] = Append(jobs[r.key], NewJob(r.asker, version))
        /\ \A c \in Chunks \ {r.key} : jobs'[c] = jobs[c]
    BY <1>2, <1>5 DEF TypeOK
  <2>2. /\ jobs'[r.key] \in Seq(Job)
        /\ \E i \in DOMAIN jobs'[r.key] : jobs'[r.key][i].listed /\ ~jobs'[r.key][i].cancel
    <3>1. r.asker \in Clients \cup {Away}
      BY <1>2
    <3> HIDE DEF r
    <3> QED
      BY <2>1, <3>1, NewIsListed
  <2>3. jobs' \in [Chunks -> Seq(Job)]
    BY <1>5, <2>1, <2>2 DEF TypeOK
  <2>4. TypeOK'
    BY <1>1, <1>2, <1>5, <2>3 DEF GenerateChunk, TypeOK, client
  <2>5. ASSUME NEW c \in pending'
        PROVE  \/ \E i \in DOMAIN jobs'[c] : jobs'[c][i].listed /\ ~jobs'[c][i].cancel
               \/ \E n \in DOMAIN results' : results'[n].key = c
    <3>1. CASE c = r.key
      BY <2>2, <3>1
    <3>2. CASE c # r.key
      <4>1. c \in pending /\ c \in Chunks /\ jobs'[c] = jobs[c] /\ results' = results
        BY <1>5, <2>1, <3>2 DEF TypeOK, GenerateChunk
      <4> QED
        BY <4>1 DEF NothingSwallowed
    <3> QED
      BY <3>1, <3>2
  <2> QED
    BY <1>3, <2>4, <2>5 DEF NothingSwallowed
<1> QED
  BY <1>4, <1>5 DEF GenerateChunk

LEMMA LeaveKeeps ==
    ASSUME IInv, NEW k \in Clients, Leave(k)
    PROVE  IInv'
<1> USE DEF IInv
<1>1. TypeOK'
  BY DEF Leave, TypeOK, generator
<1>2. Gone'
  BY DEF Leave, Gone, TypeOK
<1> QED
  BY <1>1, <1>2, GeneratorKept DEF Leave
-----------------------------------------------------------------------------
LEMMA SyncTyped ==
    ASSUME IInv, SyncTerrain
    PROVE  /\ tick' \in 0 .. Stride * Stride - 1
           /\ down' \in [Clients -> Seq(ToClient)]
           /\ Gone'
<1>1. tick' \in 0 .. Stride * Stride - 1
  <2>1. Stride * Stride \in Nat \ {0}
    BY ChunksAssumption
  <2>2. tick \in Nat
    BY DEF IInv, TypeOK
  <2> QED
    BY <2>1, <2>2 DEF SyncTerrain
<1>2. {c \in modified : terrain[c] # 0} \in SUBSET Chunks
  BY DEF IInv, TypeOK
<1>3. down' \in [Clients -> Seq(ToClient)]
  BY <1>2, Told DEF SyncTerrain, IInv
<1>4. Gone'
  BY DEF SyncTerrain, IInv, Gone, client
<1> QED
  BY <1>1, <1>3, <1>4

LEMMA EndTickKeeps ==
    ASSUME IInv, EndTick
    PROVE  IInv'
<1>1. SyncTerrain /\ UNCHANGED generator
  BY DEF EndTick, SyncTerrain, generator
<1>2. TypeOK'
  BY <1>1, SyncTyped DEF EndTick, SyncTerrain, IInv, TypeOK, client, generator
<1> QED
  BY <1>1, <1>2, SyncTyped, GeneratorKept DEF IInv

LEMMA ReloadKeeps ==
    ASSUME IInv, Reload
    PROVE  IInv'
<1> USE DEF IInv
<1> DEFINE loaded == {c \in Chunks : terrain[c] # 0 /\ \E k \in Clients : players[k] # Away}
<1>1. SyncTerrain /\ version' = version + 1 /\ version + 1 \in Nat
  BY DEF Reload, TypeOK
<1>2. /\ pending' = loaded
      /\ renew' = loaded
      /\ terrain' = [c \in Chunks |-> IF c \in loaded THEN terrain[c] ELSE 0]
      /\ jobs' = [c \in Chunks |->
                    IF c \in loaded THEN Append(Cancelled(jobs[c]), NewJob(Away, version + 1))
                    ELSE Cancelled(jobs[c])]
  BY DEF Reload
<1>3. loaded \subseteq Chunks
  OBVIOUS
<1> HIDE DEF loaded
<1>4. \A c \in Chunks : Cancelled(jobs[c]) \in Seq(Job)
  BY Marked DEF TypeOK
<1>5. ASSUME NEW c \in Chunks
      PROVE  /\ jobs'[c] \in Seq(Job)
             /\ c \in loaded => \E i \in DOMAIN jobs'[c] : jobs'[c][i].listed /\ ~jobs'[c][i].cancel
  <2>1. CASE c \in loaded
    <3>1. jobs'[c] = Append(Cancelled(jobs[c]), NewJob(Away, version + 1))
      BY <1>2, <2>1
    <3> QED
      BY <1>1, <1>4, <3>1, NewIsListed
  <2>2. CASE c \notin loaded
    BY <1>2, <1>4, <2>2
  <2> QED
    BY <2>1, <2>2
<1>6. jobs' \in [Chunks -> Seq(Job)]
  BY <1>2, <1>5
<1>7. terrain' \in [Chunks -> Nat]
  BY <1>2 DEF TypeOK
<1>8. scene' \in Scene
  <2>1. scene' = [scene EXCEPT !.reloads = @ - 1] /\ scene.reloads > 0
    BY DEF Reload
  <2> QED
    BY <2>1, FewerLeft DEF TypeOK
<1>9. TypeOK'
  BY <1>1, <1>2, <1>3, <1>6, <1>7, <1>8, SyncTyped DEF SyncTerrain, TypeOK, client
<1>10. NothingSwallowed'
  BY <1>2, <1>3, <1>5 DEF NothingSwallowed
<1> QED
  BY <1>1, <1>9, <1>10, SyncTyped

(* A job that ends leaves a result that will remove the entry.             *)
LEMMA FinishKeeps ==
    ASSUME IInv, NEW c \in Chunks, NEW i \in DOMAIN jobs[c], Finish(c, i)
    PROVE  IInv'
<1> USE DEF IInv
<1>1. jobs[c] \in Seq(Job) /\ jobs[c][i] \in Job
  BY DEF TypeOK
<1>2. PICK v \in {0, jobs[c][i].version} :
          results' = Append(results, [key |-> c, asker |-> jobs[c][i].asker, version |-> v])
  BY DEF Finish
<1> DEFINE r == [key |-> c, asker |-> jobs[c][i].asker, version |-> v]
<1>3. r \in Result /\ r.key = c
  BY <1>1 DEF Job, Result
<1> HIDE DEF r
<1>4. results' = Append(results, r) /\ results \in Seq(Result)
  BY <1>2 DEF r, TypeOK
<1>5. /\ results' \in Seq(Result)
      /\ Len(results) + 1 \in DOMAIN results' /\ results'[Len(results) + 1] = r
      /\ \A n \in DOMAIN results : n \in DOMAIN results' /\ results'[n] = results[n]
  BY <1>3, <1>4
<1>6. jobs' = [jobs EXCEPT ![c] = RemoveAt(@, i)] /\ RemoveAt(jobs[c], i) \in Seq(Job)
  BY <1>1, RemoveTyped DEF Finish
<1>7. jobs' \in [Chunks -> Seq(Job)]
  BY <1>6 DEF TypeOK
<1>8. TypeOK' /\ Gone'
  BY <1>5, <1>7 DEF Finish, TypeOK, Gone, client
<1>9. ASSUME NEW d \in pending'
      PROVE  \/ \E j \in DOMAIN jobs'[d] : jobs'[d][j].listed /\ ~jobs'[d][j].cancel
             \/ \E n \in DOMAIN results' : results'[n].key = d
  <2>1. d \in pending /\ d \in Chunks
    BY DEF Finish, TypeOK
  <2>2. CASE d = c
    BY <1>3, <1>5, <2>2
  <2>3. CASE d # c
    <3>1. jobs'[d] = jobs[d]
      BY <1>6, <2>1, <2>3 DEF TypeOK
    <3> QED
      BY <1>5, <2>1, <3>1 DEF NothingSwallowed
  <2> QED
    BY <2>2, <2>3
<1> QED
  BY <1>8, <1>9 DEF NothingSwallowed
-----------------------------------------------------------------------------
LEMMA TakeKeeps ==
    ASSUME IInv, NEW k \in Clients, TakeChunk(k)
    PROVE  IInv'
<1> USE DEF IInv
<1> DEFINE m == Head(down[k])
<1>1. down[k] \in Seq(ToClient) /\ down[k] # <<>>
  BY DEF TakeChunk, TypeOK
<1>2. m \in ToClient /\ Tail(down[k]) \in Seq(ToClient)
  BY <1>1
<1>3. m.key \in Chunks
  BY <1>2 DEF ToClient
<1>4. TypeOK'
  BY <1>2, <1>3 DEF TakeChunk, TypeOK, server, generator
<1>5. UNCHANGED generator /\ Gone'
  BY DEF TakeChunk, server, Gone
<1> QED
  BY <1>4, <1>5, GeneratorKept

LEMMA ExpireKeeps ==
    ASSUME IInv, NEW k \in Clients, NEW c \in Chunks, Expire(k, c)
    PROVE  IInv'
<1> USE DEF IInv
<1>1. TypeOK'
  BY DEF Expire, TypeOK, server, generator
<1>2. UNCHANGED generator /\ Gone'
  BY DEF Expire, server, Gone
<1> QED
  BY <1>1, <1>2, GeneratorKept

LEMMA TickKeeps ==
    ASSUME IInv, NEW k \in Clients, NEW p \in Places, Tick(k, p),
           scene' \in Scene
    PROVE  IInv'
<1> USE DEF IInv
<1> DEFINE missing == Wanted[p] \ ((copy[k] \cap Near[p]) \cup {c \in Chunks : asked[k][c] # "no"})
<1>1. missing \subseteq Chunks
  BY DEF Wanted, Ring
<1>2. PICK s \in SUBSET missing :
        /\ asked' = [asked EXCEPT ![k] = [c \in Chunks |->
                       IF c \in s THEN "new" ELSE IF @[c] = "old" THEN "no" ELSE @[c]]]
        /\ up' = [up EXCEPT ![k] = @ \o SetToSeq({[what |-> "request", key |-> c] : c \in s})
                       \o IF p = Sent(k) THEN <<>> ELSE <<[what |-> "place", at |-> p]>>]
  BY DEF Tick, Nearest
<1>3. s \in SUBSET Chunks
  BY <1>1
<1> DEFINE places == IF p = Sent(k) THEN <<>> ELSE <<[what |-> "place", at |-> p]>>
           asking == SetToSeq({[what |-> "request", key |-> c] : c \in s})
<1>4. places \in Seq(ToServer)
  <2>1. [what |-> "place", at |-> p] \in ToServer
    BY DEF ToServer
  <2> QED
    BY <2>1
<1>5. asking \in Seq(ToServer)
  BY <1>3, Requests
<1> HIDE DEF places, asking, missing
<1>6. up[k] \o asking \o places \in Seq(ToServer)
  BY <1>4, <1>5 DEF TypeOK
<1>7. up' = [up EXCEPT ![k] = @ \o asking \o places]
  BY <1>2 DEF places, asking
<1>8. up' \in [Clients -> Seq(ToServer)]
  BY <1>6, <1>7 DEF TypeOK
<1>9. asked' \in [Clients -> [Chunks -> {"no", "new", "old"}]]
  <2>1. [c \in Chunks |-> IF c \in s THEN "new" ELSE IF asked[k][c] = "old" THEN "no" ELSE asked[k][c]]
            \in [Chunks -> {"no", "new", "old"}]
    BY DEF TypeOK
  <2> QED
    BY <1>2, <2>1 DEF TypeOK
<1>10. /\ place' = [place EXCEPT ![k] = p]
       /\ copy' = [copy EXCEPT ![k] = copy[k] \cap Near[p]]
       /\ players[k] # Away
       /\ UNCHANGED <<server, down>>
  BY DEF Tick
<1>11. TypeOK'
  BY <1>8, <1>9, <1>10 DEF TypeOK, server, generator
<1>12. Gone'
  BY <1>7, <1>10, ChunksAssumption DEF Gone, TypeOK, server
<1>13. UNCHANGED generator
  BY <1>10 DEF server
<1> QED
  BY <1>11, <1>12, <1>13, GeneratorKept

LEMMA ClientKeeps ==
    ASSUME IInv, NEW k \in Clients, ClientTick(k) \/ \E p \in scene.places : Move(k, p)
    PROVE  IInv'
<1>1. CASE ClientTick(k)
  <2>1. place[k] \in Places
    BY <1>1 DEF ClientTick, Tick, IInv, TypeOK, Gone
  <2> QED
    BY <1>1, <2>1, TickKeeps DEF ClientTick, IInv, TypeOK
<1>2. ASSUME NEW p \in scene.places, Move(k, p)
      PROVE  IInv'
  <2>1. p \in Places
    BY DEF IInv, TypeOK, Scene
  <2>2. scene' \in Scene
    <3>1. scene' = [scene EXCEPT !.moves = @ - 1] /\ scene.moves > 0
      BY <1>2 DEF Move
    <3> QED
      BY <3>1, FewerLeft DEF IInv, TypeOK
  <2> QED
    BY <1>2, <2>1, <2>2, TickKeeps DEF Move
<1> QED
  BY <1>1, <1>2
-----------------------------------------------------------------------------
LEMMA Inductive == IInv /\ [Next]_vars => IInv'
<1> SUFFICES ASSUME IInv, [Next]_vars PROVE IInv'
  OBVIOUS
<1>1. ASSUME NEW k \in Clients,
             \/ HandleMessage(k) \/ Leave(k) \/ TakeChunk(k) \/ ClientTick(k)
             \/ \E p \in scene.places : Move(k, p)
             \/ \E c \in Chunks : Expire(k, c)
      PROVE  IInv'
  BY <1>1, MessageKeeps, LeaveKeeps, TakeKeeps, ClientKeeps, ExpireKeeps
<1>2. CASE ServerStep
  BY <1>2, EndMessagesKeeps, ReceiveKeeps, UnloadKeeps, GenerateKeeps, EndTickKeeps DEF ServerStep
<1>3. CASE Reload
  BY <1>3, ReloadKeeps
<1>4. CASE \E c \in Chunks : \E i \in DOMAIN jobs[c] : Finish(c, i)
  BY <1>4, FinishKeeps
<1>5. CASE UNCHANGED vars
  <2>1. TypeOK' /\ Gone'
    BY <1>5 DEF vars, server, client, generator, IInv, TypeOK, Gone
  <2>2. UNCHANGED generator
    BY <1>5 DEF vars, server
  <2> QED
    BY <2>1, <2>2, GeneratorKept DEF IInv
<1> QED
  BY <1>1, <1>2, <1>3, <1>4, <1>5 DEF Next

(* For any world, any number of clients and any order of requests, moves,  *)
(* exits, reloads and results, the variables of server, threads and        *)
(* clients keep their types.                                               *)
THEOREM TypeCorrect == Spec => []TypeOK
<1>1. IInv => TypeOK
  BY DEF IInv
<1> QED
  BY <1>1, InitTyped, Inductive, PTL DEF Spec

(* While pending_chunks keeps generate_chunk from starting another job for *)
(* a chunk, there is one that will not be cancelled unseen, or a result on *)
(* its way, however many stale results of cancelled jobs there are.        *)
THEOREM RequestsAreWaitedFor == Spec => []NothingSwallowed
<1>1. IInv => NothingSwallowed
  BY DEF IInv
<1> QED
  BY <1>1, InitTyped, Inductive, PTL DEF Spec
=============================================================================
