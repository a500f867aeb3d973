------------------------- MODULE IdentityManager_proofs -------------------------
(***************************************************************************)
(* Proofs about IdentityManager, for any transcripts, identities, match    *)
(* window, buffer and faults: types, whom _find_identity names, what is    *)
(* acknowledged while it is held, what is published twice, and that the    *)
(* service relays.                                                         *)
(***************************************************************************)
EXTENDS IdentityManager, SequenceTheorems, WellFoundedInduction, TLAPS

(* Whom _find_identity names.                                                *)

\* A nonempty set of naturals has a least element.
LEMMA LeastNatural ==
    ASSUME NEW S, S \subseteq Nat, S # {}
    PROVE  \E n \in S : \A m \in S : n <= m
<1> DEFINE R == OpToRel(<, Nat)
<1>1. IsWellFoundedOn(R, Nat)
  BY NatLessThanWellFounded
<1>2. \A m, n \in Nat : <<m, n>> \in R <=> m < n
  BY DEF OpToRel
<1> HIDE DEF R
<1>3. PICK n \in S : \A m \in S : ~(<<m, n>> \in R)
  BY <1>1, WFMin
<1>4. ASSUME NEW m \in S PROVE n <= m
  <2>1. m \in Nat /\ n \in Nat
    OBVIOUS
  <2>2. ~(m < n)
    BY <1>2, <1>3, <2>1
  <2>3. QED
    BY <2>1, <2>2
<1>5. QED
  BY <1>4

PoolsOK == pools \in [Sources -> Seq(DOMAIN Identities)]

LEMMA SpeechOf == \A t \in Ids : /\ Transcripts[t].ts \in Int
                                 /\ Transcripts[t].source \in Sources
                                 /\ Transcripts[t].is_final \in BOOLEAN
<1>1. \A t \in Ids : Transcripts[t] \in [ts : Int, source : Sources, is_final : BOOLEAN]
  <2> DEFINE Said == [ts : Int, source : Sources, is_final : BOOLEAN]
  <2>1. Transcripts \in Seq(Said)
    BY TranscriptsAssumption
  <2> HIDE DEF Said
  <2>2. \A t \in DOMAIN Transcripts : Transcripts[t] \in Said
    BY <2>1
  <2>3. QED
    BY <2>2 DEF Ids, Said
<1>2. QED
  BY <1>1

LEMMA SightOf == \A i \in DOMAIN Identities : Identities[i].ts \in Int
<1> DEFINE Found == [ts : Int, source : Sources, speaker : STRING]
<1>1. Identities \in Seq(Found)
  BY IdentitiesAssumption
<1> HIDE DEF Found
<1>2. \A i \in DOMAIN Identities : Identities[i] \in Found
  BY <1>1
<1>3. QED
  BY <1>2 DEF Found

LEMMA DistanceType ==
    \A i \in DOMAIN Identities, t \in Ids : Distance(i, t) \in Nat
  BY SpeechOf, SightOf DEF Distance

\* _find_identity names the nearest identity of the pool, the earliest of equals, if any
\* is near.
THEOREM NearestIsNearest ==
    ASSUME PoolsOK, NEW t \in Ids, Near(t) # {}
    PROVE  LET pool == pools[Transcripts[t].source]
           IN  /\ Nearest(t) \in Near(t) /\ Nearest(t) \in DOMAIN pool
               /\ \A j \in Near(t) :
                     \/ Distance(pool[Nearest(t)], t) < Distance(pool[j], t)
                     \/ Distance(pool[Nearest(t)], t) = Distance(pool[j], t) /\ Nearest(t) <= j
<1> DEFINE pool == pools[Transcripts[t].source]
           D(k) == Distance(pool[k], t)
<1>1. pool \in Seq(DOMAIN Identities) /\ DOMAIN pool = 1 .. Len(pool) /\ Len(pool) \in Nat
  BY SpeechOf DEF PoolsOK
<1>2. Near(t) \subseteq DOMAIN pool /\ Near(t) \subseteq Nat
  BY <1>1 DEF Near
<1>3. \A k \in Near(t) : D(k) \in Nat
  <2> SUFFICES ASSUME NEW k \in Near(t) PROVE D(k) \in Nat
    OBVIOUS
  <2>1. pool[k] \in DOMAIN Identities
    BY <1>1, <1>2
  <2>2. QED
    BY <2>1, DistanceType
<1> HIDE DEF D
<1>4. PICK d \in {D(k) : k \in Near(t)} : \A e \in {D(k) : k \in Near(t)} : d <= e
  BY <1>3, LeastNatural
<1> DEFINE K == {k \in Near(t) : D(k) = d}
<1>5. K \subseteq Nat /\ K # {}
  BY <1>2, <1>4
<1>6. PICK k \in K : \A j \in K : k <= j
  <2> HIDE DEF K
  <2> QED BY <1>5, LeastNatural
<1>7. k \in Near(t) /\ \A j \in Near(t) : D(k) < D(j) \/ (D(k) = D(j) /\ k <= j)
  <2> SUFFICES ASSUME NEW j \in Near(t) PROVE D(k) < D(j) \/ (D(k) = D(j) /\ k <= j)
    BY <1>6
  <2>1. D(k) = d /\ d <= D(j) /\ D(j) \in Nat /\ d \in Nat
    BY <1>3, <1>4, <1>6
  <2>2. CASE D(j) = d
    BY <1>6, <2>1, <2>2
  <2>3. CASE D(j) # d
    BY <2>1, <2>3
  <2>4. QED
    BY <2>2, <2>3
<1>8. /\ Nearest(t) \in Near(t)
      /\ \A j \in Near(t) : \/ D(Nearest(t)) < D(j)
                            \/ D(Nearest(t)) = D(j) /\ Nearest(t) <= j
  BY <1>7, Zenon DEF Nearest, D
<1>9. QED
  BY <1>2, <1>8 DEF D

LEMMA SpeakerType == ASSUME PoolsOK, NEW t \in Ids PROVE Speaker(t) \in Speakers
<1>1. CASE Near(t) = {}
  BY <1>1 DEF Speaker, Speakers
<1>2. CASE Near(t) # {}
  <2> DEFINE pool == pools[Transcripts[t].source]
  <2>1. pool[Nearest(t)] \in DOMAIN Identities
    BY <1>2, NearestIsNearest, SpeechOf DEF PoolsOK
  <2>2. QED
    BY <1>2, <2>1 DEF Speaker, Speakers
<1>3. QED
  BY <1>1, <1>2
-----------------------------------------------------------------------------
(* The entries in memory.                                                    *)

\* All entries that the service keeps, in the order of the fusion loop.
Kept == still \o batch \o pending

\* s2 is s1 without its entry at k.
Dropped(s2, s1, k) ==
    /\ Len(s2) = Len(s1) - 1 /\ k \in 1 .. Len(s1)
    /\ \A i \in 1 .. Len(s2) : s2[i] = s1[IF i < k THEN i ELSE i + 1]

\* Three sequences, one after the other.
LEMMA Joined ==
    ASSUME NEW a \in Seq(Entries), NEW b \in Seq(Entries), NEW c \in Seq(Entries)
    PROVE  /\ a \o b \o c \in Seq(Entries)
           /\ Len(a \o b \o c) = Len(a) + Len(b) + Len(c)
           /\ {Len(a), Len(b), Len(c)} \subseteq Nat
           /\ \A i \in 1 .. Len(a) : (a \o b \o c)[i] = a[i]
           /\ \A i \in 1 .. Len(b) : (a \o b \o c)[Len(a) + i] = b[i]
           /\ \A i \in 1 .. Len(c) : (a \o b \o c)[Len(a) + Len(b) + i] = c[i]
<1> DEFINE d == a \o b
<1>1. /\ d \in Seq(Entries) /\ Len(d) = Len(a) + Len(b)
      /\ \A i \in 1 .. Len(a) + Len(b) : d[i] = IF i <= Len(a) THEN a[i] ELSE b[i - Len(a)]
      /\ Len(a) \in Nat /\ Len(b) \in Nat /\ Len(c) \in Nat
  BY ConcatProperties, LenProperties
<1> HIDE DEF d
<1>2. /\ d \o c \in Seq(Entries) /\ Len(d \o c) = Len(d) + Len(c)
      /\ \A i \in 1 .. Len(d) + Len(c) : (d \o c)[i] = IF i <= Len(d) THEN d[i] ELSE c[i - Len(d)]
  <2>1. d \in Seq(Entries)
    BY <1>1
  <2>2. QED
    BY <2>1, ConcatProperties
<1>3. \A i \in 1 .. Len(a) : (d \o c)[i] = a[i]
  BY <1>1, <1>2
<1>4. \A i \in 1 .. Len(b) : (d \o c)[Len(a) + i] = b[i]
  BY <1>1, <1>2
<1>5. \A i \in 1 .. Len(c) : (d \o c)[Len(a) + Len(b) + i] = c[i]
  BY <1>1, <1>2
<1>6. QED
  BY <1>1, <1>2, <1>3, <1>4, <1>5 DEF d

LEMMA Regroup ==
    \A a, b, c \in Seq(Entries) : (a \o b) \o c = a \o (b \o c)
<1> SUFFICES ASSUME NEW a \in Seq(Entries), NEW b \in Seq(Entries), NEW c \in Seq(Entries)
             PROVE  (a \o b) \o c = a \o (b \o c)
  OBVIOUS
<1> QED
  BY ConcatAssociative

\* Where the i-th of three sequences in a row lies.
LEMMA Places ==
    ASSUME NEW m \in Nat, NEW n \in Nat, NEW k \in Nat, NEW i \in 1 .. m + n + k
    PROVE  \/ i \in 1 .. m
           \/ i - m \in 1 .. n /\ i = m + (i - m)
           \/ i - (m + n) \in 1 .. k /\ i = m + n + (i - (m + n))
  OBVIOUS

\* The head of the second sequence is taken away.
LEMMA HeadDropped ==
    ASSUME NEW a \in Seq(Entries), NEW b \in Seq(Entries), NEW c \in Seq(Entries), b # <<>>
    PROVE  Dropped(a \o Tail(b) \o c, a \o b \o c, Len(a) + 1)
<1> DEFINE s1 == a \o b \o c
           s2 == a \o Tail(b) \o c
           t  == Tail(b)
<1>1. t \in Seq(Entries) /\ Len(t) = Len(b) - 1 /\ \A i \in 1 .. Len(t) : t[i] = b[i + 1]
  BY HeadTailProperties
<1> HIDE DEF t
<1>2. /\ Len(s1) = Len(a) + Len(b) + Len(c) /\ {Len(a), Len(b), Len(c)} \subseteq Nat
      /\ \A i \in 1 .. Len(a) : s1[i] = a[i]
      /\ \A i \in 1 .. Len(b) : s1[Len(a) + i] = b[i]
      /\ \A i \in 1 .. Len(c) : s1[Len(a) + Len(b) + i] = c[i]
  BY Joined
<1>3. /\ Len(s2) = Len(a) + Len(t) + Len(c)
      /\ \A i \in 1 .. Len(a) : s2[i] = a[i]
      /\ \A i \in 1 .. Len(t) : s2[Len(a) + i] = t[i]
      /\ \A i \in 1 .. Len(c) : s2[Len(a) + Len(t) + i] = c[i]
  BY <1>1, Joined DEF t
<1> HIDE DEF s1, s2
<1>4. Len(a) \in Nat /\ Len(b) \in Nat /\ Len(c) \in Nat /\ Len(t) \in Nat
  BY <1>1, <1>2, LenProperties
<1>5. ASSUME NEW i \in 1 .. Len(s2)
      PROVE  s2[i] = s1[IF i < Len(a) + 1 THEN i ELSE i + 1]
  <2>1. CASE i \in 1 .. Len(a)
    BY <1>2, <1>3, <1>4, <2>1
  <2>2. CASE i - Len(a) \in 1 .. Len(t) /\ i = Len(a) + (i - Len(a))
    <3> DEFINE k == i - Len(a)
    <3>1. s2[i] = t[k] /\ t[k] = b[k + 1]
      BY <1>1, <1>3, <2>2
    <3>2. k + 1 \in 1 .. Len(b) /\ i + 1 = Len(a) + (k + 1)
      BY <1>1, <1>4, <2>2
    <3>3. s1[i + 1] = b[k + 1]
      BY <1>2, <3>2
    <3>4. QED
      BY <1>4, <2>2, <3>1, <3>3
  <2>3. CASE i - (Len(a) + Len(t)) \in 1 .. Len(c) /\ i = Len(a) + Len(t) + (i - (Len(a) + Len(t)))
    <3> DEFINE k == i - (Len(a) + Len(t))
    <3>1. s2[i] = c[k]
      BY <1>3, <2>3
    <3>2. i + 1 = Len(a) + Len(b) + k /\ ~(i < Len(a) + 1)
      BY <1>1, <1>4, <2>3
    <3>3. s1[i + 1] = c[k]
      BY <1>2, <2>3, <3>2
    <3>4. QED
      BY <3>1, <3>2, <3>3
  <2>4. QED
    BY <1>3, <1>4, <2>1, <2>2, <2>3, Places
<1>6. Len(s2) = Len(s1) - 1 /\ Len(a) + 1 \in 1 .. Len(s1)
  <2>1. Len(b) # 0
    BY EmptySeq
  <2>2. QED
    BY <1>1, <1>2, <1>3, <1>4, <2>1
<1>7. QED
  BY <1>5, <1>6 DEF Dropped, s1, s2, t

\* Going through the batch rearranges what is kept, and publishes one entry at most.
LEMMA ProceedKeeps ==
    ASSUME NEW rest \in Seq(Entries), NEW kept \in Seq(Entries), NEW arrived \in Seq(Entries),
           Proceed(rest, kept, arrived)
    PROVE  /\ batch' \in Seq(Entries) /\ still' \in Seq(Entries) /\ pending' \in Seq(Entries)
           /\ Kept' = kept \o rest \o arrived
           /\ \/ /\ batch' = <<>> /\ still' = <<>> /\ fusing' = "idle"
                 /\ UNCHANGED <<final, faults>>
              \/ \E i \in 1 .. Len(rest) :
                    /\ Len(still') = Len(kept) + i - 1 /\ batch' # <<>> /\ Head(batch') = rest[i]
                    /\ fusing' \in {"due", "lost"}
                    /\ Publish(rest[i].t, Speaker(rest[i].t), fusing')
<1>0. DOMAIN rest = 1 .. Len(rest) /\ Len(rest) \in Nat
  BY LenProperties
<1>1. ASSUME NEW i \in 1 .. Len(rest),
             batch' = SubSeq(rest, i, Len(rest)), still' = kept \o SubSeq(rest, 1, i - 1),
             pending' = arrived
      PROVE  /\ batch' \in Seq(Entries) /\ still' \in Seq(Entries) /\ pending' \in Seq(Entries)
             /\ Kept' = kept \o rest \o arrived
             /\ Len(still') = Len(kept) + i - 1 /\ batch' # <<>> /\ Head(batch') = rest[i]
  <2> DEFINE before == SubSeq(rest, 1, i - 1)
             after  == SubSeq(rest, i, Len(rest))
  <2>1. before \in Seq(Entries) /\ Len(before) = i - 1
    <3>1. \A j \in 1 .. i - 1 : rest[j] \in Entries
      BY <1>0, ElementOfSeq
    <3>2. QED
      BY <1>0, <3>1, SubSeqProperties
  <2>2. after \in Seq(Entries) /\ Len(after) = Len(rest) - i + 1
    <3>1. \A j \in i .. Len(rest) : rest[j] \in Entries
      BY <1>0, ElementOfSeq
    <3>2. QED
      BY <1>0, <3>1, SubSeqProperties
  <2>3. after # <<>> /\ Head(after) = rest[i]
    <3>1. Head(after) = rest[i]
      BY <1>0, HeadTailOfSubSeq
    <3>2. Len(after) # 0
      BY <1>0, <2>2
    <3>3. QED
      BY <3>1, <3>2, EmptySeq
  <2>4. before \o after = rest
    <3>0. /\ 1 \in 1 .. Len(rest) + 1 /\ i - 1 \in 1 - 1 .. Len(rest)
          /\ Len(rest) \in i - 1 .. Len(rest)
      BY <1>0
    <3>1. SubSeq(rest, 1, i - 1) \o SubSeq(rest, i - 1 + 1, Len(rest)) = SubSeq(rest, 1, Len(rest))
      BY <3>0, ConcatAdjacentSubSeq, Zenon
    <3>2. i - 1 + 1 = i
      BY <1>0
    <3>3. QED
      BY <3>1, <3>2, SubSeqFull
  <2> HIDE DEF before, after
  <2>5. still' = kept \o before /\ batch' = after /\ pending' = arrived
    BY <1>1 DEF before, after
  <2>6. (kept \o before) \o after = kept \o rest
    <3>1. before \in Seq(Entries) /\ after \in Seq(Entries)
      BY <2>1, <2>2
    <3>2. (kept \o before) \o after = kept \o (before \o after)
      BY <3>1, Regroup
    <3>3. QED
      BY <2>4, <3>2
  <2>7. kept \o before \in Seq(Entries) /\ Len(kept \o before) = Len(kept) + i - 1
    BY <1>0, <2>1, ConcatProperties, LenProperties
  <2>8. Kept' = kept \o rest \o arrived
    BY <2>5, <2>6 DEF Kept
  <2>9. QED
    BY <2>2, <2>3, <2>5, <2>7, <2>8
<1>2. ASSUME batch' = <<>>, still' = <<>>, pending' = kept \o rest \o arrived
      PROVE  /\ batch' \in Seq(Entries) /\ still' \in Seq(Entries) /\ pending' \in Seq(Entries)
             /\ Kept' = kept \o rest \o arrived
  <2> DEFINE all == kept \o rest \o arrived
  <2>1. all \in Seq(Entries)
    BY Joined
  <2> HIDE DEF all
  <2>2. <<>> \in Seq(Entries) /\ <<>> \o <<>> = <<>> /\ <<>> \o all = all
    BY <2>1, EmptySeq, ConcatEmptySeq
  <2>3. pending' = all
    BY <1>2 DEF all
  <2>4. Kept' = all
    BY <1>2, <2>2, <2>3 DEF Kept
  <2>5. QED
    BY <1>2, <2>1, <2>2, <2>3, <2>4 DEF all
<1>3. CASE /\ batch' = <<>> /\ still' = <<>>
           /\ pending' = kept \o rest \o arrived
           /\ fusing' = "idle"
           /\ UNCHANGED <<final, faults>>
  BY <1>2, <1>3
<1>4. ASSUME NEW i \in 1 .. Len(rest),
             batch' = SubSeq(rest, i, Len(rest)), still' = kept \o SubSeq(rest, 1, i - 1),
             pending' = arrived, fusing' \in {"due", "lost"},
             Publish(rest[i].t, Speaker(rest[i].t), fusing')
      PROVE  /\ batch' \in Seq(Entries) /\ still' \in Seq(Entries) /\ pending' \in Seq(Entries)
             /\ Kept' = kept \o rest \o arrived
             /\ \E j \in 1 .. Len(rest) :
                    /\ Len(still') = Len(kept) + j - 1 /\ batch' # <<>> /\ Head(batch') = rest[j]
                    /\ fusing' \in {"due", "lost"}
                    /\ Publish(rest[j].t, Speaker(rest[j].t), fusing')
  BY <1>1, <1>4
<1>5. QED
  BY <1>0, <1>3, <1>4 DEF Proceed
-----------------------------------------------------------------------------
(* Types.                                                                    *)

MemoryOK ==
    /\ pending \in Seq(Entries) /\ batch \in Seq(Entries) /\ still \in Seq(Entries)
    /\ fusing \in {"idle", "due", "lost", "next"}
    /\ fusing = "idle" <=> batch = <<>>

ForwardOK == forwarding \in Ids \cup {NoId} /\ forward \in {"due", "lost"}
RawOK     == raw \in [Ids -> RawStates]
FinalOK   == final \in [Ids -> Seq(Speakers)]
CountsOK  == /\ up \in BOOLEAN /\ heard \in 0 .. Len(Identities)
             /\ faults \in 0 .. MaxFaults /\ crashes \in 0 .. MaxCrashes

\* Between two rounds nothing is put aside.
IdleOK == fusing = "idle" => still = <<>>

TypeInv == /\ MemoryOK /\ IdleOK /\ ForwardOK
           /\ PoolsOK /\ RawOK /\ FinalOK /\ CountsOK

LEMMA TypeInvTypeOK == TypeInv => TypeOK
  BY Zenon DEF TypeInv, TypeOK, MemoryOK, ForwardOK, PoolsOK, RawOK, FinalOK, CountsOK

LEMMA IdsAreNumbers == Ids = 1 .. Len(Transcripts) /\ Len(Transcripts) \in Nat /\ NoId \notin Ids
<1> DEFINE Said == [ts : Int, source : Sources, is_final : BOOLEAN]
<1>1. Transcripts \in Seq(Said)
  BY TranscriptsAssumption
<1> HIDE DEF Said
<1>2. QED
  BY <1>1 DEF Ids, NoId

LEMMA IdentitiesAreNumbers ==
    DOMAIN Identities = 1 .. Len(Identities) /\ Len(Identities) \in Nat
<1> DEFINE Found == [ts : Int, source : Sources, speaker : STRING]
<1>1. Identities \in Seq(Found)
  BY IdentitiesAssumption
<1> HIDE DEF Found
<1>2. QED
  BY <1>1

\* What a publish does: it adds one line at most, and does so unless it is lost.
LEMMA PublishStep ==
    ASSUME FinalOK, CountsOK, NEW t \in Ids, NEW speaker \in Speakers, NEW r,
           Publish(t, speaker, r)
    PROVE  /\ FinalOK' /\ faults' \in 0 .. MaxFaults /\ r \in {"due", "lost"}
           /\ faults' = 0 => faults = 0 /\ r = "due"
           /\ \A u \in Ids : u # t => final'[u] = final[u]
           /\ \A u \in Ids : final[u] # <<>> => final'[u] # <<>>
           /\ r = "due" => final'[t] # <<>> /\ Len(final'[t]) = Len(final[t]) + 1
<1> DEFINE stored == [final EXCEPT ![t] = Append(@, speaker)]
<1>1. final[t] \in Seq(Speakers)
  BY DEF FinalOK
<1>2. /\ Append(final[t], speaker) \in Seq(Speakers) /\ Append(final[t], speaker) # <<>>
      /\ Len(Append(final[t], speaker)) = Len(final[t]) + 1
  BY <1>1, AppendProperties
<1>3. /\ stored \in [Ids -> Seq(Speakers)] /\ stored[t] = Append(final[t], speaker)
      /\ \A u \in Ids : u # t => stored[u] = final[u]
  BY <1>2, Zenon DEF FinalOK
<1>4. \A u \in Ids : final[u] # <<>> => stored[u] # <<>>
  BY <1>2, <1>3
<1> HIDE DEF stored
<1>5. final' \in {final, stored}
  BY DEF Publish, stored
<1>6. /\ FinalOK' /\ \A u \in Ids : u # t => final'[u] = final[u]
      /\ \A u \in Ids : final[u] # <<>> => final'[u] # <<>>
  BY <1>3, <1>4, <1>5, Zenon DEF FinalOK
<1>7. r = "due" => final' = stored
  BY DEF Publish, stored
<1>8. /\ faults' \in 0 .. MaxFaults /\ r \in {"due", "lost"}
      /\ faults' = 0 => faults = 0 /\ r = "due"
  BY LimitsAssumption DEF Publish, Fault, CountsOK
<1>9. QED
  BY <1>2, <1>3, <1>6, <1>7, <1>8

\* What an ack does: it settles its message, unless it is lost.
LEMMA AckStep ==
    ASSUME CountsOK, NEW q \in [Ids -> RawStates], NEW t \in Ids, Ack(q, t)
    PROVE  /\ RawOK' /\ faults' \in 0 .. MaxFaults
           /\ faults' = 0 => faults = 0 /\ raw'[t] = "acked"
           /\ raw'[t] \in {"acked", q[t]}
           /\ \A u \in Ids : u # t => raw'[u] = q[u]
  BY LimitsAssumption DEF Ack, Acked, Fault, CountsOK, RawOK, RawStates

LEMMA FetchedStep ==
    ASSUME RawOK, NEW t \in Ids, Fetched(t)
    PROVE  /\ Taken(t) \in [Ids -> RawStates] /\ Taken(t)[t] = "out"
           /\ \A u \in Ids : u # t => Taken(t)[u] = raw[u]
           /\ raw[t] \in {"new", "again"} /\ forwarding = NoId
  BY DEF RawOK, RawStates, Taken, Fetched, Deliverable

LEMMA RememberType ==
    ASSUME NEW pool \in Seq(DOMAIN Identities), NEW i \in DOMAIN Identities
    PROVE  Remember(pool, i) \in Seq(DOMAIN Identities)
<1>1. CASE Len(pool) < MAX_BUFFER
  BY <1>1, AppendProperties DEF Remember
<1>2. CASE ~(Len(pool) < MAX_BUFFER)
  <2>1. pool # <<>>
    BY <1>2, EmptySeq, LimitsAssumption
  <2>2. Tail(pool) \in Seq(DOMAIN Identities)
    BY <2>1, HeadTailProperties
  <2>3. Append(Tail(pool), i) \in Seq(DOMAIN Identities)
    BY <2>2, AppendProperties
  <2>4. QED
    BY <1>2, <2>3 DEF Remember
<1>3. QED
  BY <1>1, <1>2

LEMMA InitTypeInv == Init => TypeInv
<1> SUFFICES ASSUME Init PROVE TypeInv
  OBVIOUS
<1>1. MemoryOK /\ IdleOK
  BY EmptySeq DEF Init, MemoryOK, IdleOK
<1>2. PoolsOK /\ FinalOK
  BY EmptySeq, Zenon DEF Init, PoolsOK, FinalOK
<1>3. ForwardOK /\ RawOK
  BY DEF Init, ForwardOK, RawOK, RawStates
<1>4. CountsOK
  <2>1. up = FALSE /\ heard = 0 /\ faults = 0 /\ crashes = 0
    BY DEF Init
  <2>2. 0 \in 0 .. Len(Identities) /\ 0 \in 0 .. MaxFaults /\ 0 \in 0 .. MaxCrashes
    BY IdentitiesAreNumbers, LimitsAssumption
  <2>3. QED
    BY <2>1, <2>2, Zenon DEF CountsOK
<1>5. QED
  BY <1>1, <1>2, <1>3, <1>4 DEF TypeInv
-----------------------------------------------------------------------------
(* What each action does to the entries in memory.                           *)

\* The places of the entries.
LEMMA KeptFacts ==
    ASSUME MemoryOK
    PROVE  /\ Kept \in Seq(Entries) /\ DOMAIN Kept = 1 .. Len(Kept)
           /\ Len(still) \in Nat /\ Len(batch) \in Nat /\ Len(pending) \in Nat
           /\ Len(Kept) = Len(still) + Len(batch) + Len(pending)
           /\ \A i \in 1 .. Len(Kept) : Kept[i] \in Entries /\ Kept[i].t \in Ids
           /\ \A i \in 1 .. Len(still) : Kept[i] = still[i]
           /\ \A i \in 1 .. Len(batch) : Kept[Len(still) + i] = batch[i]
           /\ \A i \in 1 .. Len(pending) : Kept[Len(still) + Len(batch) + i] = pending[i]
           /\ batch # <<>> => /\ Head(batch) \in Entries /\ Head(batch).t \in Ids
                              /\ Len(still) + 1 \in 1 .. Len(Kept)
                              /\ Kept[Len(still) + 1] = Head(batch)
<1>1. still \in Seq(Entries) /\ batch \in Seq(Entries) /\ pending \in Seq(Entries)
  BY DEF MemoryOK
<1>2. /\ Kept \in Seq(Entries)
      /\ Len(Kept) = Len(still) + Len(batch) + Len(pending)
      /\ Len(still) \in Nat /\ Len(batch) \in Nat /\ Len(pending) \in Nat
      /\ \A i \in 1 .. Len(still) : Kept[i] = still[i]
      /\ \A i \in 1 .. Len(batch) : Kept[Len(still) + i] = batch[i]
      /\ \A i \in 1 .. Len(pending) : Kept[Len(still) + Len(batch) + i] = pending[i]
  BY <1>1, Joined DEF Kept
<1>3. DOMAIN Kept = 1 .. Len(Kept) /\ \A i \in 1 .. Len(Kept) : Kept[i] \in Entries
  BY <1>2, ElementOfSeq, LenProperties
<1>4. \A i \in 1 .. Len(Kept) : Kept[i].t \in Ids
  BY <1>3 DEF Entries
<1>5. ASSUME batch # <<>>
      PROVE  /\ Head(batch) \in Entries /\ Head(batch).t \in Ids
             /\ Len(still) + 1 \in 1 .. Len(Kept)
             /\ Kept[Len(still) + 1] = Head(batch)
  <2>1. Head(batch) \in Entries /\ Head(batch) = batch[1]
    BY <1>1, <1>5, HeadTailProperties
  <2>2. Len(batch) # 0
    BY <1>1, <1>5, EmptySeq
  <2>3. 1 \in 1 .. Len(batch) /\ Len(still) + 1 \in 1 .. Len(Kept)
    BY <1>2, <2>2
  <2>4. Kept[Len(still) + 1] = Head(batch)
    BY <1>2, <2>1, <2>3
  <2>5. Head(batch).t \in Ids
    BY <2>1 DEF Entries
  <2>6. QED
    BY <2>1, <2>3, <2>4, <2>5
<1>6. QED
  BY <1>2, <1>3, <1>4, <1>5

\* A transcript is held as the interim in hand or as an entry.
LEMMA HeldIsKept ==
    ASSUME MemoryOK, NEW t
    PROVE  Held(t) <=> forwarding = t \/ \E i \in 1 .. Len(Kept) : Kept[i].t = t
<1>1. DOMAIN still = 1 .. Len(still) /\ DOMAIN batch = 1 .. Len(batch)
      /\ DOMAIN pending = 1 .. Len(pending)
  BY LenProperties DEF MemoryOK
<1>2. ASSUME NEW i \in 1 .. Len(Kept), Kept[i].t = t PROVE Held(t)
  <2>1. CASE i \in 1 .. Len(still)
    BY <1>1, <1>2, <2>1, KeptFacts DEF Held
  <2>2. CASE i - Len(still) \in 1 .. Len(batch) /\ i = Len(still) + (i - Len(still))
    <3>1. batch[i - Len(still)].t = t
      BY <1>2, <2>2, KeptFacts
    <3>2. QED
      BY <1>1, <2>2, <3>1 DEF Held
  <2>3. CASE /\ i - (Len(still) + Len(batch)) \in 1 .. Len(pending)
             /\ i = Len(still) + Len(batch) + (i - (Len(still) + Len(batch)))
    <3>1. pending[i - (Len(still) + Len(batch))].t = t
      BY <1>2, <2>3, KeptFacts
    <3>2. QED
      BY <1>1, <2>3, <3>1 DEF Held
  <2>4. QED
    BY <2>1, <2>2, <2>3, KeptFacts, Places
<1>3. ASSUME NEW q \in {pending, batch, still}, NEW i \in DOMAIN q, q[i].t = t
      PROVE  \E k \in 1 .. Len(Kept) : Kept[k].t = t
  <2>1. CASE q = still
    <3>1. i \in 1 .. Len(Kept) /\ Kept[i] = still[i]
      BY <1>1, <2>1, KeptFacts
    <3>2. QED
      BY <1>3, <2>1, <3>1
  <2>2. CASE q = batch
    <3>1. Len(still) + i \in 1 .. Len(Kept) /\ Kept[Len(still) + i] = batch[i]
      BY <1>1, <2>2, KeptFacts
    <3>2. QED
      BY <1>3, <2>2, <3>1
  <2>3. CASE q = pending
    <3>1. /\ Len(still) + Len(batch) + i \in 1 .. Len(Kept)
          /\ Kept[Len(still) + Len(batch) + i] = pending[i]
      BY <1>1, <2>3, KeptFacts
    <3>2. QED
      BY <1>3, <2>3, <3>1
  <2>4. QED
    BY <2>1, <2>2, <2>3
<1>4. QED
  BY <1>2, <1>3 DEF Held

\* A final joins the end of what is kept; at the cap, the head of pending leaves it
\* and is acknowledged.
LEMMA FetchFinalStep ==
    ASSUME TypeInv, NEW t \in Ids, FetchFinal(t)
    PROVE  LET e   == [t |-> t, old |-> FALSE]
               all == Append(Kept, e)
               k   == Len(still) + Len(batch) + 1
           IN  /\ TypeInv'
               /\ e \in Entries /\ all \in Seq(Entries)
               /\ \/ Kept' = all /\ raw' = Taken(t) /\ UNCHANGED faults
                  \/ /\ Dropped(Kept', all, k)
                     /\ all[k].t \in Ids /\ Ack(Taken(t), all[k].t)
<1> DEFINE e == [t |-> t, old |-> FALSE]
           all == Append(Kept, e)
           k == Len(still) + Len(batch) + 1
           a == still \o batch
           queue == Append(pending, e)
<1>1. e \in Entries /\ e.t = t
  BY DEF Entries
<1> HIDE DEF e
<1>2. /\ still \in Seq(Entries) /\ batch \in Seq(Entries) /\ pending \in Seq(Entries)
      /\ Kept \in Seq(Entries) /\ Len(still) \in Nat /\ Len(batch) \in Nat
  BY KeptFacts DEF TypeInv, MemoryOK
<1>3. a \in Seq(Entries) /\ Len(a) = Len(still) + Len(batch) /\ Kept = a \o pending
  BY <1>2, ConcatProperties DEF Kept
<1>4. queue \in Seq(Entries) /\ queue # <<>> /\ queue = pending \o <<e>>
  BY <1>1, <1>2, AppendProperties, AppendIsConcat
<1>5. all \in Seq(Entries) /\ all = Kept \o <<e>>
  BY <1>1, <1>2, AppendProperties, AppendIsConcat
<1> HIDE DEF a, queue, all
<1>6. all = a \o queue
  <2>1. <<e>> \in Seq(Entries)
    BY <1>1
  <2>2. (a \o pending) \o <<e>> = a \o (pending \o <<e>>)
    BY <1>2, <1>3, <2>1, Regroup
  <2>3. QED
    BY <1>3, <1>4, <1>5, <2>2
<1>7. /\ UNCHANGED <<up, batch, still, fusing, forwarding, forward, pools, heard, final, crashes>>
      /\ \/ Len(queue) <= MAX_BUFFER /\ pending' = queue /\ raw' = Taken(t) /\ UNCHANGED faults
         \/ pending' = Tail(queue) /\ Ack(Taken(t), Head(queue).t)
  BY DEF FetchFinal, queue, e
<1>8. Fetched(t)
  BY DEF FetchFinal
<1>9. Head(queue) \in Entries /\ Tail(queue) \in Seq(Entries)
  BY <1>4, HeadTailProperties
<1>10. Head(queue).t \in Ids
  BY <1>9 DEF Entries
<1>11. pending' \in Seq(Entries)
  BY <1>4, <1>7, <1>9
<1>12. RawOK' /\ faults' \in 0 .. MaxFaults
  BY <1>7, <1>8, <1>10, AckStep, FetchedStep DEF TypeInv, RawOK, CountsOK
<1>13. MemoryOK' /\ IdleOK'
  BY <1>2, <1>7, <1>11, Zenon DEF TypeInv, MemoryOK, IdleOK
<1>14. ForwardOK' /\ PoolsOK' /\ FinalOK' /\ CountsOK'
  BY <1>7, <1>12, Zenon DEF TypeInv, ForwardOK, PoolsOK, FinalOK, CountsOK
<1>15. TypeInv'
  BY <1>12, <1>13, <1>14 DEF TypeInv
<1>16. Kept' = a \o pending'
  BY <1>7 DEF Kept, a
<1>17. CASE pending' = queue /\ raw' = Taken(t) /\ UNCHANGED faults
  BY <1>1, <1>5, <1>6, <1>15, <1>16, <1>17 DEF e, all
<1>18. CASE pending' = Tail(queue) /\ Ack(Taken(t), Head(queue).t)
  <2>1. Dropped(a \o Tail(queue) \o <<>>, a \o queue \o <<>>, Len(a) + 1)
    BY <1>3, <1>4, HeadDropped, EmptySeq
  <2>2. a \o Tail(queue) \in Seq(Entries)
    BY <1>3, <1>9, ConcatProperties
  <2>3. a \o queue \o <<>> = a \o queue /\ a \o Tail(queue) \o <<>> = a \o Tail(queue)
    BY <1>5, <1>6, <2>2, ConcatEmptySeq
  <2>4. Dropped(Kept', all, k)
    BY <1>3, <1>6, <1>16, <1>18, <2>1, <2>3
  <2>5. all[k] = Head(queue)
    <3>1. Len(queue) \in Nat /\ Len(queue) # 0 /\ Head(queue) = queue[1]
      BY <1>4, EmptySeq
    <3>2. (a \o queue)[Len(a) + 1] = queue[1]
      <4>1. Len(a) \in Nat
        BY <1>3
      <4>2. Len(a) + 1 \in 1 .. Len(a) + Len(queue)
        BY <3>1, <4>1
      <4>3. (a \o queue)[Len(a) + 1] = IF Len(a) + 1 <= Len(a) THEN a[Len(a) + 1]
                                       ELSE queue[Len(a) + 1 - Len(a)]
        BY <1>3, <1>4, <4>2, ConcatProperties
      <4>4. QED
        BY <4>1, <4>3
    <3>3. QED
      BY <1>3, <1>6, <3>1, <3>2
  <2>6. QED
    BY <1>1, <1>5, <1>10, <1>15, <1>18, <2>4, <2>5 DEF e, all
<1>19. QED
  BY <1>7, <1>17, <1>18

\* The fusion loop goes on with the entries s: it publishes one of them and awaits
\* it, or its round is over.
Advanced(s) ==
    /\ TypeInv' /\ Kept' = s
    /\ \/ fusing' = "idle" /\ UNCHANGED <<final, faults>>
       \/ \E k \in 1 .. Len(s) :
             /\ Len(still') + 1 = k /\ Head(batch') = s[k] /\ fusing' \in {"due", "lost"}
             /\ s[k].t \in Ids /\ Publish(s[k].t, Speaker(s[k].t), fusing')

LEMMA ProceedStep ==
    ASSUME TypeInv, NEW rest \in Seq(Entries), NEW kept \in Seq(Entries),
           NEW arrived \in Seq(Entries), Proceed(rest, kept, arrived),
           UNCHANGED <<up, forwarding, forward, pools, raw, heard, crashes>>
    PROVE  Advanced(kept \o rest \o arrived)
<1> DEFINE s == kept \o rest \o arrived
<1>1. /\ Len(s) = Len(kept) + Len(rest) + Len(arrived)
      /\ Len(kept) \in Nat /\ Len(rest) \in Nat /\ Len(arrived) \in Nat
      /\ \A i \in 1 .. Len(rest) : s[Len(kept) + i] = rest[i]
  BY Joined
<1>2. /\ batch' \in Seq(Entries) /\ still' \in Seq(Entries) /\ pending' \in Seq(Entries)
      /\ Kept' = s
      /\ \/ /\ batch' = <<>> /\ still' = <<>> /\ fusing' = "idle"
            /\ UNCHANGED <<final, faults>>
         \/ \E i \in 1 .. Len(rest) :
               /\ Len(still') = Len(kept) + i - 1 /\ batch' # <<>> /\ Head(batch') = rest[i]
               /\ fusing' \in {"due", "lost"}
               /\ Publish(rest[i].t, Speaker(rest[i].t), fusing')
  BY ProceedKeeps
<1> HIDE DEF s
<1>3. ForwardOK' /\ PoolsOK' /\ RawOK'
  BY Zenon DEF TypeInv, ForwardOK, PoolsOK, RawOK
<1>4. CASE batch' = <<>> /\ still' = <<>> /\ fusing' = "idle" /\ UNCHANGED <<final, faults>>
  <2>1. MemoryOK' /\ IdleOK'
    BY <1>2, <1>4, Zenon DEF MemoryOK, IdleOK
  <2>2. FinalOK' /\ CountsOK'
    BY <1>4, Zenon DEF TypeInv, FinalOK, CountsOK
  <2>3. QED
    BY <1>2, <1>3, <1>4, <2>1, <2>2 DEF Advanced, TypeInv, s
<1>5. ASSUME NEW i \in 1 .. Len(rest),
             Len(still') = Len(kept) + i - 1, batch' # <<>>, Head(batch') = rest[i],
             fusing' \in {"due", "lost"}, Publish(rest[i].t, Speaker(rest[i].t), fusing')
      PROVE  Advanced(s)
  <2>1. rest[i] \in Entries
    BY <1>1, ElementOfSeq
  <2>2. rest[i].t \in Ids
    BY <2>1 DEF Entries
  <2>3. Speaker(rest[i].t) \in Speakers
    BY <2>2, SpeakerType DEF TypeInv
  <2>4. FinalOK' /\ faults' \in 0 .. MaxFaults
    BY <1>5, <2>2, <2>3, PublishStep DEF TypeInv
  <2>5. CountsOK'
    BY <2>4, Zenon DEF TypeInv, CountsOK
  <2>6. MemoryOK' /\ IdleOK'
    <3>1. fusing' \in {"idle", "due", "lost", "next"} /\ fusing' # "idle"
      BY <1>5
    <3>2. QED
      BY <1>2, <1>5, <3>1, Zenon DEF MemoryOK, IdleOK
  <2>7. TypeInv'
    BY <1>3, <2>4, <2>5, <2>6 DEF TypeInv
  <2> DEFINE k == Len(kept) + i
  <2>8. k \in 1 .. Len(s) /\ Len(still') + 1 = k /\ s[k] = rest[i]
    BY <1>1, <1>5
  <2> HIDE DEF k
  <2>9. /\ Len(still') + 1 = k /\ Head(batch') = s[k] /\ fusing' \in {"due", "lost"}
        /\ s[k].t \in Ids /\ Publish(s[k].t, Speaker(s[k].t), fusing')
    BY <1>5, <2>2, <2>8, Zenon
  <2>10. QED
    BY <1>2, <2>7, <2>8, <2>9 DEF Advanced
<1>6. QED
  BY <1>2, <1>4, <1>5 DEF s

LEMMA RoundStep == ASSUME TypeInv, Round PROVE Advanced(Kept)
<1>1. pending \in Seq(Entries) /\ <<>> \in Seq(Entries) /\ Snapshot \in Seq(Entries)
  BY EmptySeq DEF TypeInv, MemoryOK, Snapshot
<1>2. /\ fusing = "idle" /\ Proceed(pending, <<>>, Snapshot)
      /\ UNCHANGED <<up, forwarding, forward, pools, raw, heard, crashes>>
  BY DEF Round
<1>3. Advanced(<<>> \o pending \o Snapshot)
  BY <1>1, <1>2, ProceedStep
<1>4. batch = <<>> /\ still = <<>>
  BY <1>2, Zenon DEF TypeInv, MemoryOK, IdleOK
<1>5. <<>> \o pending \o Snapshot = Kept
  <2>1. <<>> \o pending = pending /\ pending \o <<>> = pending /\ <<>> \o <<>> = <<>>
    BY <1>1, ConcatEmptySeq
  <2>2. QED
    BY <1>4, <2>1 DEF Kept, Snapshot
<1>6. QED
  BY <1>3, <1>5

\* The entry in hand is done with, and the loop goes on.
LEMMA NextEntryStep ==
    ASSUME TypeInv, NextEntry
    PROVE  LET s == still \o Tail(batch) \o pending
           IN  /\ fusing = "next" /\ batch # <<>>
               /\ Dropped(s, Kept, Len(still) + 1) /\ Advanced(s)
<1>1. /\ fusing = "next" /\ Proceed(Tail(batch), still, pending)
      /\ UNCHANGED <<up, forwarding, forward, pools, raw, heard, crashes>>
  BY DEF NextEntry
<1>2. still \in Seq(Entries) /\ batch \in Seq(Entries) /\ pending \in Seq(Entries)
  BY DEF TypeInv, MemoryOK
<1>3. batch # <<>>
  BY <1>1, Zenon DEF TypeInv, MemoryOK
<1>4. Tail(batch) \in Seq(Entries)
  BY <1>2, <1>3, HeadTailProperties
<1>5. Advanced(still \o Tail(batch) \o pending)
  BY <1>1, <1>2, <1>4, ProceedStep
<1>6. Dropped(still \o Tail(batch) \o pending, Kept, Len(still) + 1)
  BY <1>2, <1>3, HeadDropped DEF Kept
<1>7. QED
  BY <1>1, <1>3, <1>5, <1>6

\* An interim is published at once, and its publish awaited.
LEMMA FetchInterimStep ==
    ASSUME TypeInv, NEW t \in Ids, FetchInterim(t)
    PROVE  TypeInv' /\ Kept' = Kept /\ Publish(t, NoName, forward')
<1>1. /\ Fetched(t) /\ raw' = Taken(t) /\ forwarding' = t /\ forward' \in {"due", "lost"}
      /\ Publish(t, NoName, forward')
      /\ UNCHANGED <<up, pending, batch, still, fusing, pools, heard, crashes>>
  BY DEF FetchInterim
<1>2. RawOK'
  BY <1>1, FetchedStep DEF TypeInv, RawOK
<1>3. FinalOK' /\ faults' \in 0 .. MaxFaults
  BY <1>1, PublishStep DEF TypeInv, Speakers
<1>4. MemoryOK' /\ IdleOK' /\ PoolsOK' /\ ForwardOK' /\ CountsOK'
  BY <1>1, <1>3, Zenon DEF TypeInv, MemoryOK, IdleOK, PoolsOK, ForwardOK, CountsOK
<1>5. QED
  BY <1>1, <1>2, <1>3, <1>4 DEF TypeInv, Kept

\* The answer to the publish of an interim.
LEMMA ForwardReplyStep ==
    ASSUME TypeInv, ForwardReply
    PROVE  /\ TypeInv' /\ Kept' = Kept /\ forwarding \in Ids
           /\ (forward = "due" /\ Ack(raw, forwarding)) \/ forward = "lost"
<1>1. /\ forwarding \in Ids /\ forwarding' = NoId
      /\ \/ forward = "due" /\ Ack(raw, forwarding)
         \/ forward = "lost" /\ UNCHANGED <<raw, faults>>
      /\ UNCHANGED <<up, pending, batch, still, fusing, forward, pools, heard, final, crashes>>
  BY DEF ForwardReply, TypeInv, ForwardOK
<1>2. RawOK' /\ faults' \in 0 .. MaxFaults
  BY <1>1, AckStep DEF TypeInv, RawOK, CountsOK
<1>3. /\ MemoryOK' /\ IdleOK' /\ PoolsOK' /\ ForwardOK' /\ FinalOK' /\ CountsOK'
  BY <1>1, <1>2, Zenon DEF TypeInv, MemoryOK, IdleOK, PoolsOK, ForwardOK, FinalOK, CountsOK
<1>4. QED
  BY <1>1, <1>2, <1>3 DEF TypeInv, Kept

\* The answer to the publish of the entry in hand.
LEMMA PublishReplyStep ==
    ASSUME TypeInv, PublishReply
    PROVE  /\ TypeInv' /\ Kept' = Kept /\ batch # <<>> /\ Head(batch).t \in Ids
           /\ (fusing = "due" /\ Ack(raw, Head(batch).t)) \/ fusing = "lost"
<1> DEFINE t == Head(batch).t
<1>1. /\ fusing \in {"due", "lost"} /\ fusing' = "next"
      /\ \/ fusing = "due" /\ Ack(raw, t)
         \/ /\ fusing = "lost"
            /\ \/ /\ raw' = [raw EXCEPT ![t] = IF @ = "out" THEN "again" ELSE @]
                  /\ UNCHANGED faults
               \/ UNCHANGED raw /\ Fault
      /\ UNCHANGED <<up, pending, batch, still, forwarding, forward, pools, heard,
                     final, crashes>>
  BY DEF PublishReply
<1>2. batch # <<>> /\ Head(batch).t \in Ids
  <2>1. batch # <<>>
    BY <1>1, Zenon DEF TypeInv, MemoryOK
  <2>2. QED
    BY <2>1, KeptFacts DEF TypeInv
<1> HIDE DEF t
<1>3. t \in Ids
  BY <1>2 DEF t
<1>4. RawOK' /\ faults' \in 0 .. MaxFaults
  <2>1. CASE Ack(raw, t)
    BY <1>3, <2>1, AckStep DEF TypeInv, RawOK
  <2>2. CASE /\ raw' = [raw EXCEPT ![t] = IF @ = "out" THEN "again" ELSE @]
             /\ UNCHANGED faults
    BY <1>3, <2>2 DEF TypeInv, RawOK, RawStates, CountsOK
  <2>3. CASE UNCHANGED raw /\ Fault
    BY <2>3, LimitsAssumption DEF TypeInv, RawOK, CountsOK, Fault
  <2>4. QED
    BY <1>1, <2>1, <2>2, <2>3
<1>5. MemoryOK' /\ IdleOK' /\ ForwardOK' /\ PoolsOK' /\ FinalOK' /\ CountsOK'
  <2>1. fusing' # "idle" /\ fusing # "idle" /\ fusing' \in {"idle", "due", "lost", "next"}
    BY <1>1
  <2>2. QED
    BY <1>1, <1>4, <2>1, Zenon
       DEF TypeInv, MemoryOK, IdleOK, ForwardOK, PoolsOK, FinalOK, CountsOK
<1>6. QED
  BY <1>1, <1>2, <1>4, <1>5 DEF TypeInv, Kept, t

LEMMA HearStep == ASSUME TypeInv, Hear PROVE TypeInv' /\ Kept' = Kept
<1>1. /\ heard < Len(Identities)
      /\ pools' = [pools EXCEPT !["live"] = Remember(@, heard + 1)]
      /\ \/ heard' = heard + 1 /\ UNCHANGED faults
         \/ UNCHANGED heard /\ Fault
      /\ UNCHANGED <<up, memory, raw, final, crashes>>
  BY DEF Hear, PayloadSource
<1>2. heard + 1 \in DOMAIN Identities
  BY <1>1, IdentitiesAreNumbers DEF TypeInv, CountsOK
<1>3. PoolsOK'
  <2>1. pools["live"] \in Seq(DOMAIN Identities)
    BY DEF TypeInv, PoolsOK, Sources
  <2>2. Remember(pools["live"], heard + 1) \in Seq(DOMAIN Identities)
    BY <1>2, <2>1, RememberType
  <2>3. QED
    BY <1>1, <2>2, Zenon DEF TypeInv, PoolsOK
<1>4. heard' \in 0 .. Len(Identities) /\ faults' \in 0 .. MaxFaults
  BY <1>1, IdentitiesAreNumbers, LimitsAssumption DEF TypeInv, CountsOK, Fault
<1>5. MemoryOK' /\ IdleOK' /\ ForwardOK' /\ RawOK' /\ FinalOK' /\ CountsOK'
  BY <1>1, <1>4, Zenon
     DEF TypeInv, MemoryOK, IdleOK, ForwardOK, RawOK, FinalOK, CountsOK, memory
<1>6. QED
  BY <1>1, <1>3, <1>5 DEF TypeInv, Kept, memory

\* An entry turns old, and stays where it is.
LEMMA AgeStep ==
    ASSUME TypeInv, Age
    PROVE  /\ TypeInv' /\ Len(Kept') = Len(Kept)
           /\ \A i \in 1 .. Len(Kept) : Kept'[i].t = Kept[i].t
<1>1. PICK k \in DOMAIN pending : pending' = [pending EXCEPT ![k].old = TRUE]
  BY DEF Age
<1>2. UNCHANGED <<up, batch, still, fusing, forwarding, forward, pools, raw, heard, final,
                  faults, crashes>>
  BY DEF Age
<1>3. /\ still \in Seq(Entries) /\ batch \in Seq(Entries) /\ pending \in Seq(Entries)
      /\ DOMAIN pending = 1 .. Len(pending) /\ Len(pending) \in Nat
  BY LenProperties DEF TypeInv, MemoryOK
<1>4. /\ pending' \in Seq(Entries) /\ Len(pending') = Len(pending)
      /\ \A i \in 1 .. Len(pending) : pending'[i].t = pending[i].t
  <2> DEFINE e == [pending[k] EXCEPT !.old = TRUE]
  <2>1. pending[k] \in Entries
    BY <1>3, ElementOfSeq
  <2>2. e \in Entries /\ e.t = pending[k].t
    BY <2>1 DEF Entries
  <2>3. pending' = [pending EXCEPT ![k] = e]
    BY <1>1
  <2> HIDE DEF e
  <2>4. pending' \in Seq(Entries) /\ Len(pending') = Len(pending)
    BY <1>3, <2>2, <2>3, ExceptSeq
  <2>5. \A i \in 1 .. Len(pending) : pending'[i] = IF i = k THEN e ELSE pending[i]
    BY <1>3, <2>3
  <2>6. QED
    BY <2>2, <2>4, <2>5
<1>5. MemoryOK' /\ IdleOK' /\ ForwardOK' /\ PoolsOK' /\ RawOK' /\ FinalOK' /\ CountsOK'
  BY <1>2, <1>4, Zenon
     DEF TypeInv, MemoryOK, IdleOK, ForwardOK, PoolsOK, RawOK, FinalOK, CountsOK
<1> DEFINE m == Len(still)
           n == Len(batch)
           p == pending'
           K == still \o batch \o p
<1>6. Kept' = K /\ p \in Seq(Entries) /\ Len(p) = Len(pending)
      /\ \A i \in 1 .. Len(pending) : p[i].t = pending[i].t
  BY <1>2, <1>4 DEF Kept
<1> HIDE DEF p
<1>7. /\ Len(K) = m + n + Len(p) /\ m \in Nat /\ n \in Nat
      /\ \A i \in 1 .. m : K[i] = still[i]
      /\ \A i \in 1 .. n : K[m + i] = batch[i]
      /\ \A i \in 1 .. Len(p) : K[m + n + i] = p[i]
  <2>1. p \in Seq(Entries) /\ still \in Seq(Entries) /\ batch \in Seq(Entries)
    BY <1>3, <1>6
  <2>2. QED
    BY <2>1, Joined
<1>8. /\ Len(Kept) = m + n + Len(pending)
      /\ \A i \in 1 .. m : Kept[i] = still[i]
      /\ \A i \in 1 .. n : Kept[m + i] = batch[i]
      /\ \A i \in 1 .. Len(pending) : Kept[m + n + i] = pending[i]
  BY KeptFacts DEF TypeInv
<1> HIDE DEF K, m, n
<1>9. ASSUME NEW i \in 1 .. m + n + Len(pending) PROVE K[i].t = Kept[i].t
  <2>1. CASE i \in 1 .. m
    BY <1>7, <1>8, <2>1
  <2>2. CASE i - m \in 1 .. n /\ i = m + (i - m)
    <3>1. K[i] = batch[i - m] /\ Kept[i] = batch[i - m]
      BY <1>7, <1>8, <2>2
    <3>2. QED
      BY <3>1
  <2>3. CASE i - (m + n) \in 1 .. Len(pending) /\ i = m + n + (i - (m + n))
    <3>1. K[i] = p[i - (m + n)] /\ Kept[i] = pending[i - (m + n)]
      BY <1>6, <1>7, <1>8, <2>3
    <3>2. QED
      BY <1>6, <2>3, <3>1
  <2>4. m \in Nat /\ n \in Nat /\ Len(pending) \in Nat
    BY <1>3, <1>7
  <2>5. \/ i \in 1 .. m
        \/ i - m \in 1 .. n /\ i = m + (i - m)
        \/ i - (m + n) \in 1 .. Len(pending) /\ i = m + n + (i - (m + n))
    BY <2>4, Places
  <2>6. QED
    BY <2>1, <2>2, <2>3, <2>5
<1>10. QED
  BY <1>5, <1>6, <1>7, <1>8, <1>9 DEF TypeInv

\* The environment leaves the memory alone.
LEMMA ServerStep ==
    ASSUME TypeInv, NEW t \in Ids, Say(t) \/ Redeliver(t) \/ RedeliverHeld(t)
    PROVE  TypeInv' /\ Kept' = Kept
<1>1. /\ UNCHANGED <<up, memory, pools, heard, final, crashes>>
      /\ \/ raw' = [raw EXCEPT ![t] = "new"] /\ UNCHANGED faults
         \/ raw' = [raw EXCEPT ![t] = "again"] /\ UNCHANGED faults
         \/ raw' = [raw EXCEPT ![t] = "again"] /\ Fault
  BY DEF Say, Redeliver, RedeliverHeld
<1>2. RawOK' /\ faults' \in 0 .. MaxFaults
  BY <1>1, LimitsAssumption DEF TypeInv, RawOK, RawStates, CountsOK, Fault
<1>3. MemoryOK' /\ IdleOK' /\ ForwardOK' /\ PoolsOK' /\ FinalOK' /\ CountsOK'
  BY <1>1, <1>2, Zenon
     DEF TypeInv, MemoryOK, IdleOK, ForwardOK, PoolsOK, FinalOK, CountsOK, memory
<1>4. QED
  BY <1>1, <1>2, <1>3 DEF TypeInv, Kept, memory

LEMMA BootStep == ASSUME TypeInv, Boot PROVE TypeInv' /\ Kept' = Kept
<1>1. up' = TRUE /\ UNCHANGED <<memory, pools, raw, heard, final, faults, crashes>>
  BY DEF Boot
<1>2. QED
  BY <1>1, Zenon
     DEF TypeInv, MemoryOK, IdleOK, ForwardOK, PoolsOK, RawOK, FinalOK, CountsOK, memory, Kept

LEMMA CrashStep == ASSUME TypeInv, Crash PROVE TypeInv' /\ Kept' = <<>> /\ crashes' > 0
<1>1. /\ crashes < MaxCrashes /\ up' = FALSE /\ crashes' = crashes + 1
      /\ pending' = <<>> /\ batch' = <<>> /\ still' = <<>> /\ fusing' = "idle"
      /\ forwarding' = NoId /\ forward' = "due"
      /\ pools' = [s \in Sources |-> <<>>]
      /\ UNCHANGED <<raw, heard, final, faults>>
  BY DEF Crash
<1>2. crashes' \in 0 .. MaxCrashes /\ crashes' > 0
  BY <1>1, LimitsAssumption DEF TypeInv, CountsOK
<1>3. MemoryOK' /\ IdleOK' /\ ForwardOK'
  BY <1>1, EmptySeq DEF MemoryOK, IdleOK, ForwardOK
<1>4. PoolsOK'
  BY <1>1, EmptySeq, Zenon DEF PoolsOK
<1>5. RawOK' /\ FinalOK' /\ CountsOK'
  BY <1>1, <1>2, Zenon DEF TypeInv, RawOK, FinalOK, CountsOK
<1>6. Kept' = <<>>
  <2>1. <<>> \o <<>> = <<>>
    BY ConcatEmptySeq, EmptySeq
  <2>2. QED
    BY <1>1, <2>1 DEF Kept
<1>7. QED
  BY <1>2, <1>3, <1>4, <1>5, <1>6 DEF TypeInv

LEMMA NextTypeInv == TypeInv /\ [Next]_vars => TypeInv'
<1> SUFFICES ASSUME TypeInv, [Next]_vars PROVE TypeInv'
  OBVIOUS
<1>1. ASSUME NEW t \in Ids, FetchFinal(t) PROVE TypeInv'
  BY <1>1, FetchFinalStep
<1>2. ASSUME NEW t \in Ids, FetchInterim(t) PROVE TypeInv'
  BY <1>2, FetchInterimStep
<1>3. CASE ForwardReply
  BY <1>3, ForwardReplyStep
<1>4. CASE Hear
  BY <1>4, HearStep
<1>5. CASE Round
  BY <1>5, RoundStep DEF Advanced
<1>6. CASE PublishReply
  BY <1>6, PublishReplyStep
<1>7. CASE NextEntry
  BY <1>7, NextEntryStep DEF Advanced
<1>8. CASE Age
  BY <1>8, AgeStep
<1>9. CASE Crash
  BY <1>9, CrashStep
<1>10. CASE Boot
  BY <1>10, BootStep
<1>11. ASSUME NEW t \in Ids, Say(t) \/ Redeliver(t) \/ RedeliverHeld(t) PROVE TypeInv'
  BY <1>11, ServerStep
<1>12. CASE UNCHANGED vars
  BY <1>12, Zenon
     DEF TypeInv, MemoryOK, IdleOK, ForwardOK, PoolsOK, RawOK, FinalOK, CountsOK, memory, vars
<1>13. QED
  BY <1>1, <1>2, <1>3, <1>4, <1>5, <1>6, <1>7, <1>8, <1>9, <1>10, <1>11, <1>12
     DEF Next, Subscriber, Fusion

\* Every variable keeps its type, in every behaviour of the service.
THEOREM TypeCorrect == Spec => []TypeOK
<1>1. Spec => []TypeInv
  BY InitTypeInv, NextTypeInv, PTL DEF Spec
<1>2. QED
  BY <1>1, TypeInvTypeOK, PTL
-----------------------------------------------------------------------------
(* What is acknowledged while it is held.                                    *)

OnceIn(s) == \A i, j \in 1 .. Len(s) : s[i].t = s[j].t => i = j

\* t waits for its ack, or has been published.
Owned(t) == raw[t] = "out" \/ (raw[t] = "acked" /\ final[t] # <<>>)

FusingCalm  == fusing # "lost" /\ (fusing = "due" => final[Head(batch).t] # <<>>)
ForwardCalm == forwarding # NoId => /\ forward = "due" /\ final[forwarding] # <<>>
                                    /\ Owned(forwarding) /\ ~Transcripts[forwarding].is_final
KeptCalm    == /\ OnceIn(Kept)
               /\ \A i \in 1 .. Len(Kept) : Transcripts[Kept[i].t].is_final /\ Owned(Kept[i].t)

\* While no call is lost, every transcript is held once, by one task, and is owned.
CalmInv == faults = 0 => FusingCalm /\ ForwardCalm /\ KeptCalm

LEMMA CountFacts == TypeInv => faults \in Nat /\ crashes \in Nat
  BY LimitsAssumption DEF TypeInv, CountsOK

\* Where the entries are after one of them is dropped.
LEMMA DroppedFacts ==
    ASSUME NEW s1 \in Seq(Entries), NEW s2 \in Seq(Entries), NEW k, Dropped(s2, s1, k)
    PROVE  /\ k \in 1 .. Len(s1)
           /\ \A i \in 1 .. Len(s2) : \E j \in 1 .. Len(s1) : j # k /\ s2[i] = s1[j]
           /\ \A i \in 1 .. Len(s2) : i < k => i \in 1 .. Len(s1) /\ s2[i] = s1[i]
           /\ \A j \in 1 .. Len(s1) : j # k => \E i \in 1 .. Len(s2) : s2[i] = s1[j]
           /\ OnceIn(s1) => /\ OnceIn(s2)
                            /\ \A i \in 1 .. Len(s2) : s2[i].t # s1[k].t
<1> DEFINE from(i) == IF i < k THEN i ELSE i + 1
<1>1. /\ Len(s1) \in Nat /\ Len(s2) \in Nat /\ Len(s2) = Len(s1) - 1 /\ k \in 1 .. Len(s1)
      /\ \A i \in 1 .. Len(s2) : s2[i] = s1[from(i)]
  BY LenProperties DEF Dropped
<1>2. \A i \in 1 .. Len(s2) : from(i) \in 1 .. Len(s1) /\ from(i) # k
  BY <1>1
<1>3. \A i, j \in 1 .. Len(s2) : from(i) = from(j) => i = j
  BY <1>1
<1>4. \A i \in 1 .. Len(s2) : i < k => from(i) = i
  OBVIOUS
<1>5. \A j \in 1 .. Len(s1) : j # k => \E i \in 1 .. Len(s2) : from(i) = j
  <2> SUFFICES ASSUME NEW j \in 1 .. Len(s1), j # k
               PROVE  \E i \in 1 .. Len(s2) : from(i) = j
    OBVIOUS
  <2>1. CASE j < k
    BY <1>1, <2>1
  <2>2. CASE j > k
    <3>1. j - 1 \in 1 .. Len(s2) /\ from(j - 1) = j
      BY <1>1, <2>2
    <3>2. QED
      BY <3>1
  <2>3. QED
    BY <1>1, <2>1, <2>2
<1> HIDE DEF from
<1>6. \A i \in 1 .. Len(s2) : \E j \in 1 .. Len(s1) : j # k /\ s2[i] = s1[j]
  BY <1>1, <1>2
<1>7. \A i \in 1 .. Len(s2) : i < k => i \in 1 .. Len(s1) /\ s2[i] = s1[i]
  BY <1>1, <1>2, <1>4
<1>8. \A j \in 1 .. Len(s1) : j # k => \E i \in 1 .. Len(s2) : s2[i] = s1[j]
  BY <1>1, <1>5
<1>9. ASSUME OnceIn(s1)
      PROVE  OnceIn(s2) /\ \A i \in 1 .. Len(s2) : s2[i].t # s1[k].t
  <2>1. ASSUME NEW i \in 1 .. Len(s2), NEW j \in 1 .. Len(s2), s2[i].t = s2[j].t
        PROVE  i = j
    <3>1. s1[from(i)].t = s1[from(j)].t
      BY <1>1, <2>1
    <3>2. from(i) = from(j)
      BY <1>2, <1>9, <3>1 DEF OnceIn
    <3>3. QED
      BY <1>3, <3>2
  <2>2. ASSUME NEW i \in 1 .. Len(s2) PROVE s2[i].t # s1[k].t
    BY <1>1, <1>2, <1>9 DEF OnceIn
  <2>3. QED
    BY <2>1, <2>2 DEF OnceIn
<1>10. QED
  BY <1>1, <1>6, <1>7, <1>8, <1>9

\* An entry of a transcript that is not kept joins the others.
LEMMA OnceAppend ==
    ASSUME NEW s \in Seq(Entries), NEW e \in Entries, OnceIn(s),
           \A i \in 1 .. Len(s) : s[i].t # e.t
    PROVE  /\ OnceIn(Append(s, e)) /\ Append(s, e) \in Seq(Entries)
           /\ Len(Append(s, e)) = Len(s) + 1
           /\ \A i \in 1 .. Len(s) : Append(s, e)[i] = s[i]
           /\ Append(s, e)[Len(s) + 1] = e
           /\ \A i \in 1 .. Len(s) + 1 : i \in 1 .. Len(s) \/ i = Len(s) + 1
<1> DEFINE all == Append(s, e)
<1>1. /\ Len(all) = Len(s) + 1 /\ Len(s) \in Nat /\ all \in Seq(Entries)
      /\ \A i \in 1 .. Len(s) : all[i] = s[i]
      /\ all[Len(s) + 1] = e
  BY AppendProperties, LenProperties
<1> HIDE DEF all
<1>2. \A i \in 1 .. Len(s) + 1 : i \in 1 .. Len(s) \/ i = Len(s) + 1
  BY <1>1
<1>3. ASSUME NEW i \in 1 .. Len(all), NEW j \in 1 .. Len(all), all[i].t = all[j].t
      PROVE  i = j
  <2>1. CASE i \in 1 .. Len(s) /\ j \in 1 .. Len(s)
    BY <1>1, <1>3, <2>1 DEF OnceIn
  <2>2. CASE i \in 1 .. Len(s) /\ j = Len(s) + 1
    BY <1>1, <1>3, <2>2
  <2>3. CASE i = Len(s) + 1 /\ j \in 1 .. Len(s)
    BY <1>1, <1>3, <2>3
  <2>4. CASE i = Len(s) + 1 /\ j = Len(s) + 1
    BY <2>4
  <2>5. QED
    BY <1>1, <1>2, <2>1, <2>2, <2>3, <2>4
<1>4. QED
  BY <1>1, <1>2, <1>3 DEF OnceIn, all

LEMMA FetchFinalCalm ==
    ASSUME TypeInv, CalmInv, NEW t \in Ids, FetchFinal(t)
    PROVE  CalmInv'
<1> SUFFICES ASSUME faults' = 0 PROVE FusingCalm' /\ ForwardCalm' /\ KeptCalm'
  BY DEF CalmInv
<1> DEFINE e   == [t |-> t, old |-> FALSE]
           all == Append(Kept, e)
           k   == Len(still) + Len(batch) + 1
<1>1. /\ TypeInv' /\ e \in Entries /\ e.t = t
      /\ \/ Kept' = all /\ raw' = Taken(t) /\ UNCHANGED faults
         \/ Dropped(Kept', all, k) /\ all[k].t \in Ids /\ Ack(Taken(t), all[k].t)
  BY FetchFinalStep
<1>2. /\ Fetched(t) /\ Transcripts[t].is_final
      /\ UNCHANGED <<batch, fusing, forwarding, forward, final>>
  BY DEF FetchFinal
<1>3. /\ Taken(t) \in [Ids -> RawStates] /\ Taken(t)[t] = "out"
      /\ \A u \in Ids : u # t => Taken(t)[u] = raw[u]
      /\ raw[t] \in {"new", "again"} /\ forwarding = NoId
  BY <1>2, FetchedStep DEF TypeInv
<1>4. faults = 0 /\ FusingCalm /\ KeptCalm
  <2>1. faults = 0
    BY <1>1, <1>3, AckStep DEF TypeInv
  <2>2. QED
    BY <2>1 DEF CalmInv
<1>5. Kept \in Seq(Entries) /\ \A i \in 1 .. Len(Kept) : Kept[i].t \in Ids
  BY KeptFacts DEF TypeInv
<1>6. \A i \in 1 .. Len(Kept) : Kept[i].t # t /\ Owned(Kept[i].t)
  BY <1>3, <1>4 DEF KeptCalm, Owned
<1> HIDE DEF e
<1>7. /\ OnceIn(all) /\ all \in Seq(Entries) /\ Len(all) = Len(Kept) + 1
      /\ \A i \in 1 .. Len(Kept) : all[i] = Kept[i]
      /\ all[Len(Kept) + 1] = e
      /\ \A i \in 1 .. Len(Kept) + 1 : i \in 1 .. Len(Kept) \/ i = Len(Kept) + 1
  BY <1>1, <1>4, <1>5, <1>6, OnceAppend DEF KeptCalm
<1> HIDE DEF all, k
<1>8. \A i \in 1 .. Len(all) : /\ all[i].t \in Ids /\ Transcripts[all[i].t].is_final
                               /\ Taken(t)[all[i].t] = "out" \/ Owned(all[i].t)
                               /\ all[i].t # t => Taken(t)[all[i].t] = raw[all[i].t]
  <2>1. \A i \in 1 .. Len(Kept) : Transcripts[Kept[i].t].is_final
    BY <1>4 DEF KeptCalm
  <2>2. QED
    BY <1>1, <1>2, <1>3, <1>5, <1>6, <1>7, <2>1
<1>9. FusingCalm' /\ ForwardCalm'
  BY <1>2, <1>3, <1>4 DEF FusingCalm, ForwardCalm
<1>10. CASE Kept' = all /\ raw' = Taken(t)
  BY <1>2, <1>3, <1>7, <1>8, <1>9, <1>10 DEF KeptCalm, Owned
<1>11. CASE Dropped(Kept', all, k) /\ all[k].t \in Ids /\ Ack(Taken(t), all[k].t)
  <2>1. \A u \in Ids : u # all[k].t => raw'[u] = Taken(t)[u]
    BY <1>3, <1>11, AckStep DEF TypeInv
  <2>2. Kept' \in Seq(Entries)
    BY <1>1 DEF TypeInv, MemoryOK, Kept, Dropped
  <2>3. /\ OnceIn(Kept')
        /\ \A i \in 1 .. Len(Kept') : Kept'[i].t # all[k].t
        /\ \A i \in 1 .. Len(Kept') : \E j \in 1 .. Len(all) : Kept'[i] = all[j]
    BY <1>7, <1>11, <2>2, DroppedFacts
  <2>4. ASSUME NEW i \in 1 .. Len(Kept')
        PROVE  /\ Transcripts[Kept'[i].t].is_final
               /\ \/ raw'[Kept'[i].t] = "out"
                  \/ raw'[Kept'[i].t] = "acked" /\ final'[Kept'[i].t] # <<>>
    <3>1. PICK j \in 1 .. Len(all) : Kept'[i] = all[j]
      BY <2>3
    <3>2. raw'[all[j].t] = Taken(t)[all[j].t]
      BY <1>8, <2>1, <2>3, <3>1
    <3>3. QED
      BY <1>2, <1>3, <1>8, <3>1, <3>2 DEF Owned
  <2>5. QED
    BY <1>9, <2>3, <2>4 DEF KeptCalm, Owned
<1>12. QED
  BY <1>1, <1>10, <1>11

LEMMA FetchInterimCalm ==
    ASSUME TypeInv, CalmInv, NEW t \in Ids, FetchInterim(t)
    PROVE  CalmInv'
<1> SUFFICES ASSUME faults' = 0 PROVE FusingCalm' /\ ForwardCalm' /\ KeptCalm'
  BY DEF CalmInv
<1>1. /\ Fetched(t) /\ ~Transcripts[t].is_final /\ raw' = Taken(t) /\ forwarding' = t
      /\ UNCHANGED <<batch, fusing>>
  BY DEF FetchInterim
<1>2. Kept' = Kept /\ Publish(t, NoName, forward')
  BY FetchInterimStep
<1>3. /\ faults = 0 /\ forward' = "due" /\ final'[t] # <<>>
      /\ \A u \in Ids : u # t => final'[u] = final[u]
      /\ \A u \in Ids : final[u] # <<>> => final'[u] # <<>>
  <2>1. NoName \in Speakers
    BY DEF Speakers
  <2>2. FinalOK /\ CountsOK
    BY DEF TypeInv
  <2>3. QED
    BY <1>2, <2>1, <2>2, PublishStep
<1>4. raw'[t] = "out" /\ \A u \in Ids : u # t => raw'[u] = raw[u]
  BY <1>1, FetchedStep DEF TypeInv
<1>5. FusingCalm /\ KeptCalm
  BY <1>3 DEF CalmInv
<1>6. \A i \in 1 .. Len(Kept) : Kept[i].t \in Ids /\ Kept[i].t # t
  BY <1>1, <1>5, KeptFacts DEF TypeInv, KeptCalm
<1>7. KeptCalm'
  BY <1>2, <1>3, <1>4, <1>5, <1>6 DEF KeptCalm, Owned
<1>8. FusingCalm'
  <2>1. fusing = "due" => Head(batch).t \in Ids
    BY KeptFacts DEF TypeInv, MemoryOK
  <2>2. QED
    BY <1>1, <1>3, <1>5, <2>1 DEF FusingCalm
<1>9. ForwardCalm'
  BY <1>1, <1>3, <1>4 DEF ForwardCalm, Owned
<1>10. QED
  BY <1>7, <1>8, <1>9

LEMMA ForwardReplyCalm ==
    ASSUME TypeInv, CalmInv, ForwardReply
    PROVE  CalmInv'
<1> SUFFICES ASSUME faults' = 0 PROVE FusingCalm' /\ ForwardCalm' /\ KeptCalm'
  BY DEF CalmInv
<1>1. /\ Kept' = Kept /\ forwarding \in Ids
      /\ (forward = "due" /\ Ack(raw, forwarding)) \/ forward = "lost"
  BY ForwardReplyStep
<1>2. /\ forwarding # NoId /\ forwarding' = NoId /\ UNCHANGED <<batch, fusing, final>>
      /\ forward = "lost" => UNCHANGED faults
  BY DEF ForwardReply
<1>3. faults = 0
  BY <1>1, <1>2, AckStep DEF TypeInv, RawOK
<1>4. FusingCalm /\ ForwardCalm /\ KeptCalm
  BY <1>3 DEF CalmInv
<1>5. Ack(raw, forwarding) /\ \A u \in Ids : u # forwarding => raw'[u] = raw[u]
  BY <1>1, <1>2, <1>4, AckStep DEF TypeInv, RawOK, ForwardCalm
<1>6. \A i \in 1 .. Len(Kept) : Kept[i].t \in Ids /\ Kept[i].t # forwarding
  BY <1>2, <1>4, KeptFacts DEF TypeInv, KeptCalm, ForwardCalm
<1>7. KeptCalm'
  BY <1>1, <1>2, <1>4, <1>5, <1>6 DEF KeptCalm, Owned
<1>8. QED
  BY <1>2, <1>4, <1>7 DEF FusingCalm, ForwardCalm

LEMMA PublishReplyCalm ==
    ASSUME TypeInv, CalmInv, PublishReply
    PROVE  CalmInv'
<1> SUFFICES ASSUME faults' = 0 PROVE FusingCalm' /\ ForwardCalm' /\ KeptCalm'
  BY DEF CalmInv
<1> DEFINE h == Head(batch).t
<1>1. /\ Kept' = Kept /\ batch # <<>> /\ h \in Ids
      /\ (fusing = "due" /\ Ack(raw, h)) \/ fusing = "lost"
  BY PublishReplyStep
<1>2. /\ fusing' = "next" /\ UNCHANGED <<batch, forwarding, forward, final>>
      /\ fusing = "lost" => UNCHANGED faults \/ faults' = faults + 1
  BY DEF PublishReply, Fault
<1> HIDE DEF h
<1>3. faults = 0
  BY <1>1, <1>2, AckStep, CountFacts DEF TypeInv, RawOK
<1>4. FusingCalm /\ ForwardCalm /\ KeptCalm
  BY <1>3 DEF CalmInv
<1>5. raw'[h] = "acked" /\ \A u \in Ids : u # h => raw'[u] = raw[u]
  BY <1>1, <1>4, AckStep DEF TypeInv, RawOK, FusingCalm
<1>6. final[h] # <<>>
  BY <1>1, <1>4 DEF FusingCalm, h
<1>7. KeptCalm'
  <2>1. \A i \in 1 .. Len(Kept) : Kept[i].t \in Ids
    BY KeptFacts DEF TypeInv
  <2>2. QED
    BY <1>1, <1>2, <1>4, <1>5, <1>6, <2>1 DEF KeptCalm, Owned
<1>8. ForwardCalm'
  BY <1>2, <1>4, <1>5, <1>6 DEF TypeInv, ForwardOK, ForwardCalm, Owned
<1>9. FusingCalm'
  BY <1>2 DEF FusingCalm
<1>10. QED
  BY <1>7, <1>8, <1>9

\* The fusion loop goes on with entries that are held once and owned.
LEMMA AdvancedCalm ==
    ASSUME TypeInv, CalmInv, NEW s \in Seq(Entries), Advanced(s),
           UNCHANGED <<forwarding, forward, raw>>,
           faults = 0 => /\ OnceIn(s)
                         /\ \A i \in 1 .. Len(s) : /\ s[i].t \in Ids /\ Owned(s[i].t)
                                                   /\ Transcripts[s[i].t].is_final
    PROVE  CalmInv'
<1> SUFFICES ASSUME faults' = 0 PROVE FusingCalm' /\ ForwardCalm' /\ KeptCalm'
  BY DEF CalmInv
<1>1. /\ TypeInv' /\ Kept' = s
      /\ \/ fusing' = "idle" /\ UNCHANGED <<final, faults>>
         \/ \E k \in 1 .. Len(s) :
               /\ Len(still') + 1 = k /\ Head(batch') = s[k] /\ fusing' \in {"due", "lost"}
               /\ s[k].t \in Ids /\ Publish(s[k].t, Speaker(s[k].t), fusing')
  BY DEF Advanced
<1>2. ASSUME NEW k \in 1 .. Len(s), s[k].t \in Ids, Head(batch') = s[k],
             Publish(s[k].t, Speaker(s[k].t), fusing')
      PROVE  /\ faults = 0 /\ FusingCalm'
             /\ \A u \in Ids : final[u] # <<>> => final'[u] # <<>>
  <2>1. Speaker(s[k].t) \in Speakers
    BY <1>2, SpeakerType DEF TypeInv
  <2>2. QED
    BY <1>2, <2>1, PublishStep DEF TypeInv, FusingCalm
<1>3. /\ faults = 0 /\ FusingCalm'
      /\ \A u \in Ids : final[u] # <<>> => final'[u] # <<>>
  BY <1>1, <1>2 DEF FusingCalm
<1>4. KeptCalm'
  BY <1>1, <1>3 DEF KeptCalm, Owned
<1>5. ForwardCalm'
  BY <1>3 DEF TypeInv, ForwardOK, CalmInv, ForwardCalm, Owned
<1>6. QED
  BY <1>3, <1>4, <1>5

LEMMA RoundCalm == ASSUME TypeInv, CalmInv, Round PROVE CalmInv'
<1>1. Kept \in Seq(Entries) /\ Advanced(Kept)
  BY RoundStep, KeptFacts DEF TypeInv
<1>2. UNCHANGED <<forwarding, forward, raw>>
  BY DEF Round
<1>3. faults = 0 => /\ OnceIn(Kept)
                    /\ \A i \in 1 .. Len(Kept) : /\ Kept[i].t \in Ids /\ Owned(Kept[i].t)
                                                 /\ Transcripts[Kept[i].t].is_final
  BY KeptFacts DEF TypeInv, CalmInv, KeptCalm
<1>4. QED
  BY <1>1, <1>2, <1>3, AdvancedCalm

\* What remains of the entries when the one in hand is done with.
LEMMA NextEntryRest ==
    ASSUME TypeInv, NextEntry
    PROVE  LET s == still \o Tail(batch) \o pending
           IN  /\ s \in Seq(Entries) /\ Advanced(s)
               /\ Head(batch) = Kept[Len(still) + 1] /\ Len(still) + 1 \in 1 .. Len(Kept)
               /\ \A i \in 1 .. Len(s) :
                     \E j \in 1 .. Len(Kept) : j # Len(still) + 1 /\ s[i] = Kept[j]
               /\ \A j \in 1 .. Len(Kept) :
                     j # Len(still) + 1 => \E i \in 1 .. Len(s) : s[i] = Kept[j]
               /\ OnceIn(Kept) => OnceIn(s)
<1> DEFINE s == still \o Tail(batch) \o pending
<1>1. /\ fusing = "next" /\ batch # <<>>
      /\ Dropped(s, Kept, Len(still) + 1) /\ Advanced(s)
  BY NextEntryStep
<1>2. s \in Seq(Entries) /\ Kept \in Seq(Entries)
  <2>1. still \in Seq(Entries) /\ batch \in Seq(Entries) /\ pending \in Seq(Entries)
    BY DEF TypeInv, MemoryOK
  <2>2. Tail(batch) \in Seq(Entries)
    BY <1>1, <2>1, HeadTailProperties
  <2>3. QED
    BY <2>1, <2>2, Joined DEF Kept
<1> HIDE DEF s
<1>3. Head(batch) = Kept[Len(still) + 1] /\ Len(still) + 1 \in 1 .. Len(Kept)
  BY <1>1, KeptFacts DEF TypeInv
<1>4. /\ \A i \in 1 .. Len(s) :
            \E j \in 1 .. Len(Kept) : j # Len(still) + 1 /\ s[i] = Kept[j]
      /\ \A j \in 1 .. Len(Kept) :
            j # Len(still) + 1 => \E i \in 1 .. Len(s) : s[i] = Kept[j]
      /\ OnceIn(Kept) => OnceIn(s)
  BY <1>1, <1>2, DroppedFacts
<1>5. QED
  BY <1>1, <1>2, <1>3, <1>4 DEF s

LEMMA NextEntryCalm == ASSUME TypeInv, CalmInv, NextEntry PROVE CalmInv'
<1> DEFINE s == still \o Tail(batch) \o pending
<1>1. /\ s \in Seq(Entries) /\ Advanced(s)
      /\ \A i \in 1 .. Len(s) : \E j \in 1 .. Len(Kept) : s[i] = Kept[j]
      /\ OnceIn(Kept) => OnceIn(s)
  BY NextEntryRest
<1> HIDE DEF s
<1>2. UNCHANGED <<forwarding, forward, raw>>
  BY DEF NextEntry
<1>3. faults = 0 => \A j \in 1 .. Len(Kept) : /\ Kept[j].t \in Ids /\ Owned(Kept[j].t)
                                              /\ Transcripts[Kept[j].t].is_final
  BY KeptFacts DEF TypeInv, CalmInv, KeptCalm
<1>4. faults = 0 => /\ OnceIn(s)
                    /\ \A i \in 1 .. Len(s) : /\ s[i].t \in Ids /\ Owned(s[i].t)
                                              /\ Transcripts[s[i].t].is_final
  BY <1>1, <1>3 DEF CalmInv, KeptCalm
<1>5. QED
  BY <1>1, <1>2, <1>4, AdvancedCalm

\* The server offers nothing again that is held, unless a call was lost.
LEMMA ServerCalm ==
    ASSUME TypeInv, CalmInv, NEW t \in Ids, Say(t) \/ Redeliver(t) \/ RedeliverHeld(t)
    PROVE  CalmInv'
<1> SUFFICES ASSUME faults' = 0 PROVE FusingCalm' /\ ForwardCalm' /\ KeptCalm'
  BY DEF CalmInv
<1>1. Kept' = Kept
  BY ServerStep
<1>2. /\ UNCHANGED <<batch, fusing, forwarding, forward, final>>
      /\ \/ /\ raw[t] = "none" /\ raw' = [raw EXCEPT ![t] = "new"]
            /\ UNCHANGED faults
         \/ /\ ~Held(t) /\ raw' = [raw EXCEPT ![t] = "again"]
            /\ UNCHANGED faults
  BY CountFacts DEF Say, Redeliver, RedeliverHeld, Fault, memory
<1>3. FusingCalm /\ ForwardCalm /\ KeptCalm
  BY <1>2 DEF CalmInv
<1>4. \A u \in Ids : u # t => raw'[u] = raw[u]
  BY <1>2 DEF TypeInv, RawOK
<1>5. forwarding # t /\ \A i \in 1 .. Len(Kept) : Kept[i].t # t
  <2>1. CASE raw[t] = "none"
    BY <1>3, <2>1, IdsAreNumbers DEF ForwardCalm, KeptCalm, Owned
  <2>2. CASE ~Held(t)
    BY <2>2, HeldIsKept DEF TypeInv
  <2>3. QED
    BY <1>2, <2>1, <2>2
<1>6. \A i \in 1 .. Len(Kept) : Kept[i].t \in Ids
  BY KeptFacts DEF TypeInv
<1>7. KeptCalm'
  BY <1>1, <1>2, <1>3, <1>4, <1>5, <1>6 DEF KeptCalm, Owned
<1>8. ForwardCalm'
  BY <1>2, <1>3, <1>4, <1>5 DEF TypeInv, ForwardOK, ForwardCalm, Owned
<1>9. FusingCalm'
  BY <1>2, <1>3 DEF FusingCalm
<1>10. QED
  BY <1>7, <1>8, <1>9

LEMMA AgeCalm == ASSUME TypeInv, CalmInv, Age PROVE CalmInv'
<1>1. Len(Kept') = Len(Kept) /\ \A i \in 1 .. Len(Kept) : Kept'[i].t = Kept[i].t
  BY AgeStep
<1>2. UNCHANGED <<batch, fusing, forwarding, forward, raw, final, faults>>
  BY DEF Age
<1>3. KeptCalm => KeptCalm'
  BY <1>1, <1>2 DEF KeptCalm, OnceIn, Owned
<1>4. (FusingCalm => FusingCalm') /\ (ForwardCalm => ForwardCalm')
  BY <1>2 DEF FusingCalm, ForwardCalm, Owned
<1>5. QED
  BY <1>2, <1>3, <1>4 DEF CalmInv

LEMMA CrashCalm == ASSUME TypeInv, Crash PROVE CalmInv'
<1>1. Kept' = <<>> /\ fusing' = "idle" /\ forwarding' = NoId
  BY CrashStep DEF Crash
<1>2. 1 .. Len(Kept') = {}
  BY <1>1, EmptySeq
<1>3. QED
  BY <1>1, <1>2 DEF CalmInv, FusingCalm, ForwardCalm, KeptCalm, OnceIn

LEMMA SameCalm ==
    ASSUME CalmInv, Kept' = Kept,
           UNCHANGED <<batch, fusing, forwarding, forward, raw, final>>,
           faults' = 0 => faults = 0
    PROVE  CalmInv'
<1>1. (FusingCalm => FusingCalm') /\ (ForwardCalm => ForwardCalm') /\ (KeptCalm => KeptCalm')
  BY DEF FusingCalm, ForwardCalm, KeptCalm, Owned
<1>2. QED
  BY <1>1 DEF CalmInv

LEMMA HearCalm == ASSUME TypeInv, CalmInv, Hear PROVE CalmInv'
<1>1. Kept' = Kept /\ UNCHANGED <<batch, fusing, forwarding, forward, raw, final>>
  BY HearStep DEF Hear, memory
<1>2. faults' = 0 => faults = 0
  BY CountFacts DEF Hear, Fault
<1>3. QED
  BY <1>1, <1>2, SameCalm

LEMMA InitCalm == Init => CalmInv
<1> SUFFICES ASSUME Init PROVE CalmInv
  OBVIOUS
<1>1. Kept = <<>>
  <2>1. <<>> \o <<>> = <<>>
    BY ConcatEmptySeq, EmptySeq
  <2>2. QED
    BY <2>1 DEF Kept, Init
<1>2. 1 .. Len(Kept) = {}
  BY <1>1, EmptySeq
<1>3. fusing = "idle" /\ forwarding = NoId
  BY DEF Init
<1>4. QED
  BY <1>2, <1>3 DEF CalmInv, FusingCalm, ForwardCalm, KeptCalm, OnceIn

LEMMA NextCalm == TypeInv /\ CalmInv /\ [Next]_vars => CalmInv'
<1> SUFFICES ASSUME TypeInv, CalmInv, [Next]_vars PROVE CalmInv'
  OBVIOUS
<1>1. ASSUME NEW t \in Ids, FetchFinal(t) PROVE CalmInv'
  BY <1>1, FetchFinalCalm
<1>2. ASSUME NEW t \in Ids, FetchInterim(t) PROVE CalmInv'
  BY <1>2, FetchInterimCalm
<1>3. CASE ForwardReply
  BY <1>3, ForwardReplyCalm
<1>4. CASE Hear
  BY <1>4, HearCalm
<1>5. CASE Round
  BY <1>5, RoundCalm
<1>6. CASE PublishReply
  BY <1>6, PublishReplyCalm
<1>7. CASE NextEntry
  BY <1>7, NextEntryCalm
<1>8. CASE Age
  BY <1>8, AgeCalm
<1>9. CASE Crash
  BY <1>9, CrashCalm
<1>10. CASE Boot
  <2>1. Kept' = Kept /\ UNCHANGED <<batch, fusing, forwarding, forward, raw, final, faults>>
    BY <1>10 DEF Boot, memory, Kept
  <2>2. QED
    BY <2>1, SameCalm
<1>11. ASSUME NEW t \in Ids, Say(t) \/ Redeliver(t) \/ RedeliverHeld(t) PROVE CalmInv'
  BY <1>11, ServerCalm
<1>12. CASE UNCHANGED vars
  <2>1. Kept' = Kept /\ UNCHANGED <<batch, fusing, forwarding, forward, raw, final, faults>>
    BY <1>12 DEF vars, memory, Kept
  <2>2. QED
    BY <2>1, SameCalm
<1>13. QED
  BY <1>1, <1>2, <1>3, <1>4, <1>5, <1>6, <1>7, <1>8, <1>9, <1>10, <1>11, <1>12
     DEF Next, Subscriber, Fusion

\* While no call is lost, what a task holds and has not published is not settled, so
\* that a crash brings it back.
THEOREM HeldAreUnsettled == Spec => []HeldUnsettled
<1>1. TypeInv /\ CalmInv => HeldUnsettled
  <2> SUFFICES ASSUME TypeInv, CalmInv, faults = 0, NEW t \in Ids, Held(t), final[t] = <<>>
               PROVE  raw[t] = "out"
    BY DEF HeldUnsettled
  <2>1. ForwardCalm /\ KeptCalm
    BY DEF CalmInv
  <2>2. forwarding = t \/ \E i \in 1 .. Len(Kept) : Kept[i].t = t
    BY HeldIsKept DEF TypeInv
  <2>3. Owned(t)
    BY <2>1, <2>2, IdsAreNumbers DEF ForwardCalm, KeptCalm
  <2>4. QED
    BY <2>3 DEF Owned
<1>2. Spec => []TypeInv
  BY InitTypeInv, NextTypeInv, PTL DEF Spec
<1>3. Spec => []CalmInv
  BY InitCalm, NextCalm, <1>2, PTL DEF Spec
<1>4. QED
  BY <1>1, <1>2, <1>3, PTL
-----------------------------------------------------------------------------
(* What is published once.                                                   *)

InHand(t) == forwarding = t \/ \E i \in 1 .. Len(Kept) : Kept[i].t = t

\* Nothing comes again, and nothing is published before it is delivered.
Fresh   == \A t \in Ids : /\ raw[t] # "again"
                          /\ raw[t] \in {"none", "new"} => final[t] = <<>>
\* What is delivered is in memory until it is acknowledged.
OutHeld == /\ \A t \in Ids : raw[t] = "out" => InHand(t)
           /\ fusing = "next" => raw[Head(batch).t] # "out"
\* No entry is published but the one in hand.
Ahead   == \A i \in 1 .. Len(Kept) :
              final[Kept[i].t] # <<>> => i = Len(still) + 1 /\ fusing \in {"due", "next"}
OneEach == \A t \in Ids : Len(final[t]) <= 1

\* Until a call is lost or the process ends, a transcript is published while it is
\* held, and it is held once.
FirstInv == faults = 0 /\ crashes = 0 => Fresh /\ OutHeld /\ Ahead /\ OneEach

LEMMA FetchFinalFirst ==
    ASSUME TypeInv, CalmInv, FirstInv, NEW t \in Ids, FetchFinal(t)
    PROVE  FirstInv'
<1> SUFFICES ASSUME faults' = 0, crashes' = 0 PROVE Fresh' /\ OutHeld' /\ Ahead' /\ OneEach'
  BY DEF FirstInv
<1> DEFINE e   == [t |-> t, old |-> FALSE]
           all == Append(Kept, e)
           k   == Len(still) + Len(batch) + 1
<1>1. /\ TypeInv' /\ e \in Entries /\ e.t = t
      /\ \/ Kept' = all /\ raw' = Taken(t) /\ UNCHANGED faults
         \/ Dropped(Kept', all, k) /\ all[k].t \in Ids /\ Ack(Taken(t), all[k].t)
  BY FetchFinalStep
<1>2. /\ Fetched(t) /\ UNCHANGED <<batch, still, fusing, forwarding, final, crashes>>
  BY DEF FetchFinal
<1>3. /\ Taken(t) \in [Ids -> RawStates] /\ Taken(t)[t] = "out"
      /\ \A u \in Ids : u # t => Taken(t)[u] = raw[u]
      /\ raw[t] \in {"new", "again"} /\ forwarding = NoId
  BY <1>2, FetchedStep DEF TypeInv
<1>4. faults = 0
  BY <1>1, <1>3, AckStep DEF TypeInv
<1>5. KeptCalm /\ Fresh /\ OutHeld /\ Ahead /\ OneEach
  BY <1>2, <1>4 DEF CalmInv, FirstInv
<1>6. Kept \in Seq(Entries) /\ \A i \in 1 .. Len(Kept) : Kept[i].t \in Ids
  BY KeptFacts DEF TypeInv
<1>7. \A i \in 1 .. Len(Kept) : Kept[i].t # t
  BY <1>3, <1>5 DEF KeptCalm, Owned
<1>8. raw[t] = "new" /\ final[t] = <<>>
  BY <1>3, <1>5 DEF Fresh
<1> HIDE DEF e
<1>9. /\ OnceIn(all) /\ all \in Seq(Entries) /\ Len(all) = Len(Kept) + 1
      /\ \A i \in 1 .. Len(Kept) : all[i] = Kept[i]
      /\ all[Len(Kept) + 1] = e
      /\ \A i \in 1 .. Len(Kept) + 1 : i \in 1 .. Len(Kept) \/ i = Len(Kept) + 1
  BY <1>1, <1>5, <1>6, <1>7, OnceAppend DEF KeptCalm
<1>10. Len(Kept) + 1 \in 1 .. Len(all) /\ 1 .. Len(Kept) \subseteq 1 .. Len(all)
  BY <1>6, <1>9, LenProperties
<1> HIDE DEF all
<1>11. \A i \in 1 .. Len(all) :
          final[all[i].t] # <<>> => i = Len(still) + 1 /\ fusing \in {"due", "next"}
  <2> SUFFICES ASSUME NEW i \in 1 .. Len(all), final[all[i].t] # <<>>
               PROVE  i = Len(still) + 1 /\ fusing \in {"due", "next"}
    OBVIOUS
  <2>1. i \in 1 .. Len(Kept) /\ all[i] = Kept[i]
    BY <1>1, <1>8, <1>9
  <2>2. QED
    BY <1>5, <2>1 DEF Ahead
<1>12. \A u \in Ids : Taken(t)[u] = "out" => \E i \in 1 .. Len(all) : all[i].t = u
  <2> SUFFICES ASSUME NEW u \in Ids, Taken(t)[u] = "out"
               PROVE  \E i \in 1 .. Len(all) : all[i].t = u
    OBVIOUS
  <2>1. CASE u = t
    BY <1>1, <1>9, <1>10, <2>1
  <2>2. CASE u # t
    <3>1. InHand(u)
      BY <1>3, <1>5, <2>2 DEF OutHeld
    <3>2. PICK i \in 1 .. Len(Kept) : Kept[i].t = u
      BY <1>3, <3>1, IdsAreNumbers DEF InHand
    <3>3. QED
      BY <1>9, <1>10, <3>2
  <2>3. QED
    BY <2>1, <2>2
<1>13. fusing = "next" => /\ Head(batch).t \in Ids
                          /\ Taken(t)[Head(batch).t] = raw[Head(batch).t]
  <2> SUFFICES ASSUME fusing = "next"
               PROVE  Head(batch).t \in Ids /\ Taken(t)[Head(batch).t] = raw[Head(batch).t]
    OBVIOUS
  <2>1. /\ Head(batch).t \in Ids /\ Len(still) + 1 \in 1 .. Len(Kept)
        /\ Kept[Len(still) + 1] = Head(batch)
    BY KeptFacts DEF TypeInv, MemoryOK
  <2>2. Head(batch).t # t
    BY <1>7, <2>1
  <2>3. QED
    BY <1>3, <2>1, <2>2
<1>14. OneEach'
  BY <1>2, <1>5 DEF OneEach
<1>15. CASE Kept' = all /\ raw' = Taken(t)
  <2>1. Fresh'
    BY <1>2, <1>3, <1>5, <1>15 DEF Fresh
  <2>2. OutHeld'
    BY <1>2, <1>5, <1>12, <1>13, <1>15 DEF OutHeld, InHand
  <2>3. Ahead'
    BY <1>2, <1>11, <1>15 DEF Ahead
  <2>4. QED
    BY <1>14, <2>1, <2>2, <2>3
<1>16. CASE Dropped(Kept', all, k) /\ all[k].t \in Ids /\ Ack(Taken(t), all[k].t)
  <2> DEFINE x == all[k].t
             K == Kept'
  <2>1. /\ x \in Ids /\ raw'[x] = "acked"
        /\ \A u \in Ids : u # x => raw'[u] = Taken(t)[u]
    BY <1>3, <1>16, AckStep DEF TypeInv
  <2>2. K \in Seq(Entries)
    BY <1>1 DEF TypeInv, MemoryOK, Kept, Dropped
  <2>3. Dropped(K, all, k)
    BY <1>16
  <2> HIDE DEF K
  <2>4. /\ \A i \in 1 .. Len(K) : \E j \in 1 .. Len(all) : j # k /\ K[i] = all[j]
        /\ \A i \in 1 .. Len(K) : i < k => i \in 1 .. Len(all) /\ K[i] = all[i]
        /\ \A j \in 1 .. Len(all) : j # k => \E i \in 1 .. Len(K) : K[i] = all[j]
    <3>1. all \in Seq(Entries)
      BY <1>9
    <3> HIDE DEF k
    <3>2. QED
      BY <2>2, <2>3, <3>1, DroppedFacts
  <2>5. Fresh'
    <3>1. ASSUME NEW u \in Ids
          PROVE  raw'[u] # "again" /\ (raw'[u] \in {"none", "new"} => final[u] = <<>>)
      BY <1>3, <1>5, <2>1 DEF Fresh
    <3>2. QED
      BY <1>2, <3>1 DEF Fresh
  <2>6. OutHeld'
    <3>1. ASSUME NEW u \in Ids, raw'[u] = "out" PROVE \E i \in 1 .. Len(K) : K[i].t = u
      <4>1. u # x /\ Taken(t)[u] = "out"
        BY <2>1, <3>1
      <4>2. PICK j \in 1 .. Len(all) : all[j].t = u
        BY <1>12, <4>1
      <4>3. j # k
        BY <4>1, <4>2
      <4>4. QED
        BY <2>4, <4>2, <4>3
    <3>2. fusing = "next" => raw'[Head(batch).t] # "out"
      BY <1>5, <1>13, <2>1 DEF OutHeld
    <3>3. QED
      BY <1>2, <3>1, <3>2 DEF OutHeld, InHand, K
  <2>7. Ahead'
    <3>1. ASSUME NEW i \in 1 .. Len(K), final[K[i].t] # <<>>
          PROVE  i = Len(still) + 1 /\ fusing \in {"due", "next"}
      <4>1. PICK j \in 1 .. Len(all) : j # k /\ K[i] = all[j]
        BY <2>4
      <4>2. j = Len(still) + 1 /\ fusing \in {"due", "next"}
        BY <1>11, <3>1, <4>1
      <4>3. k \in 1 .. Len(all) /\ Len(K) = Len(all) - 1 /\ Len(all) \in Nat
            /\ K[i] = all[IF i < k THEN i ELSE i + 1]
        BY <1>9, <2>3, LenProperties DEF Dropped
      <4>4. j < k
        <5>1. Len(batch) # 0 /\ Len(batch) \in Nat /\ Len(still) \in Nat
          BY <4>2, EmptySeq, KeptFacts DEF TypeInv, MemoryOK
        <5>2. QED
          BY <4>2, <5>1
      <4>5. (IF i < k THEN i ELSE i + 1) \in 1 .. Len(all)
        BY <4>3
      <4>6. all[IF i < k THEN i ELSE i + 1].t = all[j].t
        BY <4>1, <4>3
      <4>7. (IF i < k THEN i ELSE i + 1) = j
        BY <1>9, <4>5, <4>6 DEF OnceIn
      <4>8. i = j
        BY <4>3, <4>4, <4>7
      <4>9. QED
        BY <4>2, <4>8
    <3>2. QED
      BY <1>2, <3>1 DEF Ahead, K
  <2>8. QED
    BY <1>14, <2>5, <2>6, <2>7
<1>17. QED
  BY <1>1, <1>15, <1>16

LEMMA FetchInterimFirst ==
    ASSUME TypeInv, CalmInv, FirstInv, NEW t \in Ids, FetchInterim(t)
    PROVE  FirstInv'
<1> SUFFICES ASSUME faults' = 0, crashes' = 0 PROVE Fresh' /\ OutHeld' /\ Ahead' /\ OneEach'
  BY DEF FirstInv
<1>1. /\ Fetched(t) /\ ~Transcripts[t].is_final /\ raw' = Taken(t) /\ forwarding' = t
      /\ UNCHANGED <<batch, still, fusing, crashes>>
  BY DEF FetchInterim
<1>2. Kept' = Kept /\ Publish(t, NoName, forward')
  BY FetchInterimStep
<1>3. /\ faults = 0 /\ forward' = "due" /\ Len(final'[t]) = Len(final[t]) + 1
      /\ \A u \in Ids : u # t => final'[u] = final[u]
  <2>1. NoName \in Speakers
    BY DEF Speakers
  <2>2. FinalOK /\ CountsOK
    BY DEF TypeInv
  <2>3. QED
    BY <1>2, <2>1, <2>2, PublishStep
<1>4. /\ raw'[t] = "out" /\ \A u \in Ids : u # t => raw'[u] = raw[u]
      /\ raw[t] \in {"new", "again"} /\ forwarding = NoId
  BY <1>1, FetchedStep DEF TypeInv
<1>5. KeptCalm /\ Fresh /\ OutHeld /\ Ahead /\ OneEach
  BY <1>1, <1>3 DEF CalmInv, FirstInv
<1>6. \A i \in 1 .. Len(Kept) : Kept[i].t \in Ids /\ Kept[i].t # t
  BY <1>1, <1>5, KeptFacts DEF TypeInv, KeptCalm
<1>7. Fresh' /\ OneEach'
  <2>1. final[t] = <<>>
    BY <1>4, <1>5 DEF Fresh
  <2>2. Len(final'[t]) <= 1
    BY <1>3, <2>1, EmptySeq
  <2>3. QED
    BY <1>3, <1>4, <1>5, <2>2 DEF Fresh, OneEach
<1>8. OutHeld'
  <2>1. ASSUME NEW u \in Ids, raw'[u] = "out"
        PROVE  forwarding' = u \/ \E i \in 1 .. Len(Kept') : Kept'[i].t = u
    <3>1. CASE u = t
      BY <1>1, <3>1
    <3>2. CASE u # t
      BY <1>2, <1>4, <1>5, <2>1, <3>2, IdsAreNumbers DEF OutHeld, InHand
    <3>3. QED
      BY <3>1, <3>2
  <2>2. fusing = "next" => raw'[Head(batch).t] # "out"
    <3>1. fusing = "next" => \E i \in 1 .. Len(Kept) : Kept[i] = Head(batch)
      BY KeptFacts DEF TypeInv, MemoryOK
    <3>2. QED
      BY <1>4, <1>5, <1>6, <3>1 DEF OutHeld
  <2>3. QED
    BY <1>1, <2>1, <2>2 DEF OutHeld, InHand
<1>9. Ahead'
  BY <1>1, <1>2, <1>3, <1>5, <1>6 DEF Ahead
<1>10. QED
  BY <1>7, <1>8, <1>9

LEMMA ForwardReplyFirst ==
    ASSUME TypeInv, CalmInv, FirstInv, ForwardReply
    PROVE  FirstInv'
<1> SUFFICES ASSUME faults' = 0, crashes' = 0 PROVE Fresh' /\ OutHeld' /\ Ahead' /\ OneEach'
  BY DEF FirstInv
<1>1. /\ Kept' = Kept /\ forwarding \in Ids
      /\ (forward = "due" /\ Ack(raw, forwarding)) \/ forward = "lost"
  BY ForwardReplyStep
<1>2. /\ forwarding # NoId /\ forwarding' = NoId
      /\ UNCHANGED <<batch, still, fusing, final, crashes>>
      /\ forward = "lost" => UNCHANGED faults
  BY DEF ForwardReply
<1>3. faults = 0
  BY <1>1, <1>2, AckStep DEF TypeInv, RawOK
<1>4. ForwardCalm /\ KeptCalm /\ Fresh /\ OutHeld /\ Ahead /\ OneEach
  BY <1>2, <1>3 DEF CalmInv, FirstInv
<1>5. /\ raw'[forwarding] = "acked"
      /\ \A u \in Ids : u # forwarding => raw'[u] = raw[u]
  BY <1>1, <1>2, <1>4, AckStep DEF TypeInv, RawOK, ForwardCalm
<1>6. Fresh'
  BY <1>2, <1>4, <1>5 DEF Fresh
<1>7. OutHeld'
  <2>1. ASSUME NEW u \in Ids, raw'[u] = "out"
        PROVE  \E i \in 1 .. Len(Kept) : Kept[i].t = u
    BY <1>4, <1>5, <2>1 DEF OutHeld, InHand
  <2>2. fusing = "next" => raw'[Head(batch).t] # "out"
    <3>1. fusing = "next" => Head(batch).t \in Ids
      BY KeptFacts DEF TypeInv, MemoryOK
    <3>2. QED
      BY <1>4, <1>5, <3>1 DEF OutHeld
  <2>3. QED
    BY <1>1, <1>2, <2>1, <2>2 DEF OutHeld, InHand
<1>8. Ahead' /\ OneEach'
  BY <1>1, <1>2, <1>4 DEF Ahead, OneEach
<1>9. QED
  BY <1>6, <1>7, <1>8

LEMMA PublishReplyFirst ==
    ASSUME TypeInv, CalmInv, FirstInv, PublishReply
    PROVE  FirstInv'
<1> SUFFICES ASSUME faults' = 0, crashes' = 0 PROVE Fresh' /\ OutHeld' /\ Ahead' /\ OneEach'
  BY DEF FirstInv
<1> DEFINE h == Head(batch).t
<1>1. /\ Kept' = Kept /\ batch # <<>> /\ h \in Ids
      /\ (fusing = "due" /\ Ack(raw, h)) \/ fusing = "lost"
  BY PublishReplyStep
<1>2. /\ fusing' = "next" /\ UNCHANGED <<batch, still, forwarding, final, crashes>>
      /\ fusing = "lost" => UNCHANGED faults \/ faults' = faults + 1
  BY DEF PublishReply, Fault
<1>3. faults = 0
  <2> HIDE DEF h
  <2> QED BY <1>1, <1>2, AckStep, CountFacts DEF TypeInv, RawOK
<1>4. FusingCalm /\ Fresh /\ OutHeld /\ Ahead /\ OneEach
  BY <1>2, <1>3 DEF CalmInv, FirstInv
<1>5. raw'[h] = "acked" /\ \A u \in Ids : u # h => raw'[u] = raw[u]
  <2> HIDE DEF h
  <2> QED BY <1>1, <1>4, AckStep DEF TypeInv, RawOK, FusingCalm
<1>6. Fresh'
  BY <1>1, <1>2, <1>4, <1>5 DEF Fresh
<1>7. OutHeld'
  BY <1>1, <1>2, <1>4, <1>5 DEF OutHeld, InHand
<1>8. Ahead' /\ OneEach'
  BY <1>1, <1>2, <1>4 DEF Ahead, OneEach
<1>9. QED
  BY <1>6, <1>7, <1>8

\* The fusion loop goes on with entries that are held once and not published.
LEMMA AdvancedFirst ==
    ASSUME TypeInv, CalmInv, FirstInv, NEW s \in Seq(Entries), Advanced(s),
           UNCHANGED <<forwarding, raw, crashes>>,
           faults = 0 /\ crashes = 0 =>
               /\ OnceIn(s)
               /\ \A i \in 1 .. Len(s) :
                     s[i].t \in Ids /\ Owned(s[i].t) /\ final[s[i].t] = <<>>
               /\ \A u \in Ids : raw[u] = "out" =>
                     forwarding = u \/ \E i \in 1 .. Len(s) : s[i].t = u
    PROVE  FirstInv'
<1> SUFFICES ASSUME faults' = 0, crashes' = 0 PROVE Fresh' /\ OutHeld' /\ Ahead' /\ OneEach'
  BY DEF FirstInv
<1>1. /\ TypeInv' /\ Kept' = s
      /\ \/ fusing' = "idle" /\ UNCHANGED <<final, faults>>
         \/ \E k \in 1 .. Len(s) :
               /\ Len(still') + 1 = k /\ Head(batch') = s[k] /\ fusing' \in {"due", "lost"}
               /\ s[k].t \in Ids /\ Publish(s[k].t, Speaker(s[k].t), fusing')
  BY DEF Advanced
<1>2. CASE fusing' = "idle" /\ UNCHANGED <<final, faults>>
  <2>1. Fresh /\ OneEach
    BY <1>2 DEF FirstInv
  <2>2. Fresh' /\ OneEach'
    BY <1>2, <2>1 DEF Fresh, OneEach
  <2>3. OutHeld'
    BY <1>1, <1>2 DEF OutHeld, InHand
  <2>4. Ahead'
    BY <1>1, <1>2 DEF Ahead
  <2>5. QED
    BY <2>2, <2>3, <2>4
<1>3. ASSUME NEW k \in 1 .. Len(s), Len(still') + 1 = k, fusing' \in {"due", "lost"},
             s[k].t \in Ids, Publish(s[k].t, Speaker(s[k].t), fusing')
      PROVE  Fresh' /\ OutHeld' /\ Ahead' /\ OneEach'
  <2>1. Speaker(s[k].t) \in Speakers
    BY <1>3, SpeakerType DEF TypeInv
  <2>2. /\ faults = 0 /\ fusing' = "due"
        /\ \A u \in Ids : u # s[k].t => final'[u] = final[u]
        /\ Len(final'[s[k].t]) = Len(final[s[k].t]) + 1
    BY <1>3, <2>1, PublishStep DEF TypeInv
  <2>3. Fresh /\ OneEach
    BY <2>2 DEF FirstInv
  <2>4. final[s[k].t] = <<>> /\ raw[s[k].t] \in {"out", "acked"}
    BY <2>2 DEF Owned
  <2>5. OneEach'
    <3>1. Len(final'[s[k].t]) <= 1
      BY <2>2, <2>4, EmptySeq
    <3>2. QED
      BY <2>2, <2>3, <3>1 DEF OneEach
  <2>6. Fresh'
    BY <2>2, <2>3, <2>4 DEF Fresh
  <2>7. OutHeld'
    BY <1>1, <2>2 DEF OutHeld, InHand
  <2>8. Ahead'
    <3>1. ASSUME NEW i \in 1 .. Len(s), final'[s[i].t] # <<>> PROVE i = k
      <4>1. s[i].t = s[k].t
        BY <2>2, <3>1
      <4>2. QED
        BY <2>2, <4>1 DEF OnceIn
    <3>2. QED
      BY <1>1, <1>3, <2>2, <3>1 DEF Ahead
  <2>9. QED
    BY <2>5, <2>6, <2>7, <2>8
<1>4. QED
  BY <1>1, <1>2, <1>3

LEMMA RoundFirst == ASSUME TypeInv, CalmInv, FirstInv, Round PROVE FirstInv'
<1>1. Kept \in Seq(Entries) /\ Advanced(Kept)
  BY RoundStep, KeptFacts DEF TypeInv
<1>2. fusing = "idle" /\ UNCHANGED <<forwarding, raw, crashes>>
  BY DEF Round
<1>3. ASSUME faults = 0 /\ crashes = 0
      PROVE  /\ OnceIn(Kept)
             /\ \A i \in 1 .. Len(Kept) :
                   Kept[i].t \in Ids /\ Owned(Kept[i].t) /\ final[Kept[i].t] = <<>>
             /\ \A u \in Ids : raw[u] = "out" =>
                   forwarding = u \/ \E i \in 1 .. Len(Kept) : Kept[i].t = u
  <2>1. KeptCalm /\ OutHeld /\ Ahead
    BY <1>3 DEF CalmInv, FirstInv
  <2>2. QED
    BY <1>2, <2>1, KeptFacts DEF TypeInv, KeptCalm, OutHeld, Ahead, InHand
<1>4. QED
  BY <1>1, <1>2, <1>3, AdvancedFirst

LEMMA NextEntryFirst == ASSUME TypeInv, CalmInv, FirstInv, NextEntry PROVE FirstInv'
<1> DEFINE s == still \o Tail(batch) \o pending
<1>1. /\ s \in Seq(Entries) /\ Advanced(s)
      /\ Head(batch) = Kept[Len(still) + 1] /\ Len(still) + 1 \in 1 .. Len(Kept)
      /\ \A i \in 1 .. Len(s) : \E j \in 1 .. Len(Kept) : j # Len(still) + 1 /\ s[i] = Kept[j]
      /\ \A j \in 1 .. Len(Kept) :
            j # Len(still) + 1 => \E i \in 1 .. Len(s) : s[i] = Kept[j]
      /\ OnceIn(Kept) => OnceIn(s)
  BY NextEntryRest
<1> HIDE DEF s
<1>2. fusing = "next" /\ UNCHANGED <<forwarding, raw, crashes>>
  BY DEF NextEntry
<1>3. ASSUME faults = 0 /\ crashes = 0
      PROVE  /\ OnceIn(s)
             /\ \A i \in 1 .. Len(s) :
                   s[i].t \in Ids /\ Owned(s[i].t) /\ final[s[i].t] = <<>>
             /\ \A u \in Ids : raw[u] = "out" =>
                   forwarding = u \/ \E i \in 1 .. Len(s) : s[i].t = u
  <2>1. KeptCalm /\ OutHeld /\ Ahead
    BY <1>3 DEF CalmInv, FirstInv
  <2>2. \A j \in 1 .. Len(Kept) : Kept[j].t \in Ids
    BY KeptFacts DEF TypeInv
  <2>3. ASSUME NEW i \in 1 .. Len(s)
        PROVE  s[i].t \in Ids /\ Owned(s[i].t) /\ final[s[i].t] = <<>>
    <3>1. PICK j \in 1 .. Len(Kept) : j # Len(still) + 1 /\ s[i] = Kept[j]
      BY <1>1
    <3>2. QED
      BY <2>1, <2>2, <3>1 DEF KeptCalm, Ahead
  <2>4. ASSUME NEW u \in Ids, raw[u] = "out", forwarding # u
        PROVE  \E i \in 1 .. Len(s) : s[i].t = u
    <3>1. PICK j \in 1 .. Len(Kept) : Kept[j].t = u
      BY <2>1, <2>4 DEF OutHeld, InHand
    <3>2. j # Len(still) + 1
      BY <1>1, <1>2, <2>1, <2>4, <3>1 DEF OutHeld
    <3>3. QED
      BY <1>1, <3>1, <3>2
  <2>5. QED
    BY <1>1, <2>1, <2>3, <2>4 DEF KeptCalm
<1>4. QED
  BY <1>1, <1>2, <1>3, AdvancedFirst

LEMMA ServerFirst ==
    ASSUME TypeInv, CalmInv, FirstInv, NEW t \in Ids, Say(t) \/ Redeliver(t) \/ RedeliverHeld(t)
    PROVE  FirstInv'
<1> SUFFICES ASSUME faults' = 0, crashes' = 0 PROVE Fresh' /\ OutHeld' /\ Ahead' /\ OneEach'
  BY DEF FirstInv
<1>1. Kept' = Kept
  BY ServerStep
<1>2. /\ UNCHANGED <<batch, still, fusing, forwarding, final, crashes>>
      /\ \/ /\ raw[t] = "none" /\ raw' = [raw EXCEPT ![t] = "new"]
            /\ UNCHANGED faults
         \/ /\ ~Held(t) /\ raw[t] = "out" /\ UNCHANGED faults
  BY CountFacts DEF Say, Redeliver, RedeliverHeld, Fault, memory
<1>3. Fresh /\ OutHeld /\ Ahead /\ OneEach
  BY <1>2 DEF FirstInv
<1>4. raw[t] = "none" /\ raw'[t] = "new" /\ \A u \in Ids : u # t => raw'[u] = raw[u]
  <2>1. raw[t] = "out" => Held(t)
    BY <1>3, HeldIsKept DEF TypeInv, OutHeld, InHand
  <2>2. QED
    BY <1>2, <2>1 DEF TypeInv, RawOK
<1>5. Fresh' /\ OneEach' /\ Ahead'
  BY <1>1, <1>2, <1>3, <1>4 DEF Fresh, OneEach, Ahead
<1>6. OutHeld'
  <2>1. fusing = "next" => Head(batch).t \in Ids
    BY KeptFacts DEF TypeInv, MemoryOK
  <2>2. QED
    BY <1>1, <1>2, <1>3, <1>4, <2>1 DEF OutHeld, InHand
<1>7. QED
  BY <1>5, <1>6

LEMMA AgeFirst == ASSUME TypeInv, FirstInv, Age PROVE FirstInv'
<1>1. /\ Len(Kept') = Len(Kept) /\ \A i \in 1 .. Len(Kept) : Kept'[i].t = Kept[i].t
      /\ UNCHANGED <<batch, still, fusing, forwarding, raw, final, faults, crashes>>
  BY AgeStep DEF Age
<1>2. (Fresh => Fresh') /\ (OneEach => OneEach')
  BY <1>1 DEF Fresh, OneEach
<1>3. (OutHeld => OutHeld') /\ (Ahead => Ahead')
  BY <1>1 DEF OutHeld, Ahead, InHand
<1>4. QED
  BY <1>1, <1>2, <1>3 DEF FirstInv

LEMMA SameFirst ==
    ASSUME FirstInv, Kept' = Kept,
           UNCHANGED <<batch, still, fusing, forwarding, raw, final, crashes>>,
           faults' = 0 => faults = 0
    PROVE  FirstInv'
<1>1. /\ (Fresh => Fresh') /\ (OneEach => OneEach')
      /\ (OutHeld => OutHeld') /\ (Ahead => Ahead')
  BY DEF Fresh, OneEach, OutHeld, Ahead, InHand
<1>2. QED
  BY <1>1 DEF FirstInv

LEMMA InitFirst == Init => FirstInv
<1> SUFFICES ASSUME Init PROVE Fresh /\ OutHeld /\ Ahead /\ OneEach
  BY DEF FirstInv
<1>1. /\ fusing = "idle" /\ final = [t \in Ids |-> <<>>] /\ raw = [t \in Ids |-> "none"]
  BY DEF Init
<1>2. \A t \in Ids : Len(final[t]) <= 1
  BY <1>1, EmptySeq
<1>3. Kept = <<>>
  <2>1. <<>> \o <<>> = <<>>
    BY ConcatEmptySeq, EmptySeq
  <2>2. QED
    BY <2>1 DEF Kept, Init
<1>4. 1 .. Len(Kept) = {}
  BY <1>3, EmptySeq
<1>5. QED
  BY <1>1, <1>2, <1>4 DEF Fresh, OutHeld, Ahead, OneEach

LEMMA NextFirst == TypeInv /\ CalmInv /\ FirstInv /\ [Next]_vars => FirstInv'
<1> SUFFICES ASSUME TypeInv, CalmInv, FirstInv, [Next]_vars PROVE FirstInv'
  OBVIOUS
<1>1. ASSUME NEW t \in Ids, FetchFinal(t) PROVE FirstInv'
  BY <1>1, FetchFinalFirst
<1>2. ASSUME NEW t \in Ids, FetchInterim(t) PROVE FirstInv'
  BY <1>2, FetchInterimFirst
<1>3. CASE ForwardReply
  BY <1>3, ForwardReplyFirst
<1>4. CASE Hear
  <2>1. Kept' = Kept /\ UNCHANGED <<batch, still, fusing, forwarding, raw, final, crashes>>
    BY <1>4, HearStep DEF Hear, memory
  <2>2. faults' = 0 => faults = 0
    BY <1>4, CountFacts DEF Hear, Fault
  <2>3. QED
    BY <2>1, <2>2, SameFirst
<1>5. CASE Round
  BY <1>5, RoundFirst
<1>6. CASE PublishReply
  BY <1>6, PublishReplyFirst
<1>7. CASE NextEntry
  BY <1>7, NextEntryFirst
<1>8. CASE Age
  BY <1>8, AgeFirst
<1>9. CASE Crash
  BY <1>9, CrashStep DEF FirstInv
<1>10. CASE Boot
  <2>1. /\ Kept' = Kept
        /\ UNCHANGED <<batch, still, fusing, forwarding, raw, final, faults, crashes>>
    BY <1>10 DEF Boot, memory, Kept
  <2>2. QED
    BY <2>1, SameFirst
<1>11. ASSUME NEW t \in Ids, Say(t) \/ Redeliver(t) \/ RedeliverHeld(t) PROVE FirstInv'
  BY <1>11, ServerFirst
<1>12. CASE UNCHANGED vars
  <2>1. /\ Kept' = Kept
        /\ UNCHANGED <<batch, still, fusing, forwarding, raw, final, faults, crashes>>
    BY <1>12 DEF vars, memory, Kept
  <2>2. QED
    BY <2>1, SameFirst
<1>13. QED
  BY <1>1, <1>2, <1>3, <1>4, <1>5, <1>6, <1>7, <1>8, <1>9, <1>10, <1>11, <1>12
     DEF Next, Subscriber, Fusion

\* Without a lost call or a crash each transcript is published once at most, whatever
\* the order of the tasks and whatever is evicted.
THEOREM PublishedAtMostOnce == Spec => []PublishedOnce
<1>1. FirstInv => PublishedOnce
  BY DEF FirstInv, OneEach, PublishedOnce
<1>2. Spec => []TypeInv
  BY InitTypeInv, NextTypeInv, PTL DEF Spec
<1>3. Spec => []CalmInv
  BY InitCalm, NextCalm, <1>2, PTL DEF Spec
<1>4. Spec => []FirstInv
  BY InitFirst, NextFirst, <1>2, <1>3, PTL DEF Spec
<1>5. QED
  BY <1>1, <1>4, PTL
-----------------------------------------------------------------------------
(* The service relays.                                                       *)

\* What is kept was offered, and what awaits an answer was passed on.
RelayInv ==
    /\ \A i \in 1 .. Len(Kept) : raw[Kept[i].t] # "none"
    /\ fusing = "due" => final[Head(batch).t] # <<>>
    /\ forwarding # NoId => /\ raw[forwarding] # "none"
                            /\ forward = "due" => final[forwarding] # <<>>

\* What the service shows of itself to the relay.
Shown == <<{t \in Ids : raw[t] # "none"}, {t \in Ids : final[t] # <<>>},
           {t \in Ids : raw[t] = "acked"}>>

\* A step of the relay.
RelayStep == \E m \in Ids : Zipper!Offer(m) \/ Zipper!Emit(m) \/ Zipper!Settle(m)

\* The sets change by one message, or not.
LEMMA OfferStep ==
    ASSUME TypeInv, TypeInv', NEW m \in Ids, UNCHANGED final,
           raw[m] = "none", raw'[m] = "new", \A u \in Ids : u # m => raw'[u] = raw[u]
    PROVE  Zipper!Offer(m)
  BY DEF Zipper!Offer

LEMMA EmitStep ==
    ASSUME TypeInv, NEW m \in Ids, NEW speaker \in Speakers, NEW r,
           Publish(m, speaker, r), raw[m] # "none",
           \A u \in Ids : (raw'[u] # "none" <=> raw[u] # "none")
                          /\ (raw'[u] = "acked" <=> raw[u] = "acked")
    PROVE  Zipper!Emit(m) \/ UNCHANGED Shown
<1>1. \/ final' = final
      \/ final' = [final EXCEPT ![m] = Append(@, speaker)]
  BY DEF Publish
<1>2. CASE final' = final
  BY <1>2 DEF Shown
<1>3. CASE final' = [final EXCEPT ![m] = Append(@, speaker)]
  <2>1. final[m] \in Seq(Speakers)
    BY DEF TypeInv, FinalOK
  <2>2. Append(final[m], speaker) # <<>>
    BY <2>1, AppendProperties
  <2>3. /\ final'[m] = Append(final[m], speaker)
        /\ \A u \in Ids : u # m => final'[u] = final[u]
    BY <1>3, Zenon DEF TypeInv, FinalOK
  <2>4. {t \in Ids : final'[t] # <<>>} = {t \in Ids : final[t] # <<>>} \cup {m}
    BY <2>2, <2>3
  <2>5. /\ {t \in Ids : raw'[t] # "none"} = {t \in Ids : raw[t] # "none"}
        /\ {t \in Ids : raw'[t] = "acked"} = {t \in Ids : raw[t] = "acked"}
    OBVIOUS
  <2>6. QED
    BY <2>4, <2>5 DEF Zipper!Emit
<1>4. QED
  BY <1>1, <1>2, <1>3

LEMMA SettleStep ==
    ASSUME TypeInv, NEW m \in Ids, UNCHANGED final, final[m] # <<>>, raw[m] # "none",
           raw'[m] \in {"acked", raw[m]}, \A u \in Ids : u # m => raw'[u] = raw[u]
    PROVE  Zipper!Settle(m) \/ UNCHANGED Shown
<1>1. CASE raw'[m] = "acked"
  <2>1. /\ {t \in Ids : raw'[t] # "none"} = {t \in Ids : raw[t] # "none"}
        /\ {t \in Ids : raw'[t] = "acked"} = {t \in Ids : raw[t] = "acked"} \cup {m}
    BY <1>1
  <2>2. QED
    BY <2>1 DEF Zipper!Settle
<1>2. CASE raw'[m] = raw[m]
  <2>1. \A u \in Ids : raw'[u] = raw[u]
    BY <1>2
  <2>2. QED
    BY <2>1 DEF Shown
<1>3. QED
  BY <1>1, <1>2

LEMMA HiddenStep ==
    ASSUME UNCHANGED final,
           \A u \in Ids : (raw'[u] # "none" <=> raw[u] # "none")
                          /\ (raw'[u] = "acked" <=> raw[u] = "acked")
    PROVE  UNCHANGED Shown
  BY DEF Shown

\* The publishes of the fusion loop.
LEMMA AdvancedRelays ==
    ASSUME TypeInv, RelayInv, NEW s \in Seq(Entries), Advanced(s),
           UNCHANGED <<forwarding, forward, raw>>,
           \A i \in 1 .. Len(s) : \E j \in 1 .. Len(Kept) : s[i] = Kept[j]
    PROVE  RelayInv' /\ (RelayStep \/ UNCHANGED Shown)
<1>1. \A i \in 1 .. Len(s) : raw[s[i].t] # "none"
  BY DEF RelayInv
<1>2. /\ TypeInv' /\ Kept' = s
      /\ \/ fusing' = "idle" /\ UNCHANGED <<final, faults>>
         \/ \E k \in 1 .. Len(s) :
               /\ Len(still') + 1 = k /\ Head(batch') = s[k] /\ fusing' \in {"due", "lost"}
               /\ s[k].t \in Ids /\ Publish(s[k].t, Speaker(s[k].t), fusing')
  BY DEF Advanced
<1>3. CASE fusing' = "idle" /\ UNCHANGED <<final, faults>>
  <2>1. RelayInv'
    BY <1>1, <1>2, <1>3 DEF RelayInv
  <2>2. QED
    BY <1>3, <2>1, HiddenStep
<1>4. ASSUME NEW k \in 1 .. Len(s), Head(batch') = s[k], s[k].t \in Ids,
             Publish(s[k].t, Speaker(s[k].t), fusing')
      PROVE  RelayInv' /\ (RelayStep \/ UNCHANGED Shown)
  <2>1. Speaker(s[k].t) \in Speakers
    BY <1>4, SpeakerType DEF TypeInv
  <2>2. /\ \A u \in Ids : final[u] # <<>> => final'[u] # <<>>
        /\ fusing' = "due" => final'[s[k].t] # <<>>
    BY <1>4, <2>1, PublishStep DEF TypeInv
  <2>3. RelayInv'
    BY <1>1, <1>2, <1>4, <2>2 DEF RelayInv, TypeInv, ForwardOK
  <2>4. Zipper!Emit(s[k].t) \/ UNCHANGED Shown
    BY <1>1, <1>4, <2>1, EmitStep
  <2>5. QED
    BY <1>4, <2>3, <2>4 DEF RelayStep
<1>5. QED
  BY <1>2, <1>3, <1>4

\* A final may still be queued without an eviction.
Room == Len(pending) < MAX_BUFFER

LEMMA FetchFinalRelays ==
    ASSUME TypeInv, RelayInv, NEW t \in Ids, FetchFinal(t)
    PROVE  RelayInv' /\ (Room => UNCHANGED Shown)
<1> DEFINE e   == [t |-> t, old |-> FALSE]
           all == Append(Kept, e)
           k   == Len(still) + Len(batch) + 1
<1>1. /\ TypeInv' /\ e \in Entries /\ e.t = t
      /\ \/ Kept' = all /\ raw' = Taken(t) /\ UNCHANGED faults
         \/ Dropped(Kept', all, k) /\ all[k].t \in Ids /\ Ack(Taken(t), all[k].t)
  BY FetchFinalStep
<1>2. Fetched(t) /\ UNCHANGED <<batch, fusing, forwarding, forward, final>>
  BY DEF FetchFinal
<1>3. /\ Taken(t) \in [Ids -> RawStates] /\ Taken(t)[t] = "out"
      /\ \A u \in Ids : u # t => Taken(t)[u] = raw[u]
      /\ raw[t] \in {"new", "again"} /\ forwarding = NoId
  BY <1>2, FetchedStep DEF TypeInv
<1>4. Kept \in Seq(Entries) /\ \A i \in 1 .. Len(Kept) : Kept[i].t \in Ids
  BY KeptFacts DEF TypeInv
<1> HIDE DEF e, k
<1>5. /\ all \in Seq(Entries) /\ Len(all) = Len(Kept) + 1
      /\ \A i \in 1 .. Len(Kept) : all[i] = Kept[i]
      /\ all[Len(Kept) + 1] = e
      /\ \A i \in 1 .. Len(Kept) + 1 : i \in 1 .. Len(Kept) \/ i = Len(Kept) + 1
  <2>1. /\ all \in Seq(Entries) /\ Len(all) = Len(Kept) + 1
        /\ \A i \in 1 .. Len(Kept) : all[i] = Kept[i]
        /\ all[Len(Kept) + 1] = e
    BY <1>1, <1>4, AppendProperties
  <2>2. Len(Kept) \in Nat
    BY <1>4, LenProperties
  <2>3. QED
    BY <2>1, <2>2
<1> HIDE DEF all
<1>6. \A i \in 1 .. Len(all) : all[i].t \in Ids /\ Taken(t)[all[i].t] # "none"
  BY <1>1, <1>3, <1>4, <1>5 DEF RelayInv
<1>7. \A u \in Ids : raw'[u] \in {"acked", Taken(t)[u]}
  BY <1>1, <1>3, AckStep DEF TypeInv
<1>8. \A i \in 1 .. Len(Kept') : \E j \in 1 .. Len(all) : Kept'[i] = all[j]
  <2>1. Kept' \in Seq(Entries)
    BY <1>1 DEF TypeInv, MemoryOK, Kept
  <2>2. QED
    BY <1>1, <1>5, <2>1, DroppedFacts
<1>9. \A i \in 1 .. Len(Kept') : raw'[Kept'[i].t] # "none"
  BY <1>6, <1>7, <1>8
<1>10. RelayInv'
  BY <1>2, <1>3, <1>9 DEF RelayInv
<1>11. ASSUME Room PROVE UNCHANGED Shown
  <2>1. Len(Append(pending, [t |-> t, old |-> FALSE])) = Len(pending) + 1 /\ Len(pending) \in Nat
    BY <1>1, AppendProperties, LenProperties DEF TypeInv, MemoryOK, e
  <2>2. raw' = Taken(t)
    BY <1>11, <2>1, LimitsAssumption DEF FetchFinal, Room
  <2>3. QED
    BY <1>2, <1>3, <2>2, HiddenStep
<1>12. QED
  BY <1>10, <1>11

LEMMA FetchInterimRelays ==
    ASSUME TypeInv, RelayInv, NEW t \in Ids, FetchInterim(t)
    PROVE  RelayInv' /\ (RelayStep \/ UNCHANGED Shown)
<1>1. /\ Fetched(t) /\ raw' = Taken(t) /\ forwarding' = t /\ UNCHANGED <<batch, fusing>>
  BY DEF FetchInterim
<1>2. Kept' = Kept /\ Publish(t, NoName, forward') /\ NoName \in Speakers
  BY FetchInterimStep DEF Speakers
<1>3. /\ \A u \in Ids : final[u] # <<>> => final'[u] # <<>>
      /\ forward' = "due" => final'[t] # <<>>
  BY <1>2, PublishStep DEF TypeInv
<1>4. /\ raw'[t] = "out" /\ \A u \in Ids : u # t => raw'[u] = raw[u]
      /\ raw[t] \in {"new", "again"}
  BY <1>1, FetchedStep DEF TypeInv
<1>5. RelayInv'
  <2>1. \A i \in 1 .. Len(Kept) : Kept[i].t \in Ids
    BY KeptFacts DEF TypeInv
  <2>2. fusing = "due" => Head(batch).t \in Ids
    BY KeptFacts DEF TypeInv, MemoryOK
  <2>3. QED
    BY <1>1, <1>2, <1>3, <1>4, <2>1, <2>2 DEF RelayInv
<1>6. Zipper!Emit(t) \/ UNCHANGED Shown
  BY <1>2, <1>4, EmitStep
<1>7. QED
  BY <1>5, <1>6 DEF RelayStep

LEMMA ForwardReplyRelays ==
    ASSUME TypeInv, RelayInv, ForwardReply
    PROVE  RelayInv' /\ (RelayStep \/ UNCHANGED Shown)
<1>1. /\ Kept' = Kept /\ forwarding \in Ids
      /\ (forward = "due" /\ Ack(raw, forwarding)) \/ forward = "lost"
  BY ForwardReplyStep
<1>2. /\ forwarding # NoId /\ forwarding' = NoId /\ UNCHANGED <<batch, fusing, final>>
      /\ forward = "lost" => UNCHANGED raw
  BY DEF ForwardReply
<1>3. forward = "due" => /\ raw'[forwarding] \in {"acked", raw[forwarding]}
                         /\ \A u \in Ids : u # forwarding => raw'[u] = raw[u]
  BY <1>1, AckStep DEF TypeInv, RawOK
<1>4. RelayInv'
  <2>1. \A i \in 1 .. Len(Kept) : Kept[i].t \in Ids
    BY KeptFacts DEF TypeInv
  <2>2. \A u \in Ids : raw[u] # "none" => raw'[u] # "none"
    BY <1>1, <1>2, <1>3
  <2>3. QED
    BY <1>1, <1>2, <2>1, <2>2 DEF RelayInv
<1>5. CASE forward = "lost"
  BY <1>2, <1>4, <1>5, HiddenStep
<1>6. CASE forward = "due"
  <2>1. final[forwarding] # <<>> /\ raw[forwarding] # "none"
    BY <1>2, <1>6 DEF RelayInv
  <2>2. PICK m \in Ids : m = forwarding
    BY <1>1
  <2>3. /\ final[m] # <<>> /\ raw[m] # "none" /\ raw'[m] \in {"acked", raw[m]}
        /\ \A u \in Ids : u # m => raw'[u] = raw[u]
    BY <1>3, <1>6, <2>1, <2>2
  <2>4. Zipper!Settle(m) \/ UNCHANGED Shown
    BY <1>2, <2>3, SettleStep
  <2>5. QED
    BY <1>4, <2>4 DEF RelayStep
<1>7. QED
  BY <1>1, <1>5, <1>6

LEMMA PublishReplyRelays ==
    ASSUME TypeInv, RelayInv, PublishReply
    PROVE  RelayInv' /\ (RelayStep \/ UNCHANGED Shown)
<1> DEFINE h == Head(batch).t
<1>1. /\ Kept' = Kept /\ batch # <<>> /\ h \in Ids
      /\ (fusing = "due" /\ Ack(raw, h)) \/ fusing = "lost"
  BY PublishReplyStep
<1>2. /\ fusing' = "next" /\ UNCHANGED <<batch, forwarding, forward, final>>
      /\ fusing = "lost" => \/ raw' = [raw EXCEPT ![h] = IF @ = "out" THEN "again" ELSE @]
                            \/ UNCHANGED raw
  BY DEF PublishReply
<1>3. raw[h] # "none" /\ (fusing = "due" => final[h] # <<>>)
  BY <1>1, KeptFacts DEF TypeInv, RelayInv
<1> HIDE DEF h
<1>4. fusing = "due" => /\ raw'[h] \in {"acked", raw[h]}
                        /\ \A u \in Ids : u # h => raw'[u] = raw[u]
  BY <1>1, AckStep DEF TypeInv, RawOK
<1>5. fusing = "lost" => \A u \in Ids : /\ raw'[u] # "none" <=> raw[u] # "none"
                                        /\ raw'[u] = "acked" <=> raw[u] = "acked"
  BY <1>1, <1>2 DEF TypeInv, RawOK
<1>6. RelayInv'
  <2>1. \A i \in 1 .. Len(Kept) : Kept[i].t \in Ids
    BY KeptFacts DEF TypeInv
  <2>2. \A u \in Ids : raw[u] # "none" => raw'[u] # "none"
    BY <1>1, <1>4, <1>5
  <2>3. QED
    BY <1>1, <1>2, <2>1, <2>2 DEF RelayInv, TypeInv, ForwardOK
<1>7. CASE fusing = "lost"
  BY <1>2, <1>5, <1>6, <1>7, HiddenStep
<1>8. CASE fusing = "due"
  <2>1. PICK m \in Ids : m = h
    BY <1>1
  <2>2. /\ final[m] # <<>> /\ raw[m] # "none" /\ raw'[m] \in {"acked", raw[m]}
        /\ \A u \in Ids : u # m => raw'[u] = raw[u]
    BY <1>3, <1>4, <1>8, <2>1
  <2>3. Zipper!Settle(m) \/ UNCHANGED Shown
    BY <1>2, <2>2, SettleStep
  <2>4. QED
    BY <1>6, <2>3 DEF RelayStep
<1>9. QED
  BY <1>1, <1>7, <1>8

LEMMA RoundRelays ==
    ASSUME TypeInv, RelayInv, Round
    PROVE  RelayInv' /\ (RelayStep \/ UNCHANGED Shown)
<1>1. Kept \in Seq(Entries) /\ Advanced(Kept)
  BY RoundStep, KeptFacts DEF TypeInv
<1>2. UNCHANGED <<forwarding, forward, raw>>
  BY DEF Round
<1>3. QED
  BY <1>1, <1>2, AdvancedRelays

LEMMA NextEntryRelays ==
    ASSUME TypeInv, RelayInv, NextEntry
    PROVE  RelayInv' /\ (RelayStep \/ UNCHANGED Shown)
<1> DEFINE s == still \o Tail(batch) \o pending
<1>1. /\ s \in Seq(Entries) /\ Advanced(s)
      /\ \A i \in 1 .. Len(s) : \E j \in 1 .. Len(Kept) : s[i] = Kept[j]
  BY NextEntryRest
<1> HIDE DEF s
<1>2. UNCHANGED <<forwarding, forward, raw>>
  BY DEF NextEntry
<1>3. QED
  BY <1>1, <1>2, AdvancedRelays

LEMMA ServerRelays ==
    ASSUME TypeInv, RelayInv, NEW t \in Ids, Say(t) \/ Redeliver(t) \/ RedeliverHeld(t)
    PROVE  RelayInv' /\ (RelayStep \/ UNCHANGED Shown)
<1>1. TypeInv' /\ Kept' = Kept
  BY ServerStep
<1>2. /\ UNCHANGED <<batch, fusing, forwarding, forward, final>>
      /\ \/ raw[t] = "none" /\ raw'[t] = "new"
         \/ raw[t] = "out" /\ raw'[t] = "again"
      /\ \A u \in Ids : u # t => raw'[u] = raw[u]
  BY DEF Say, Redeliver, RedeliverHeld, memory, TypeInv, RawOK
<1>3. RelayInv'
  <2>1. \A i \in 1 .. Len(Kept) : Kept[i].t \in Ids
    BY KeptFacts DEF TypeInv
  <2>2. \A u \in Ids : raw[u] # "none" => raw'[u] # "none"
    BY <1>2
  <2>3. QED
    BY <1>1, <1>2, <2>1, <2>2 DEF RelayInv, TypeInv, ForwardOK
<1>4. CASE raw[t] = "none" /\ raw'[t] = "new"
  BY <1>1, <1>2, <1>3, <1>4, OfferStep DEF RelayStep
<1>5. CASE raw[t] = "out" /\ raw'[t] = "again"
  <2>1. \A u \in Ids : /\ raw'[u] # "none" <=> raw[u] # "none"
                       /\ raw'[u] = "acked" <=> raw[u] = "acked"
    BY <1>2, <1>5
  <2>2. QED
    BY <1>2, <1>3, <2>1, HiddenStep
<1>6. QED
  BY <1>2, <1>4, <1>5

LEMMA SameRelays ==
    ASSUME RelayInv, Kept' = Kept, UNCHANGED <<batch, fusing, forwarding, forward, raw, final>>
    PROVE  RelayInv' /\ UNCHANGED Shown
  BY DEF RelayInv, Shown

LEMMA NextRelays ==
    TypeInv /\ RelayInv /\ [Next]_vars =>
        RelayInv' /\ (Room => RelayStep \/ UNCHANGED Shown)
<1> SUFFICES ASSUME TypeInv, RelayInv, [Next]_vars
             PROVE  RelayInv' /\ (Room => RelayStep \/ UNCHANGED Shown)
  OBVIOUS
<1>1. ASSUME NEW t \in Ids, FetchFinal(t)
      PROVE  RelayInv' /\ (Room => RelayStep \/ UNCHANGED Shown)
  BY <1>1, FetchFinalRelays
<1>2. ASSUME NEW t \in Ids, FetchInterim(t) PROVE RelayInv' /\ (RelayStep \/ UNCHANGED Shown)
  BY <1>2, FetchInterimRelays
<1>3. CASE ForwardReply
  BY <1>3, ForwardReplyRelays
<1>4. CASE Hear
  <2>1. Kept' = Kept /\ UNCHANGED <<batch, fusing, forwarding, forward, raw, final>>
    BY <1>4, HearStep DEF Hear, memory
  <2>2. QED
    BY <2>1, SameRelays
<1>5. CASE Round
  BY <1>5, RoundRelays
<1>6. CASE PublishReply
  BY <1>6, PublishReplyRelays
<1>7. CASE NextEntry
  BY <1>7, NextEntryRelays
<1>8. CASE Age
  <2>1. /\ Len(Kept') = Len(Kept) /\ \A i \in 1 .. Len(Kept) : Kept'[i].t = Kept[i].t
        /\ UNCHANGED <<batch, fusing, forwarding, forward, raw, final>>
    BY <1>8, AgeStep DEF Age
  <2>2. QED
    BY <2>1 DEF RelayInv, Shown
<1>9. CASE Crash
  <2>1. Kept' = <<>> /\ fusing' = "idle" /\ forwarding' = NoId /\ UNCHANGED <<raw, final>>
    BY <1>9, CrashStep DEF Crash
  <2>2. 1 .. Len(Kept') = {}
    BY <2>1, EmptySeq
  <2>3. QED
    BY <2>1, <2>2 DEF RelayInv, Shown
<1>10. CASE Boot
  <2>1. Kept' = Kept /\ UNCHANGED <<batch, fusing, forwarding, forward, raw, final>>
    BY <1>10 DEF Boot, memory, Kept
  <2>2. QED
    BY <2>1, SameRelays
<1>11. ASSUME NEW t \in Ids, Say(t) \/ Redeliver(t) \/ RedeliverHeld(t)
       PROVE  RelayInv' /\ (RelayStep \/ UNCHANGED Shown)
  BY <1>11, ServerRelays
<1>12. CASE UNCHANGED vars
  <2>1. Kept' = Kept /\ UNCHANGED <<batch, fusing, forwarding, forward, raw, final>>
    BY <1>12 DEF vars, memory, Kept
  <2>2. QED
    BY <2>1, SameRelays
<1>13. QED
  BY <1>1, <1>2, <1>3, <1>4, <1>5, <1>6, <1>7, <1>8, <1>9, <1>10, <1>11, <1>12
     DEF Next, Subscriber, Fusion

LEMMA InitRelays == Init => RelayInv /\ Zipper!Init
<1> SUFFICES ASSUME Init PROVE RelayInv /\ Zipper!Init
  OBVIOUS
<1>1. Kept = <<>>
  <2>1. <<>> \o <<>> = <<>>
    BY ConcatEmptySeq, EmptySeq
  <2>2. QED
    BY <2>1 DEF Kept, Init
<1>2. 1 .. Len(Kept) = {}
  BY <1>1, EmptySeq
<1>3. RelayInv
  BY <1>2 DEF RelayInv, Init
<1>4. /\ {t \in Ids : raw[t] # "none"} = {} /\ {t \in Ids : raw[t] = "acked"} = {}
      /\ {t \in Ids : final[t] # <<>>} = {}
  BY DEF Init
<1>5. QED
  BY <1>3, <1>4 DEF Zipper!Init

\* The service implements the relay as long as pending never fills: what it acknowledges
\* it has published, through crashes, lost calls and redeliveries.
THEOREM RelaysSafely ==
    Spec /\ []Room => Zipper!Init /\ [][Zipper!Next]_(Zipper!vars)
<1>1. RelayStep \/ UNCHANGED Shown => [Zipper!Next]_(Zipper!vars)
  BY DEF RelayStep, Shown, Zipper!Next, Zipper!vars
<1>2. Spec => []TypeInv
  BY InitTypeInv, NextTypeInv, PTL DEF Spec
<1>3. Spec => []RelayInv
  BY InitRelays, NextRelays, <1>2, PTL DEF Spec
<1>4. TypeInv /\ RelayInv /\ Room /\ [Next]_vars => [Zipper!Next]_(Zipper!vars)
  BY <1>1, NextRelays
<1>5. QED
  BY InitRelays, <1>2, <1>3, <1>4, PTL DEF Spec
=============================================================================
