--------------------------- MODULE Identifier_proofs ---------------------------
(***************************************************************************)
(* Proofs about Identifier, for all audio, windows of any length and any   *)
(* faults: types, windows that do not mix sessions and are cut where       *)
(* counting says, and which voices have a voiceprint.                      *)
(***************************************************************************)
EXTENDS Identifier, FiniteSetTheorems, TLAPS

(* Windows.                                                                  *)

\* q holds messages of lane l that are audio of session s.
AudioOf(l, s, q) == q \in Seq(DOMAIN Audio[l])
                    /\ \A k \in 1 .. Len(q) : Audio[l][q[k]].session = s

\* The consumer knows the messages of its stream.
RawOf(l, r) == DOMAIN r = DOMAIN Audio[l]
RawOK == DOMAIN raw = Lanes /\ \A l \in Lanes : RawOf(l, raw[l])

\* The buffer of a session holds audio of that session,
BuffersOf(l, b) == DOMAIN b = Sessions /\ \A s \in Sessions : AudioOf(l, s, b[s])
BuffersOK == DOMAIN buffers = Lanes /\ \A l \in Lanes : BuffersOf(l, buffers[l])

\* and so does a window, which was a buffer.
WindowOf(l, q)  == \E s \in Sessions : AudioOf(l, s, q)
WindowsOf(l, w) == w \in Seq(Seq(DOMAIN Audio[l])) /\ \A k \in 1 .. Len(w) : WindowOf(l, w[k])
WindowsOK == DOMAIN windows = Lanes /\ \A l \in Lanes : WindowsOf(l, windows[l])

CutInv == RawOK /\ BuffersOK /\ WindowsOK

LEMMA SessionOf == \A l \in Lanes : \A i \in DOMAIN Audio[l] : Audio[l][i].session \in Sessions
  BY DEF Sessions

LEMMA EmptyBuffers == \A l \in Lanes : BuffersOf(l, NoBuffers)
<1>1. \A l \in Lanes, s \in Sessions : AudioOf(l, s, <<>>)
  BY DEF AudioOf
<1>2. QED
  BY <1>1 DEF BuffersOf, NoBuffers

\* A chunk joins the buffer of its own session.
LEMMA AddedIsOfSession ==
    ASSUME BuffersOK, NEW l \in Lanes, NEW i \in DOMAIN Audio[l]
    PROVE  AudioOf(l, Audio[l][i].session, Added(l, i))
<1> DEFINE s == Audio[l][i].session
           b == buffers[l][s]
<1>1. s \in Sessions /\ AudioOf(l, s, b)
  BY SessionOf DEF BuffersOK, BuffersOf
<1>2. Added(l, i) = Append(b, i)
  BY DEF Added
<1> HIDE DEF b
<1>3. Append(b, i) \in Seq(DOMAIN Audio[l]) /\ Len(Append(b, i)) = Len(b) + 1
      /\ \A k \in 1 .. Len(b) + 1 : Append(b, i)[k] = IF k = Len(b) + 1 THEN i ELSE b[k]
  BY <1>1 DEF AudioOf
<1>4. \A k \in 1 .. Len(Append(b, i)) : Audio[l][Append(b, i)[k]].session = s
  <2> SUFFICES ASSUME NEW k \in 1 .. Len(b) + 1
               PROVE  Audio[l][Append(b, i)[k]].session = s
    BY <1>3
  <2>1. Len(b) \in Nat
    BY <1>1 DEF AudioOf
  <2>2. k = Len(b) + 1 \/ k \in 1 .. Len(b)
    BY <2>1
  <2>3. CASE k = Len(b) + 1
    BY <1>3, <2>3
  <2>4. CASE k \in 1 .. Len(b) /\ k # Len(b) + 1
    BY <1>1, <1>3, <2>4 DEF AudioOf
  <2>5. QED
    BY <2>1, <2>2, <2>3, <2>4
<1>5. QED
  BY <1>2, <1>3, <1>4 DEF AudioOf

\* A buffer that changes into audio of its session keeps the buffers right.
LEMMA BufferChanges ==
    ASSUME BuffersOK, NEW l \in Lanes, NEW s \in Sessions, NEW q, AudioOf(l, s, q),
           buffers' = [buffers EXCEPT ![l][s] = q]
    PROVE  BuffersOK'
<1>1. DOMAIN buffers' = Lanes /\ buffers'[l] = [buffers[l] EXCEPT ![s] = q]
      /\ \A m \in Lanes : m # l => buffers'[m] = buffers[m]
  BY DEF BuffersOK
<1>2. DOMAIN buffers'[l] = Sessions /\ \A t \in Sessions : AudioOf(l, t, buffers'[l][t])
  BY <1>1 DEF BuffersOK, BuffersOf
<1>3. QED
  BY <1>1, <1>2 DEF BuffersOK, BuffersOf

\* A window that was the buffer of a session is one of that session.
LEMMA WindowCut ==
    ASSUME WindowsOK, NEW l \in Lanes, NEW q, WindowOf(l, q),
           windows' = [windows EXCEPT ![l] = Append(@, q)]
    PROVE  WindowsOK'
<1> DEFINE w == windows[l]
<1>1. DOMAIN windows' = Lanes /\ windows'[l] = Append(w, q)
      /\ \A m \in Lanes : m # l => windows'[m] = windows[m]
  BY DEF WindowsOK
<1>2. w \in Seq(Seq(DOMAIN Audio[l])) /\ \A k \in 1 .. Len(w) : WindowOf(l, w[k])
  BY DEF WindowsOK, WindowsOf
<1>3. q \in Seq(DOMAIN Audio[l])
  BY DEF WindowOf, AudioOf
<1> HIDE DEF w
<1>4. Append(w, q) \in Seq(Seq(DOMAIN Audio[l])) /\ Len(Append(w, q)) = Len(w) + 1
      /\ Len(w) \in Nat
      /\ \A k \in 1 .. Len(w) + 1 : Append(w, q)[k] = IF k = Len(w) + 1 THEN q ELSE w[k]
  BY <1>2, <1>3
<1>5. ASSUME NEW k \in 1 .. Len(w) + 1 PROVE WindowOf(l, Append(w, q)[k])
  <2>1. CASE k = Len(w) + 1
    BY <1>4, <2>1
  <2>2. CASE k # Len(w) + 1
    <3>1. k \in 1 .. Len(w)
      BY <1>4, <2>2
    <3>2. QED
      BY <1>2, <1>4, <2>2, <3>1
  <2>3. QED
    BY <2>1, <2>2
<1>6. WindowsOf(l, windows'[l])
  BY <1>1, <1>4, <1>5 DEF WindowsOf
<1>7. QED
  BY <1>1, <1>6 DEF WindowsOK

LEMMA FetchCuts ==
    ASSUME CutInv, NEW l \in Lanes, Fetch(l)
    PROVE  CutInv'
<1>1. PICK i \in DOMAIN raw[l] :
          /\ raw' = [raw EXCEPT ![l][i] = "out"]
          /\ \/ Discard(l, Audio[l][i].session) /\ UNCHANGED windows
             \/ /\ buffers' = [buffers EXCEPT ![l][Audio[l][i].session] = Added(l, i)]
                /\ UNCHANGED windows
             \/ /\ windows' = [windows EXCEPT ![l] = Append(@, Added(l, i))]
                /\ buffers' = [buffers EXCEPT ![l][Audio[l][i].session] = <<>>]
  BY DEF Fetch, Consumed
<1> DEFINE s == Audio[l][i].session
<1>2. i \in DOMAIN Audio[l] /\ s \in Sessions
  BY SessionOf DEF CutInv, RawOK, RawOf
<1>3. AudioOf(l, s, Added(l, i)) /\ AudioOf(l, s, <<>>)
  BY <1>2, AddedIsOfSession DEF CutInv, AudioOf
<1>4. RawOK'
  BY <1>1 DEF CutInv, RawOK, RawOf
<1> HIDE DEF s
<1>5. BuffersOK'
  <2>1. buffers' = [buffers EXCEPT ![l][s] = Added(l, i)]
        \/ buffers' = [buffers EXCEPT ![l][s] = <<>>]
    BY <1>1 DEF Discard, s
  <2>2. QED
    BY <1>2, <1>3, <2>1, BufferChanges DEF CutInv
<1>6. WindowsOK'
  <2>1. CASE UNCHANGED windows
    BY <2>1 DEF CutInv, WindowsOK
  <2>2. CASE windows' = [windows EXCEPT ![l] = Append(@, Added(l, i))]
    <3>1. WindowOf(l, Added(l, i))
      BY <1>2, <1>3 DEF WindowOf
    <3>2. QED
      BY <2>2, <3>1, WindowCut DEF CutInv
  <2>3. QED
    BY <1>1, <2>1, <2>2
<1>7. QED
  BY <1>4, <1>5, <1>6 DEF CutInv

\* The end of the process forgets the buffers and keeps the messages.
LEMMA EndsCuts ==
    ASSUME CutInv, Ends, UNCHANGED windows
    PROVE  CutInv'
<1>1. RawOK'
  BY DEF Ends, CutInv, RawOK, RawOf
<1>2. BuffersOK'
  BY EmptyBuffers DEF Ends, BuffersOK
<1>3. QED
  BY <1>1, <1>2 DEF CutInv, WindowsOK

LEMMA CutStep == CutInv /\ [Next]_vars => CutInv'
<1> SUFFICES ASSUME CutInv, [Next]_vars PROVE CutInv'
  OBVIOUS
<1> USE DEF worker, store
<1>1. ASSUME NEW l \in Lanes, Fetch(l) PROVE CutInv'
  BY <1>1, FetchCuts
<1>2. CASE Ends /\ UNCHANGED windows
  BY <1>2, EndsCuts
<1>3. CASE UNCHANGED <<raw, buffers, windows>>
  BY <1>3 DEF CutInv, RawOK, BuffersOK, WindowsOK
<1>4. ASSUME NEW l \in Lanes, NEW i, NEW x, raw' = [raw EXCEPT ![l][i] = x],
             UNCHANGED <<buffers, windows>>
      PROVE  CutInv'
  BY <1>4 DEF CutInv, RawOK, RawOf, BuffersOK, WindowsOK
<1>5. ASSUME NEW l \in Lanes, Ack(l) PROVE CutInv'
  <2> DEFINE h == hand[l]
  <2>1. UNCHANGED windows /\ (Ends \/ (raw' = [raw EXCEPT ![l][h] = "acked"] /\ UNCHANGED buffers))
    BY <1>5 DEF Ack
  <2> HIDE DEF h
  <2>2. CASE Ends
    BY <1>2, <2>1, <2>2
  <2>3. CASE raw' = [raw EXCEPT ![l][h] = "acked"] /\ UNCHANGED buffers
    BY <1>4, <2>1, <2>3
  <2>4. QED
    BY <2>1, <2>2, <2>3
<1>6. ASSUME NEW l \in Lanes, Redeliver(l) PROVE CutInv'
  BY <1>4, <1>6 DEF Redeliver
<1>7. ASSUME NEW l \in Lanes, Search(l) \/ Publish(l) PROVE CutInv'
  BY <1>3, <1>7 DEF Search, Publish
<1>8. CASE Crash
  BY <1>2, <1>8 DEF Crash
<1>9. QED
  BY <1>1, <1>3, <1>5, <1>6, <1>7, <1>8
     DEF Next, Worker, Store, Boot, Enroll, EnrollAdd, Delete, vars

LEMMA InitCut == Init => CutInv
<1> SUFFICES ASSUME Init PROVE CutInv
  OBVIOUS
<1>1. RawOK
  BY DEF Init, RawOK, RawOf
<1>2. BuffersOK
  BY EmptyBuffers DEF Init, BuffersOK
<1>3. WindowsOK
  BY DEF Init, WindowsOK, WindowsOf
<1>4. QED
  BY <1>1, <1>2, <1>3 DEF CutInv

\* A window holds audio of one session, in any streams, however often their messages
\* come again, and wherever the markers are.
THEOREM WindowsOfOneSession == Spec => []OneSession
<1>1. CutInv => OneSession
  <2> SUFFICES ASSUME CutInv, NEW l \in Lanes, NEW w \in DOMAIN windows[l],
                      NEW i \in DOMAIN windows[l][w], NEW j \in DOMAIN windows[l][w]
               PROVE  Audio[l][windows[l][w][i]].session = Audio[l][windows[l][w][j]].session
    BY DEF OneSession
  <2>1. windows[l] \in Seq(Seq(DOMAIN Audio[l])) /\ w \in 1 .. Len(windows[l])
    BY DEF CutInv, WindowsOK, WindowsOf
  <2>2. PICK s \in Sessions : AudioOf(l, s, windows[l][w])
    BY <2>1 DEF CutInv, WindowsOK, WindowsOf, WindowOf
  <2>3. i \in 1 .. Len(windows[l][w]) /\ j \in 1 .. Len(windows[l][w])
    BY <2>2 DEF AudioOf
  <2>4. QED
    BY <2>2, <2>3 DEF AudioOf
<1>2. QED
  BY <1>1, InitCut, CutStep, PTL DEF Spec
-----------------------------------------------------------------------------
(* Voiceprints.                                                              *)

\* The voices without a voiceprint are those that were lost, and the one in between.
PrintsInv == /\ prints = Voices \ (lost \cup {enrolling})
             /\ enrolling \in Voices \cup {NoVoice}

LEMMA PrintsStep == PrintsInv /\ [Next]_vars => PrintsInv'
<1> SUFFICES ASSUME PrintsInv, [Next]_vars PROVE PrintsInv'
  OBVIOUS
<1> USE AudioAssumption DEF PrintsInv, worker
<1>1. ASSUME NEW v \in Voices, Enroll(v) PROVE PrintsInv'
  BY <1>1 DEF Enroll
<1>2. CASE EnrollAdd
  BY <1>2 DEF EnrollAdd, WithRow
<1>3. ASSUME NEW v \in Voices, Delete(v) PROVE PrintsInv'
  BY <1>3 DEF Delete
<1>4. CASE UNCHANGED store
  BY <1>4 DEF store
<1>5. QED
  BY <1>1, <1>2, <1>3, <1>4
     DEF Next, Worker, Store, Fetch, Search, Publish, Ack, Redeliver, Crash, Boot, vars

\* Between enrolments only a deletion, or an enrolment that failed after it had deleted
\* the old row, leaves a voice without its voiceprint.
THEOREM EnrolledStay == Spec => []EnrolledKept
<1>1. Init => PrintsInv
  BY AudioAssumption DEF Init, PrintsInv
<1>2. PrintsInv => EnrolledKept
  BY AudioAssumption DEF PrintsInv, EnrolledKept
<1>3. QED
  BY <1>1, <1>2, PrintsStep, PTL DEF Spec
-----------------------------------------------------------------------------
(* Division.                                                                 *)

LEMMA Division ==
    ASSUME NEW x \in Nat, NEW w \in Nat \ {0}
    PROVE  \E q \in Nat, r \in 0 .. w - 1 : x = w * q + r /\ x % w = r
<1>1. x = w * (x \div w) + (x % w) /\ (x \div w) \in Nat /\ (x % w) \in 0 .. w - 1
  OBVIOUS
<1>2. QED
  BY <1>1

\* A quotient and a remainder are the only ones.
LEMMA OneDivision ==
    ASSUME NEW w \in Nat \ {0}, NEW q \in Nat, NEW p \in Nat,
           NEW r \in 0 .. w - 1, NEW t \in 0 .. w - 1, w * q + r = w * p + t
    PROVE  r = t
<1>1. w * (q - p) = w * q - w * p /\ w * (p - q) = w * p - w * q
  OBVIOUS
<1>2. ASSUME q > p PROVE FALSE
  <2>1. w * (q - p) >= w
    <3>1. q - p >= 1
      BY <1>2
    <3>2. QED
      BY <3>1
  <2>2. QED
    BY <1>1, <2>1
<1>3. ASSUME p > q PROVE FALSE
  <2>1. w * (p - q) >= w
    <3>1. p - q >= 1
      BY <1>3
    <3>2. QED
      BY <3>1
  <2>2. QED
    BY <1>1, <2>1
<1>4. q = p
  BY <1>2, <1>3
<1>5. QED
  BY <1>4

LEMMA Remainder ==
    ASSUME NEW w \in Nat \ {0}, NEW q \in Nat, NEW r \in 0 .. w - 1, NEW x, x = w * q + r
    PROVE  x % w = r
<1>1. x \in Nat
  OBVIOUS
<1>2. PICK p \in Nat, t \in 0 .. w - 1 : x = w * p + t /\ x % w = t
  BY <1>1, Division
<1>3. r = t
  BY <1>2, OneDivision
<1>4. QED
  BY <1>2, <1>3

\* Counting on, the remainder goes up by one until the window is full.
LEMMA RemainderNext ==
    ASSUME NEW x \in Nat, NEW w \in Nat \ {0}
    PROVE  /\ x % w \in 0 .. w - 1 /\ 0 % w = 0
           /\ (x % w) + 1 < w => (x + 1) % w = (x % w) + 1
           /\ (x % w) + 1 = w => (x + 1) % w = 0
<1>1. PICK q \in Nat, r \in 0 .. w - 1 : x = w * q + r /\ x % w = r
  BY Division
<1>2. 0 % w = 0
  BY Remainder
<1>3. ASSUME r + 1 < w PROVE (x + 1) % w = r + 1
  <2> DEFINE y == x + 1
             t == r + 1
  <2>1. y = w * q + t /\ t \in 0 .. w - 1
    BY <1>1, <1>3
  <2> HIDE DEF y, t
  <2>2. y % w = t
    BY <2>1, Remainder
  <2>3. QED
    BY <2>2 DEF y, t
<1>4. ASSUME r + 1 = w PROVE (x + 1) % w = 0
  <2> DEFINE y == x + 1
             p == q + 1
  <2>1. y = w * p + 0 /\ p \in Nat
    <3>1. w * (q + 1) = w * q + w
      OBVIOUS
    <3>2. QED
      BY <1>1, <1>4, <3>1
  <2> HIDE DEF y, p
  <2>2. y % w = 0
    BY <2>1, Remainder
  <2>3. QED
    BY <2>2 DEF y
<1>5. QED
  BY <1>1, <1>2, <1>3, <1>4
-----------------------------------------------------------------------------
(* Counting.                                                                 *)

\* A sequence without repetition that holds all of a set is as long as the set is large.
LEMMA CountDistinct ==
    ASSUME NEW S, NEW n \in Nat, NEW q \in [1 .. n -> S], IsInjective(q),
           \A x \in S : \E k \in 1 .. n : q[k] = x
    PROVE  Cardinality(S) = n
<1>1. q \in Bijection(1 .. n, S)
  BY DEF Bijection, Injection, Surjection, IsInjective
<1>2. QED
  BY <1>1, FS_CountingElements DEF ExistsBijection

LEMMA AppendDistinct ==
    ASSUME NEW S, NEW q \in Seq(S), NEW x \in S, IsInjective(q), \A k \in 1 .. Len(q) : q[k] # x
    PROVE  /\ IsInjective(Append(q, x)) /\ Append(q, x) \in Seq(S)
           /\ Len(Append(q, x)) = Len(q) + 1 /\ Last(Append(q, x)) = x
           /\ \A k \in 1 .. Len(q) + 1 :
                 \/ k \in 1 .. Len(q) /\ Append(q, x)[k] = q[k]
                 \/ k = Len(q) + 1 /\ Append(q, x)[k] = x
<1> DEFINE a == Append(q, x)
<1>1. a \in Seq(S) /\ Len(a) = Len(q) + 1 /\ DOMAIN a = 1 .. Len(q) + 1 /\ DOMAIN q = 1 .. Len(q)
      /\ Len(q) \in Nat /\ a[Len(q) + 1] = x /\ \A k \in 1 .. Len(q) : a[k] = q[k]
  OBVIOUS
<1> HIDE DEF a
<1>2. \A k \in 1 .. Len(q) + 1 : \/ k \in 1 .. Len(q) /\ a[k] = q[k]
                                 \/ k = Len(q) + 1 /\ a[k] = x
  BY <1>1
<1>3. IsInjective(a)
  BY <1>1, <1>2 DEF IsInjective
<1>4. Last(a) = x
  BY <1>1 DEF Last
<1>5. QED
  BY <1>1, <1>2, <1>3, <1>4 DEF a

\* The chunks of session s among the messages of D that no marker of s follows.
PendingIn(l, s, D) ==
    {j \in D : /\ Audio[l][j].session = s /\ ~Audio[l][j].eos
               /\ \A k \in D : k >= j /\ Audio[l][k].session = s => ~Audio[l][k].eos}

LEMMA Numbered ==
    ASSUME NEW l \in Lanes
    PROVE  /\ Len(Audio[l]) \in Nat /\ DOMAIN Audio[l] = 1 .. Len(Audio[l])
           /\ \A i \in DOMAIN Audio[l] : Audio[l][i].session \in Sessions /\ Audio[l][i].eos \in BOOLEAN
<1> DEFINE a == Audio[l]
           M == [eos : BOOLEAN, session : Sessions, voice : Voices]
<1>1. a \in Seq(M)
  BY AudioAssumption
<1>2. \A m \in M : m.eos \in BOOLEAN /\ m.session \in Sessions
  OBVIOUS
<1> HIDE DEF a, M
<1>3. Len(a) \in Nat /\ DOMAIN a = 1 .. Len(a) /\ \A i \in DOMAIN a : a[i] \in M
  BY <1>1
<1>4. QED
  BY <1>2, <1>3 DEF a

LEMMA SinceIsPending ==
    ASSUME NEW l, NEW i \in Nat
    PROVE  Since(l, i) = PendingIn(l, Audio[l][i].session, 1 .. i)
  BY DEF Since, PendingIn

\* What one more message does to them.
LEMMA PendingNext ==
    ASSUME NEW l, NEW s, NEW i \in Nat \ {0}
    PROVE  /\ Audio[l][i].session # s => PendingIn(l, s, 1 .. i) = PendingIn(l, s, 1 .. i - 1)
           /\ Audio[l][i].session = s /\ Audio[l][i].eos => PendingIn(l, s, 1 .. i) = {}
           /\ Audio[l][i].session = s /\ ~Audio[l][i].eos
              => PendingIn(l, s, 1 .. i) = PendingIn(l, s, 1 .. i - 1) \cup {i}
<1>1. 1 .. i = (1 .. i - 1) \cup {i} /\ i \notin 1 .. i - 1 /\ \A j \in 1 .. i : i >= j
  OBVIOUS
<1>2. ASSUME Audio[l][i].session # s PROVE PendingIn(l, s, 1 .. i) = PendingIn(l, s, 1 .. i - 1)
  BY <1>1, <1>2 DEF PendingIn
<1>3. ASSUME Audio[l][i].session = s, Audio[l][i].eos PROVE PendingIn(l, s, 1 .. i) = {}
  BY <1>1, <1>3 DEF PendingIn
<1>4. ASSUME Audio[l][i].session = s, ~Audio[l][i].eos
      PROVE  PendingIn(l, s, 1 .. i) = PendingIn(l, s, 1 .. i - 1) \cup {i}
  BY <1>1, <1>4 DEF PendingIn
<1>5. QED
  BY <1>2, <1>3, <1>4

LEMMA PendingCount ==
    ASSUME NEW l, NEW s, NEW i \in Nat \ {0}
    PROVE  /\ Cardinality(PendingIn(l, s, 1 .. i - 1)) \in Nat
           /\ Audio[l][i].session = s /\ ~Audio[l][i].eos
              => Cardinality(PendingIn(l, s, 1 .. i)) = Cardinality(PendingIn(l, s, 1 .. i - 1)) + 1
<1> DEFINE P == PendingIn(l, s, 1 .. i - 1)
<1>1. IsFiniteSet(P) /\ Cardinality(P) \in Nat
  <2>1. P \subseteq 1 .. i - 1 /\ IsFiniteSet(1 .. i - 1)
    BY FS_Interval DEF PendingIn
  <2>2. QED
    BY <2>1, FS_Subset, FS_CardinalityType
<1>2. i \notin P
  BY DEF PendingIn
<1>3. Cardinality(P \cup {i}) = Cardinality(P) + 1
  BY <1>1, <1>2, FS_AddElement
<1>4. QED
  BY <1>1, <1>3, PendingNext
-----------------------------------------------------------------------------
(* Which windows are cut when nothing goes wrong.                            *)

Taken(l) == {j \in DOMAIN Audio[l] : raw[l][j] # "new"}

\* A stream is taken in order, and nothing comes again.
TakenInOrder(l) ==
    /\ \A i, j \in DOMAIN Audio[l] : i < j /\ raw[l][i] = "new" => raw[l][j] = "new"
    /\ \A i \in DOMAIN Audio[l] : raw[l][i] # "again"
    /\ hand[l] \in Taken(l) \cup {0}

\* A buffer holds some of the chunks since the last marker: as many as do not fill a window.
BufferCount(l, s) ==
    /\ IsInjective(buffers[l][s])
    /\ \A k \in 1 .. Len(buffers[l][s]) : buffers[l][s][k] \in PendingIn(l, s, Taken(l))
    /\ Len(buffers[l][s]) = Cardinality(PendingIn(l, s, Taken(l))) % WINDOW

\* A window has its length in chunks since the last marker.
Whole(l, q) == /\ Len(q) = WINDOW /\ IsInjective(q)
               /\ \A k \in 1 .. Len(q) : q[k] \in Since(l, Last(q))

\* A window was cut at every place that counting gives, and nowhere twice.
WindowsCount(l) ==
    /\ \A w \in 1 .. Len(windows[l]) : /\ Whole(l, windows[l][w])
                                       /\ Last(windows[l][w]) \in Complete(l) \cap Taken(l)
    /\ \A i \in Complete(l) \cap Taken(l) : \E w \in 1 .. Len(windows[l]) : Last(windows[l][w]) = i
    /\ \A v, w \in 1 .. Len(windows[l]) : Last(windows[l][v]) = Last(windows[l][w]) => v = w

LaneCount(l) == TakenInOrder(l) /\ (\A s \in Sessions : BufferCount(l, s)) /\ WindowsCount(l)

CountInv == /\ faults \in Nat /\ DOMAIN hand = Lanes
            /\ faults = 0 => \A l \in Lanes : LaneCount(l)

LEMMA InitCount == Init => CountInv
<1> SUFFICES ASSUME Init PROVE CountInv
  OBVIOUS
<1>1. ASSUME NEW l \in Lanes PROVE Taken(l) = {} /\ raw[l] = [i \in DOMAIN Audio[l] |-> "new"]
  BY DEF Init, Taken
<1>2. ASSUME NEW l \in Lanes PROVE TakenInOrder(l)
  BY <1>1, <1>2 DEF Init, TakenInOrder
<1>3. ASSUME NEW l \in Lanes, NEW s \in Sessions PROVE BufferCount(l, s)
  <2>1. buffers[l][s] = <<>>
    BY DEF Init, NoBuffers
  <2>2. PendingIn(l, s, Taken(l)) = {}
    BY <1>1 DEF PendingIn
  <2>3. Cardinality({}) % WINDOW = 0
    BY RemainderNext, FS_EmptySet, AudioAssumption
  <2>4. QED
    BY <2>1, <2>2, <2>3 DEF BufferCount, IsInjective
<1>4. ASSUME NEW l \in Lanes PROVE WindowsCount(l)
  BY <1>1, <1>4 DEF Init, WindowsCount
<1>5. QED
  BY <1>2, <1>3, <1>4 DEF Init, CountInv, LaneCount

\* A step that leaves the lane alone, but for what is acknowledged.
LEMMA LaneFrame ==
    ASSUME NEW l \in Lanes, LaneCount(l), UNCHANGED <<buffers[l], windows[l]>>,
           hand'[l] \in {hand[l], 0},
           \A i \in DOMAIN Audio[l] : \/ raw'[l][i] = raw[l][i]
                                      \/ raw[l][i] # "new" /\ raw'[l][i] = "acked"
    PROVE  LaneCount(l)'
<1>1. Taken(l)' = Taken(l)
  BY DEF Taken
<1>2. TakenInOrder(l)'
  BY <1>1 DEF LaneCount, TakenInOrder, Taken
<1>3. \A s \in Sessions : BufferCount(l, s)'
  BY <1>1 DEF LaneCount, BufferCount
<1>4. WindowsCount(l)'
  BY <1>1 DEF LaneCount, WindowsCount
<1>5. QED
  BY <1>2, <1>3, <1>4 DEF LaneCount

\* What the next message does to the number of chunks since the last marker.
LEMMA NextCount ==
    ASSUME CutInv, NEW l \in Lanes, NEW i \in DOMAIN Audio[l], LaneCount(l), Taken(l) = 1 .. i - 1
    PROVE  LET s == Audio[l][i].session
               b == buffers[l][s]
           IN  /\ Len(b) < WINDOW
               /\ ~Audio[l][i].eos /\ Len(b) + 1 < WINDOW
                  => Cardinality(Since(l, i)) % WINDOW = Len(b) + 1
               /\ ~Audio[l][i].eos /\ Len(b) + 1 = WINDOW
                  => Cardinality(Since(l, i)) % WINDOW = 0
<1> DEFINE s == Audio[l][i].session
           b == buffers[l][s]
           P == PendingIn(l, s, 1 .. i - 1)
<1>1. i \in Nat \ {0} /\ s \in Sessions /\ WINDOW \in Nat \ {0}
  BY Numbered, AudioAssumption
<1>2. Len(b) = Cardinality(P) % WINDOW
  BY <1>1 DEF LaneCount, BufferCount
<1>3. Cardinality(P) \in Nat
      /\ (~Audio[l][i].eos => Cardinality(Since(l, i)) = Cardinality(P) + 1)
  BY <1>1, PendingCount, SinceIsPending
<1> HIDE DEF s, b, P
<1>4. QED
  <2>1. Len(b) \in 0 .. WINDOW - 1
    BY <1>1, <1>2, <1>3, RemainderNext
  <2>2. Len(b) + 1 < WINDOW => (Cardinality(P) + 1) % WINDOW = Len(b) + 1
    BY <1>1, <1>2, <1>3, RemainderNext
  <2>3. Len(b) + 1 = WINDOW => (Cardinality(P) + 1) % WINDOW = 0
    BY <1>1, <1>2, <1>3, RemainderNext
  <2>4. QED
    BY <1>1, <1>3, <2>1, <2>2, <2>3 DEF s, b

\* The worker takes the next message i, adds it, and cuts a window or not.
Takes(l, i) ==
    LET s == Audio[l][i].session
        b == buffers[l][s]
    IN  \/ /\ Audio[l][i].eos
           /\ buffers'[l] = [buffers[l] EXCEPT ![s] = <<>>] /\ windows'[l] = windows[l]
        \/ /\ ~Audio[l][i].eos /\ Len(b) + 1 < WINDOW
           /\ buffers'[l] = [buffers[l] EXCEPT ![s] = Append(b, i)] /\ windows'[l] = windows[l]
        \/ /\ ~Audio[l][i].eos /\ Len(b) + 1 >= WINDOW
           /\ buffers'[l] = [buffers[l] EXCEPT ![s] = <<>>]
           /\ windows'[l] = Append(windows[l], Append(b, i))

LEMMA FetchTakes ==
    ASSUME CutInv, NEW l \in Lanes, DOMAIN hand = Lanes, LaneCount(l), Fetch(l)
    PROVE  \E i \in DOMAIN Audio[l] :
              Takes(l, i) /\ Taken(l) = 1 .. i - 1 /\ Taken(l)' = 1 .. i /\ TakenInOrder(l)'
<1>1. PICK i \in DOMAIN raw[l] :
          /\ raw[l][i] = "again" \/ (raw[l][i] = "new" /\ \A j \in 1 .. i - 1 : raw[l][j] # "new")
          /\ hand' = [hand EXCEPT ![l] = i]
          /\ raw' = [raw EXCEPT ![l][i] = "out"]
          /\ \/ /\ Audio[l][i].eos
                /\ Discard(l, Audio[l][i].session) /\ UNCHANGED windows
             \/ /\ ~Audio[l][i].eos /\ Len(Added(l, i)) < WINDOW
                /\ buffers' = [buffers EXCEPT ![l][Audio[l][i].session] = Added(l, i)]
                /\ UNCHANGED windows
             \/ /\ ~Audio[l][i].eos /\ Len(Added(l, i)) >= WINDOW
                /\ windows' = [windows EXCEPT ![l] = Append(@, Added(l, i))]
                /\ buffers' = [buffers EXCEPT ![l][Audio[l][i].session] = <<>>]
  BY DEF Fetch, Consumed
<1> DEFINE s == Audio[l][i].session
           b == buffers[l][s]
<1>2. /\ i \in DOMAIN Audio[l] /\ i \in Nat \ {0} /\ s \in Sessions /\ DOMAIN raw[l] = DOMAIN Audio[l]
      /\ DOMAIN Audio[l] = 1 .. Len(Audio[l]) /\ Len(Audio[l]) \in Nat
  BY Numbered DEF CutInv, RawOK, RawOf
<1>3. raw[l][i] = "new" /\ \A j \in 1 .. i - 1 : raw[l][j] # "new"
  BY <1>1, <1>2 DEF LaneCount, TakenInOrder
<1>4. Taken(l) = 1 .. i - 1
  BY <1>2, <1>3 DEF LaneCount, TakenInOrder, Taken
<1>5. \A j \in DOMAIN Audio[l] : raw'[l][j] = IF j = i THEN "out" ELSE raw[l][j]
  BY <1>1, <1>2 DEF CutInv, RawOK
<1>6. Taken(l)' = 1 .. i
  BY <1>2, <1>4, <1>5 DEF Taken
<1>7. TakenInOrder(l)'
  <2>1. \A j \in DOMAIN Audio[l] : raw'[l][j] # "again"
    BY <1>5 DEF LaneCount, TakenInOrder
  <2>2. hand'[l] \in Taken(l)'
    BY <1>1, <1>2, <1>6
  <2>3. ASSUME NEW j \in DOMAIN Audio[l], NEW k \in DOMAIN Audio[l], j < k, raw'[l][j] = "new"
        PROVE  raw'[l][k] = "new"
    <3>1. j # i /\ raw[l][j] = "new" /\ j \notin 1 .. i - 1
      BY <1>3, <1>5, <2>3
    <3>2. k # i /\ raw[l][k] = "new"
      BY <1>2, <2>3, <3>1 DEF LaneCount, TakenInOrder
    <3>3. QED
      BY <1>5, <3>2
  <2>4. QED
    BY <2>1, <2>2, <2>3 DEF TakenInOrder
<1>8. Takes(l, i)
  <2>1. Added(l, i) = Append(b, i) /\ b \in Seq(DOMAIN Audio[l])
    BY <1>2 DEF Added, CutInv, BuffersOK, BuffersOf, AudioOf
  <2> HIDE DEF b
  <2>2. Len(Added(l, i)) = Len(b) + 1
    BY <1>2, <2>1
  <2>3. DOMAIN buffers = Lanes /\ DOMAIN windows = Lanes
    BY DEF CutInv, BuffersOK, WindowsOK
  <2>4. CASE /\ Audio[l][i].eos
             /\ Discard(l, Audio[l][i].session) /\ UNCHANGED windows
    BY <2>3, <2>4 DEF Discard, Takes
  <2>5. CASE /\ ~Audio[l][i].eos /\ Len(Added(l, i)) < WINDOW
             /\ buffers' = [buffers EXCEPT ![l][Audio[l][i].session] = Added(l, i)]
             /\ UNCHANGED windows
    BY <2>1, <2>2, <2>3, <2>5 DEF Takes, b
  <2>6. CASE /\ ~Audio[l][i].eos /\ Len(Added(l, i)) >= WINDOW
             /\ windows' = [windows EXCEPT ![l] = Append(@, Added(l, i))]
             /\ buffers' = [buffers EXCEPT ![l][Audio[l][i].session] = <<>>]
    BY <2>1, <2>2, <2>3, <2>6 DEF Takes, b
  <2>7. QED
    BY <1>1, <2>4, <2>5, <2>6
<1>9. QED
  BY <1>2, <1>4, <1>6, <1>7, <1>8

\* The buffers count on.
LEMMA TakesBuffer ==
    ASSUME CutInv, NEW l \in Lanes, LaneCount(l), NEW i \in DOMAIN Audio[l], Takes(l, i),
           Taken(l) = 1 .. i - 1, Taken(l)' = 1 .. i, NEW s \in Sessions
    PROVE  BufferCount(l, s)'
<1> DEFINE b == buffers[l][s]
           P == PendingIn(l, s, 1 .. i - 1)
           Q == PendingIn(l, s, 1 .. i)
<1>1. /\ i \in Nat \ {0} /\ WINDOW \in Nat \ {0} /\ b \in Seq(DOMAIN Audio[l])
      /\ DOMAIN buffers[l] = Sessions /\ Audio[l][i].session \in Sessions
  BY Numbered, AudioAssumption DEF CutInv, BuffersOK, BuffersOf, AudioOf
<1>2. /\ IsInjective(b) /\ \A k \in 1 .. Len(b) : b[k] \in P
      /\ Len(b) = Cardinality(P) % WINDOW
  BY DEF LaneCount, BufferCount
<1>3. SUFFICES /\ IsInjective(buffers'[l][s]) /\ \A k \in 1 .. Len(buffers'[l][s]) : buffers'[l][s][k] \in Q
               /\ Len(buffers'[l][s]) = Cardinality(Q) % WINDOW
  BY DEF BufferCount
<1>4. CASE Audio[l][i].session # s
  <2>1. Q = P /\ buffers'[l][s] = b
    BY <1>1, <1>4, PendingNext DEF Takes
  <2>2. QED
    BY <1>2, <2>1
<1>5. CASE Audio[l][i].session = s
  <2>1. Since(l, i) = Q
    BY <1>1, <1>5, SinceIsPending
  <2>2. /\ Len(b) < WINDOW
        /\ ~Audio[l][i].eos /\ Len(b) + 1 < WINDOW => Cardinality(Q) % WINDOW = Len(b) + 1
        /\ ~Audio[l][i].eos /\ Len(b) + 1 = WINDOW => Cardinality(Q) % WINDOW = 0
    BY <1>5, <2>1, NextCount
  <2>3. ASSUME buffers'[l][s] = <<>>, Cardinality(Q) % WINDOW = 0
        PROVE  /\ IsInjective(buffers'[l][s]) /\ \A k \in 1 .. Len(buffers'[l][s]) : buffers'[l][s][k] \in Q
               /\ Len(buffers'[l][s]) = Cardinality(Q) % WINDOW
    BY <2>3 DEF IsInjective
  <2>4. CASE Audio[l][i].eos /\ buffers'[l] = [buffers[l] EXCEPT ![s] = <<>>]
    <3>1. Cardinality(Q) % WINDOW = 0
      <4>1. Q = {} /\ 0 % WINDOW = 0
        BY <1>1, <1>5, <2>4, PendingNext, RemainderNext
      <4>2. QED
        BY <4>1, FS_EmptySet
    <3>2. QED
      BY <1>1, <2>3, <2>4, <3>1
  <2>5. CASE /\ ~Audio[l][i].eos /\ Len(b) + 1 < WINDOW
             /\ buffers'[l] = [buffers[l] EXCEPT ![s] = Append(b, i)]
    <3>1. buffers'[l][s] = Append(b, i) /\ Q = P \cup {i} /\ Cardinality(Q) % WINDOW = Len(b) + 1
      BY <1>1, <1>5, <2>2, <2>5, PendingNext
    <3>2. \A k \in 1 .. Len(b) : b[k] # i
      BY <1>1, <1>2 DEF PendingIn
    <3> HIDE DEF b, P, Q
    <3>3. /\ IsInjective(Append(b, i)) /\ Len(Append(b, i)) = Len(b) + 1
          /\ \A k \in 1 .. Len(b) + 1 :
                 \/ k \in 1 .. Len(b) /\ Append(b, i)[k] = b[k]
                 \/ k = Len(b) + 1 /\ Append(b, i)[k] = i
      BY <1>1, <1>2, <3>2, AppendDistinct
    <3>4. QED
      BY <1>2, <3>1, <3>3
  <2>6. CASE /\ ~Audio[l][i].eos /\ Len(b) + 1 >= WINDOW
             /\ buffers'[l] = [buffers[l] EXCEPT ![s] = <<>>]
    <3>1. Len(b) + 1 = WINDOW
      BY <1>1, <2>2, <2>6
    <3>2. QED
      BY <1>1, <2>2, <2>3, <2>6, <3>1
  <2>7. QED
    BY <1>5, <2>4, <2>5, <2>6 DEF Takes
<1>6. QED
  BY <1>4, <1>5

\* A window is complete when counting says so, and only then.
LEMMA TakesWindow ==
    ASSUME CutInv, NEW l \in Lanes, LaneCount(l), NEW i \in DOMAIN Audio[l], Takes(l, i),
           Taken(l) = 1 .. i - 1, Taken(l)' = 1 .. i
    PROVE  WindowsCount(l)'
<1> DEFINE s == Audio[l][i].session
           b == buffers[l][s]
           q == Append(b, i)
           w == windows[l]
<1>1. /\ i \in Nat \ {0} /\ WINDOW \in Nat \ {0} /\ s \in Sessions
      /\ b \in Seq(DOMAIN Audio[l]) /\ w \in Seq(Seq(DOMAIN Audio[l]))
  BY Numbered, AudioAssumption DEF CutInv, BuffersOK, BuffersOf, AudioOf, WindowsOK, WindowsOf
<1>2. /\ Len(b) < WINDOW
      /\ ~Audio[l][i].eos /\ Len(b) + 1 < WINDOW => Cardinality(Since(l, i)) % WINDOW = Len(b) + 1
      /\ ~Audio[l][i].eos /\ Len(b) + 1 = WINDOW => Cardinality(Since(l, i)) % WINDOW = 0
  BY NextCount
<1>3. /\ Audio[l][i].eos => Since(l, i) = {}
      /\ ~Audio[l][i].eos => Since(l, i) = PendingIn(l, s, 1 .. i - 1) \cup {i}
  <2>1. Since(l, i) = PendingIn(l, s, 1 .. i) /\ Audio[l][i].session = s
    BY <1>1, SinceIsPending
  <2> HIDE DEF s
  <2>2. QED
    BY <1>1, <2>1, PendingNext
<1>4. /\ IsInjective(b) /\ \A k \in 1 .. Len(b) : b[k] \in PendingIn(l, s, 1 .. i - 1)
      /\ \A v \in 1 .. Len(w) : Whole(l, w[v]) /\ Last(w[v]) \in Complete(l) \cap (1 .. i - 1)
      /\ \A j \in Complete(l) \cap (1 .. i - 1) : \E v \in 1 .. Len(w) : Last(w[v]) = j
      /\ \A u, v \in 1 .. Len(w) : Last(w[u]) = Last(w[v]) => u = v
  BY <1>1 DEF LaneCount, BufferCount, WindowsCount
<1>5. \A v \in 1 .. Len(w) : Last(w[v]) # i
  BY <1>1, <1>4
<1> HIDE DEF s, b, w
<1>6. CASE windows'[l] = w /\ i \notin Complete(l)
  <2>1. Complete(l) \cap (1 .. i) = Complete(l) \cap (1 .. i - 1)
    BY <1>1, <1>6
  <2>2. QED
    BY <1>4, <1>6, <2>1 DEF WindowsCount
<1>7. CASE windows'[l] = Append(w, q) /\ ~Audio[l][i].eos /\ Len(b) + 1 = WINDOW
  <2>1. i \in Complete(l)
    BY <1>2, <1>3, <1>7 DEF Complete
  <2>2. Whole(l, q) /\ Last(q) = i
    <3>1. \A k \in 1 .. Len(b) : b[k] # i
      BY <1>1, <1>4 DEF PendingIn
    <3>2. b \in Seq(DOMAIN Audio[l]) /\ i \in DOMAIN Audio[l] /\ IsInjective(b)
      BY <1>1, <1>4
    <3>3. IsInjective(q) /\ Len(q) = Len(b) + 1 /\ Last(q) = i
      BY <3>1, <3>2, AppendDistinct
    <3>4. \A k \in 1 .. Len(b) + 1 : (k \in 1 .. Len(b) /\ q[k] = b[k]) \/ q[k] = i
      BY <1>1
    <3>5. QED
      BY <1>3, <1>4, <1>7, <3>3, <3>4 DEF Whole
  <2> HIDE DEF q
  <2> DEFINE W == Append(w, q)
             n == Len(w)
  <2>3. /\ Len(W) = n + 1 /\ n \in Nat /\ W[n + 1] = q
        /\ \A v \in 1 .. n : W[v] = w[v]
    BY <1>1
  <2> HIDE DEF W, n
  <2>4. \A v \in 1 .. n + 1 : v \in 1 .. n \/ v = n + 1
    BY <2>3
  <2>5. \A v \in 1 .. n + 1 : Whole(l, W[v]) /\ Last(W[v]) \in Complete(l) \cap (1 .. i)
    BY <1>1, <1>4, <2>1, <2>2, <2>3, <2>4 DEF n
  <2>6. \A j \in Complete(l) \cap (1 .. i) : \E v \in 1 .. n + 1 : Last(W[v]) = j
    <3>1. \A j \in 1 .. i : j \in 1 .. i - 1 \/ j = i
      BY <1>1
    <3>2. \A j \in Complete(l) \cap (1 .. i - 1) : \E v \in 1 .. n + 1 : Last(W[v]) = j
      BY <1>4, <2>3 DEF n
    <3>3. n + 1 \in 1 .. n + 1 /\ Last(W[n + 1]) = i
      BY <2>2, <2>3
    <3>4. QED
      BY <3>1, <3>2, <3>3
  <2>7. \A u, v \in 1 .. n + 1 : Last(W[u]) = Last(W[v]) => u = v
    BY <1>4, <1>5, <2>2, <2>3, <2>4 DEF n
  <2>8. windows'[l] = W /\ Len(W) = n + 1
    BY <1>7, <2>3 DEF W
  <2>9. QED
    BY <2>5, <2>6, <2>7, <2>8 DEF WindowsCount
<1>8. CASE Audio[l][i].eos /\ windows'[l] = w
  <2>1. i \notin Complete(l)
    BY <1>3, <1>8 DEF Complete
  <2>2. QED
    BY <1>6, <1>8, <2>1
<1>9. CASE ~Audio[l][i].eos /\ Len(b) + 1 < WINDOW /\ windows'[l] = w
  <2>1. Len(b) + 1 # 0
    BY <1>1
  <2>2. i \notin Complete(l)
    BY <1>2, <1>9, <2>1 DEF Complete
  <2>3. QED
    BY <1>6, <1>9, <2>2
<1>10. QED
  <2>1. Len(b) + 1 >= WINDOW => Len(b) + 1 = WINDOW
    BY <1>1, <1>2
  <2>2. QED
    BY <1>7, <1>8, <1>9, <2>1 DEF Takes, s, b, w, q

Calm == ~Fault   \* the step is not a fault

\* No such step but Fetch changes a buffer or a window, or what was taken.
LEMMA LaneStep ==
    ASSUME CutInv, DOMAIN hand = Lanes, NEW l \in Lanes, LaneCount(l), [Next]_vars, Calm
    PROVE  LaneCount(l)'
<1> USE DEF worker, store
<1> DEFINE Still == /\ raw'[l] = raw[l] /\ hand'[l] = hand[l]
                    /\ buffers'[l] = buffers[l] /\ windows'[l] = windows[l]
<1>a. DOMAIN raw = Lanes /\ DOMAIN buffers = Lanes /\ DOMAIN windows = Lanes
      /\ \A k \in Lanes : DOMAIN raw[k] = DOMAIN Audio[k]
  BY DEF CutInv, RawOK, RawOf, BuffersOK, WindowsOK
<1>1. CASE Still
  <2>1. \A i \in DOMAIN Audio[l] : raw'[l][i] = raw[l][i] \/ (raw[l][i] # "new" /\ raw'[l][i] = "acked")
    BY <1>1
  <2>2. UNCHANGED <<buffers[l], windows[l]>> /\ hand'[l] \in {hand[l], 0}
    BY <1>1
  <2>3. QED
    BY <2>1, <2>2, LaneFrame
<1>2. CASE Fetch(l)
  <2>1. PICK i \in DOMAIN Audio[l] :
            Takes(l, i) /\ Taken(l) = 1 .. i - 1 /\ Taken(l)' = 1 .. i /\ TakenInOrder(l)'
    BY <1>2, FetchTakes
  <2>2. \A s \in Sessions : BufferCount(l, s)'
    BY <2>1, TakesBuffer
  <2>3. WindowsCount(l)'
    BY <2>1, TakesWindow
  <2>4. QED
    BY <2>1, <2>2, <2>3 DEF LaneCount
<1>3. CASE Ack(l)
  <2>1. /\ raw' = [raw EXCEPT ![l][hand[l]] = "acked"] /\ hand' = [hand EXCEPT ![l] = 0]
        /\ UNCHANGED <<buffers, windows>>
    BY <1>3 DEF Ack, Calm
  <2>2. \A i \in DOMAIN Audio[l] : raw'[l][i] = IF i = hand[l] THEN "acked" ELSE raw[l][i]
    BY <1>a, <2>1
  <2>3. hand[l] \in DOMAIN Audio[l] => raw[l][hand[l]] # "new"
    <3>1. 0 \notin DOMAIN Audio[l]
      BY Numbered
    <3>2. QED
      BY <3>1 DEF LaneCount, TakenInOrder, Taken
  <2>4. \A i \in DOMAIN Audio[l] : raw'[l][i] = raw[l][i] \/ (raw[l][i] # "new" /\ raw'[l][i] = "acked")
    BY <2>2, <2>3
  <2>5. UNCHANGED <<buffers[l], windows[l]>> /\ hand'[l] \in {hand[l], 0}
    BY <2>1
  <2>6. QED
    BY <2>4, <2>5, LaneFrame
<1>4. ASSUME NEW m \in Lanes, m # l, Fetch(m) PROVE Still
  BY <1>a, <1>4 DEF Fetch, Discard, Consumed
<1>5. ASSUME NEW m \in Lanes, m # l, Ack(m) PROVE Still
  BY <1>a, <1>5 DEF Ack, Calm
<1>6. ASSUME NEW m \in Lanes, Search(m) \/ Publish(m)
      PROVE Still
  BY <1>6 DEF Search, Publish
<1>7. ~Crash /\ \A m \in Lanes : ~Redeliver(m)
  BY DEF Crash, Redeliver, Calm
<1>8. CASE Boot \/ Store \/ UNCHANGED vars
  <2>1. Still
    BY <1>8 DEF Boot, Store, Enroll, EnrollAdd, Delete, vars
  <2>2. QED
    BY <1>1, <2>1
<1>9. QED
  BY <1>1, <1>2, <1>3, <1>4, <1>5, <1>6, <1>7, <1>8 DEF Next, Worker

LEMMA CountStep == CutInv /\ CountInv /\ [Next]_vars => CountInv'
<1> SUFFICES ASSUME CutInv, CountInv, [Next]_vars PROVE CountInv'
  OBVIOUS
<1> USE DEF worker, store
<1>1. faults' = faults \/ ~Calm
  BY DEF Next, Worker, Store, Fetch, Search, Publish, Ack, Redeliver, Crash, Boot, Enroll, EnrollAdd,
         Delete, vars, Calm
<1>2. faults \in Nat /\ faults' \in Nat /\ (faults' = 0 => faults = 0 /\ Calm)
  <2>1. faults \in Nat /\ (~Calm => faults' = faults + 1)
    BY DEF CountInv, Fault, Calm
  <2>2. QED
    BY <1>1, <2>1
<1>3. DOMAIN hand' = Lanes
  <2>1. ASSUME NEW l \in Lanes, Worker(l) \/ Redeliver(l) PROVE DOMAIN hand' = Lanes
    BY <2>1 DEF CountInv, Worker, Fetch, Search, Publish, Ack, Redeliver, Ends
  <2>2. CASE Crash \/ Boot \/ Store \/ UNCHANGED vars
    BY <2>2 DEF CountInv, Crash, Ends, Boot, Store, Enroll, EnrollAdd, Delete, vars
  <2>3. QED
    BY <2>1, <2>2 DEF Next
<1>4. ASSUME faults' = 0, NEW l \in Lanes PROVE LaneCount(l)'
  BY <1>2, <1>4, LaneStep DEF CountInv
<1>5. QED
  BY <1>2, <1>3, <1>4 DEF CountInv

\* When all of the lane was taken, the windows are those that counting gives.
LEMMA CountedWhole ==
    ASSUME CutInv, NEW l \in Lanes, LaneCount(l), \A i \in DOMAIN raw[l] : raw[l][i] = "acked"
    PROVE  /\ {Last(windows[l][w]) : w \in DOMAIN windows[l]} = Complete(l)
           /\ Len(windows[l]) = Cardinality(Complete(l))
           /\ \A w \in DOMAIN windows[l] :
                 /\ ToSet(windows[l][w]) \subseteq Since(l, Last(windows[l][w]))
                 /\ Cardinality(ToSet(windows[l][w])) = WINDOW
<1> DEFINE n == Len(windows[l])
           lasts == [w \in 1 .. n |-> Last(windows[l][w])]
<1>1. n \in Nat /\ DOMAIN windows[l] = 1 .. n /\ \A w \in 1 .. n : windows[l][w] \in Seq(DOMAIN Audio[l])
  BY DEF CutInv, WindowsOK, WindowsOf
<1>2. Complete(l) \subseteq Taken(l)
  BY DEF Complete, Taken, CutInv, RawOK, RawOf
<1>3. /\ \A w \in 1 .. n : Whole(l, windows[l][w]) /\ Last(windows[l][w]) \in Complete(l)
      /\ \A i \in Complete(l) : \E w \in 1 .. n : Last(windows[l][w]) = i
      /\ \A v, w \in 1 .. n : Last(windows[l][v]) = Last(windows[l][w]) => v = w
  BY <1>2 DEF LaneCount, WindowsCount
<1>4. {Last(windows[l][w]) : w \in DOMAIN windows[l]} = Complete(l)
  BY <1>1, <1>3
<1>5. n = Cardinality(Complete(l))
  <2>1. /\ lasts \in [1 .. n -> Complete(l)] /\ IsInjective(lasts)
        /\ \A i \in Complete(l) : \E w \in 1 .. n : lasts[w] = i
    BY <1>3 DEF IsInjective
  <2> HIDE DEF lasts
  <2>2. QED
    BY <1>1, <2>1, CountDistinct
<1>6. ASSUME NEW w \in 1 .. n
      PROVE  /\ ToSet(windows[l][w]) \subseteq Since(l, Last(windows[l][w]))
             /\ Cardinality(ToSet(windows[l][w])) = WINDOW
  <2> DEFINE q == windows[l][w]
  <2>1. q \in Seq(DOMAIN Audio[l]) /\ Whole(l, q) /\ WINDOW \in Nat
    BY <1>1, <1>3, AudioAssumption
  <2> HIDE DEF q
  <2>2. DOMAIN q = 1 .. WINDOW /\ q \in [1 .. WINDOW -> ToSet(q)] /\ IsInjective(q)
        /\ \A x \in ToSet(q) : \E k \in 1 .. WINDOW : q[k] = x
    BY <2>1 DEF Whole, ToSet
  <2>3. Cardinality(ToSet(q)) = WINDOW
    BY <2>1, <2>2, CountDistinct
  <2>4. ToSet(q) \subseteq Since(l, Last(q))
    BY <2>1, <2>2 DEF Whole, ToSet
  <2>5. QED
    BY <2>3, <2>4 DEF q
<1>7. QED
  BY <1>1, <1>4, <1>5, <1>6

\* In a run without faults a window is cut wherever the count of a session's chunks since its
\* last marker says so, for windows of any length, streams of any content, and workers that
\* take turns in any way: none is lost, cut twice, or put together from both sides of a marker.
THEOREM WindowsAreWhole == Spec => []WindowsWhole
<1>1. CutInv /\ CountInv => WindowsWhole
  BY CountedWhole DEF CountInv, WindowsWhole
<1>2. QED
  BY <1>1, InitCut, CutStep, InitCount, CountStep, PTL DEF Spec
-----------------------------------------------------------------------------
(* Types.                                                                    *)

Places == {"fetch", "search", "publish", "ack"}

WorkerType(l) == /\ at[l] \in Places
                 /\ hand[l] \in DOMAIN Audio[l] \cup {0} /\ (hand[l] = 0 <=> at[l] = "fetch")
                 /\ speaker[l] \in Voices \cup {NoVoice} /\ (speaker[l] # NoVoice <=> at[l] = "publish")
BufferType(l) == \A s \in Sessions : Len(buffers[l][s]) < WINDOW
StreamType(l) == /\ raw[l] \in [DOMAIN Audio[l] -> {"new", "out", "again", "acked"}]
                 /\ audio[l] \in Seq(DOMAIN Audio[l]) /\ identities[l] \in Seq(Voices)
DownType(l)   == ~up => hand[l] = 0 /\ buffers[l] = NoBuffers
LaneType(l)   == WorkerType(l) /\ BufferType(l) /\ StreamType(l) /\ DownType(l)

Domains   == /\ DOMAIN at = Lanes /\ DOMAIN hand = Lanes /\ DOMAIN audio = Lanes
             /\ DOMAIN speaker = Lanes /\ DOMAIN identities = Lanes
StoreType == /\ up \in BOOLEAN
             /\ prints \subseteq Voices /\ enrolling \in Voices \cup {NoVoice} /\ lost \subseteq Voices

TypeInv == CutInv /\ Domains /\ StoreType /\ \A l \in Lanes : LaneType(l)

LEMMA TypeInvTypeOK == TypeInv => TypeOK
<1> SUFFICES ASSUME TypeInv PROVE TypeOK
  OBVIOUS
<1>1. ASSUME NEW l \in Lanes
      PROVE  /\ \A s \in Sessions : buffers[l][s] \in Seq(DOMAIN Audio[l]) /\ Len(buffers[l][s]) < WINDOW
             /\ windows[l] \in Seq(Seq(DOMAIN Audio[l]))
  BY <1>1 DEF TypeInv, LaneType, BufferType, CutInv, BuffersOK, BuffersOf, AudioOf, WindowsOK, WindowsOf
<1>2. QED
  BY <1>1 DEF TypeInv, StoreType, LaneType, WorkerType, StreamType, DownType, Places, TypeOK

LEMMA InitTypes == Init => TypeInv
<1> SUFFICES ASSUME Init PROVE TypeInv
  OBVIOUS
<1>1. Domains /\ StoreType
  BY DEF Init, Domains, StoreType
<1>2. ASSUME NEW l \in Lanes PROVE LaneType(l)
  <2>1. WorkerType(l) /\ DownType(l)
    BY AudioAssumption DEF Init, WorkerType, Places, DownType
  <2>2. BufferType(l)
    BY AudioAssumption DEF Init, BufferType, NoBuffers
  <2>3. StreamType(l)
    BY DEF Init, StreamType
  <2>4. QED
    BY <2>1, <2>2, <2>3 DEF LaneType
<1>3. QED
  BY <1>1, <1>2, InitCut DEF TypeInv

\* A lane whose worker rests.
Rests(l) == /\ at'[l] = at[l] /\ hand'[l] = hand[l] /\ speaker'[l] = speaker[l] /\ audio'[l] = audio[l]
            /\ buffers'[l] = buffers[l] /\ identities'[l] = identities[l]

LEMMA RestsType ==
    ASSUME NEW l \in Lanes, LaneType(l), Rests(l), up' \in {up, TRUE},
           raw'[l] \in [DOMAIN Audio[l] -> {"new", "out", "again", "acked"}]
    PROVE  LaneType(l)'
<1>1. WorkerType(l)' /\ BufferType(l)' /\ StreamType(l)'
  BY DEF LaneType, Rests, WorkerType, BufferType, StreamType
<1>2. DownType(l)'
  BY DEF LaneType, Rests, DownType
<1>3. QED
  BY <1>1, <1>2 DEF LaneType

LEMMA FetchTypes ==
    ASSUME TypeInv, NEW l \in Lanes, Fetch(l)
    PROVE  Domains' /\ \A m \in Lanes : LaneType(m)'
<1>1. PICK i \in DOMAIN raw[l] :
          /\ hand' = [hand EXCEPT ![l] = i]
          /\ raw' = [raw EXCEPT ![l][i] = "out"]
          /\ \/ /\ buffers' = [buffers EXCEPT ![l][Audio[l][i].session] = <<>>]
                /\ Go(l, "ack") /\ UNCHANGED audio
             \/ /\ Len(Added(l, i)) < WINDOW
                /\ buffers' = [buffers EXCEPT ![l][Audio[l][i].session] = Added(l, i)]
                /\ Go(l, "ack") /\ UNCHANGED audio
             \/ /\ audio' = [audio EXCEPT ![l] = Added(l, i)]
                /\ buffers' = [buffers EXCEPT ![l][Audio[l][i].session] = <<>>]
                /\ Go(l, "search")
  BY DEF Fetch, Discard, Consumed
<1> DEFINE s == Audio[l][i].session
<1>a. /\ DOMAIN raw = Lanes /\ DOMAIN buffers = Lanes /\ DOMAIN buffers[l] = Sessions /\ CutInv
      /\ LaneType(l) /\ Domains
      /\ raw[l] \in [DOMAIN Audio[l] -> {"new", "out", "again", "acked"}]
  BY DEF TypeInv, CutInv, RawOK, BuffersOK, BuffersOf, LaneType, StreamType
<1>b. up /\ at[l] = "fetch" /\ UNCHANGED <<up, speaker, identities>>
  BY DEF Fetch
<1>2. i \in DOMAIN Audio[l] /\ i # 0 /\ s \in Sessions
  BY <1>a, Numbered
<1>3. Added(l, i) \in Seq(DOMAIN Audio[l])
  BY <1>a, <1>2, AddedIsOfSession DEF CutInv, AudioOf
<1>4. Domains'
  BY <1>a, <1>b, <1>1 DEF Domains, Go
<1>5. at'[l] \in {"ack", "search"} /\ hand'[l] = i /\ speaker'[l] = speaker[l]
  BY <1>a, <1>b, <1>1 DEF Domains, Go
<1>6. WorkerType(l)'
  BY <1>a, <1>b, <1>2, <1>5 DEF LaneType, WorkerType, Places
<1>7. BufferType(l)'
  <2>1. ASSUME NEW t \in Sessions PROVE Len(buffers'[l][t]) < WINDOW
    <3>1. CASE t # s
      BY <1>1, <1>a, <3>1 DEF LaneType, BufferType
    <3>2. CASE buffers' = [buffers EXCEPT ![l][s] = <<>>] /\ t = s
      BY <1>a, <1>2, <3>2, AudioAssumption
    <3>3. CASE buffers' = [buffers EXCEPT ![l][s] = Added(l, i)] /\ Len(Added(l, i)) < WINDOW /\ t = s
      BY <1>a, <1>2, <3>3
    <3>4. QED
      BY <1>1, <3>1, <3>2, <3>3
  <2>2. QED
    BY <2>1 DEF BufferType
<1>8. StreamType(l)'
  <2>1. raw'[l] \in [DOMAIN Audio[l] -> {"new", "out", "again", "acked"}]
    BY <1>1, <1>a
  <2>2. audio'[l] \in Seq(DOMAIN Audio[l])
    <3>1. audio'[l] = audio[l] \/ audio'[l] = Added(l, i)
      BY <1>1, <1>a DEF Domains
    <3>2. QED
      BY <1>3, <1>a, <3>1 DEF LaneType, StreamType
  <2>3. QED
    BY <1>a, <1>b, <2>1, <2>2 DEF LaneType, StreamType
<1>9. DownType(l)'
  BY <1>b DEF DownType
<1>10. ASSUME NEW m \in Lanes, m # l PROVE LaneType(m)'
  <2>1. /\ hand'[m] = hand[m] /\ raw'[m] = raw[m] /\ buffers'[m] = buffers[m] /\ at'[m] = at[m]
        /\ audio'[m] = audio[m]
    BY <1>1, <1>a, <1>10 DEF Domains, Go
  <2>2. Rests(m) /\ up' = up
    BY <1>b, <2>1 DEF Rests
  <2>3. LaneType(m) /\ raw'[m] \in [DOMAIN Audio[m] -> {"new", "out", "again", "acked"}]
    BY <2>1 DEF TypeInv, LaneType, StreamType
  <2>4. QED
    BY <2>2, <2>3, RestsType
<1>11. QED
  BY <1>4, <1>6, <1>7, <1>8, <1>9, <1>10 DEF LaneType

\* A lane is as good as it was when the others rest.
LEMMA OthersRest ==
    ASSUME TypeInv, NEW l \in Lanes, LaneType(l)', up' = up,
           \A m \in Lanes : m # l => Rests(m) /\ raw'[m] = raw[m]
    PROVE  \A m \in Lanes : LaneType(m)'
<1>1. ASSUME NEW m \in Lanes, m # l PROVE LaneType(m)'
  <2>1. Rests(m) /\ raw'[m] = raw[m] /\ LaneType(m)
    BY <1>1 DEF TypeInv
  <2>2. raw'[m] \in [DOMAIN Audio[m] -> {"new", "out", "again", "acked"}]
    BY <2>1 DEF LaneType, StreamType
  <2>3. QED
    BY <2>1, <2>2, RestsType
<1>2. QED
  BY <1>1

LEMMA SearchTypes ==
    ASSUME TypeInv, NEW l \in Lanes, Search(l)
    PROVE  Domains' /\ \A m \in Lanes : LaneType(m)'
<1>1. /\ \/ \E v \in prints : speaker' = [speaker EXCEPT ![l] = v] /\ Go(l, "publish")
         \/ Go(l, "ack") /\ UNCHANGED speaker
      /\ at[l] = "search"
      /\ UNCHANGED <<up, hand, buffers, audio, raw, identities>>
  BY DEF Search
<1>2. Domains /\ LaneType(l) /\ prints \subseteq Voices
  BY DEF TypeInv, StoreType
<1>3. Domains'
  BY <1>1, <1>2 DEF Domains, Go
<1>4. WorkerType(l)'
  <2>1. hand'[l] = hand[l] /\ hand[l] \in DOMAIN Audio[l] \cup {0} /\ hand[l] # 0 /\ speaker[l] = NoVoice
    BY <1>1, <1>2 DEF LaneType, WorkerType
  <2>2. CASE Go(l, "ack") /\ UNCHANGED speaker
    BY <1>2, <2>1, <2>2 DEF Go, Domains, WorkerType, Places
  <2>3. ASSUME NEW v \in prints, speaker' = [speaker EXCEPT ![l] = v], Go(l, "publish")
        PROVE  WorkerType(l)'
    <3>1. v \in Voices /\ v # NoVoice
      BY <1>2, AudioAssumption
    <3>2. QED
      BY <1>2, <2>1, <2>3, <3>1 DEF Go, Domains, WorkerType, Places
  <2>4. QED
    BY <1>1, <2>2, <2>3
<1>5. BufferType(l)' /\ StreamType(l)' /\ DownType(l)'
  BY <1>1, <1>2 DEF LaneType, BufferType, StreamType, DownType
<1>6. ASSUME NEW m \in Lanes, m # l PROVE Rests(m) /\ raw'[m] = raw[m]
  BY <1>1, <1>2, <1>6 DEF Rests, Domains, Go
<1>7. LaneType(l)' /\ up' = up
  BY <1>1, <1>4, <1>5 DEF LaneType
<1>8. QED
  BY <1>3, <1>6, <1>7, OthersRest

LEMMA PublishTypes ==
    ASSUME TypeInv, NEW l \in Lanes, Publish(l)
    PROVE  Domains' /\ \A m \in Lanes : LaneType(m)'
<1>1. /\ Go(l, "ack") /\ speaker' = [speaker EXCEPT ![l] = NoVoice] /\ at[l] = "publish"
      /\ identities' = [identities EXCEPT ![l] = Append(identities[l], speaker[l])]
         \/ UNCHANGED identities
      /\ UNCHANGED <<up, hand, buffers, audio, raw>>
  BY DEF Publish
<1>2. Domains /\ LaneType(l)
  BY DEF TypeInv
<1>3. Domains'
  BY <1>1, <1>2 DEF Domains, Go
<1>4. speaker[l] \in Voices /\ hand[l] \in DOMAIN Audio[l] \cup {0} /\ hand[l] # 0
  BY <1>1, <1>2 DEF LaneType, WorkerType
<1>5. WorkerType(l)'
  BY <1>1, <1>2, <1>4 DEF Go, Domains, WorkerType, Places
<1>6. StreamType(l)'
  <2>1. identities'[l] = identities[l] \/ identities'[l] = Append(identities[l], speaker[l])
    BY <1>1, <1>2 DEF Domains
  <2>2. identities'[l] \in Seq(Voices)
    <3>1. identities[l] \in Seq(Voices)
      BY <1>2 DEF LaneType, StreamType
    <3>2. Append(identities[l], speaker[l]) \in Seq(Voices)
      BY <1>4, <3>1
    <3>3. QED
      BY <2>1, <3>1, <3>2
  <2>3. QED
    BY <1>1, <1>2, <2>2 DEF LaneType, StreamType
<1>7. BufferType(l)' /\ DownType(l)'
  BY <1>1, <1>2 DEF LaneType, BufferType, DownType
<1>8. ASSUME NEW m \in Lanes, m # l PROVE Rests(m) /\ raw'[m] = raw[m]
  BY <1>1, <1>2, <1>8 DEF Rests, Domains, Go
<1>9. LaneType(l)' /\ up' = up
  BY <1>1, <1>5, <1>6, <1>7 DEF LaneType
<1>10. QED
  BY <1>3, <1>8, <1>9, OthersRest

\* The worker waits for the next message.
LEMMA AckedTypes ==
    ASSUME TypeInv, NEW l \in Lanes, at[l] = "ack", UNCHANGED <<up, buffers, speaker, identities>>,
           raw' = [raw EXCEPT ![l][hand[l]] = "acked"], Go(l, "fetch"),
           hand' = [hand EXCEPT ![l] = 0], audio' = [audio EXCEPT ![l] = <<>>]
    PROVE  Domains' /\ \A m \in Lanes : LaneType(m)'
<1>1. Domains /\ LaneType(l) /\ DOMAIN raw = Lanes
  BY DEF TypeInv, CutInv, RawOK
<1>2. Domains'
  BY <1>1 DEF Domains, Go
<1>3. WorkerType(l)'
  BY <1>1 DEF LaneType, WorkerType, Places, Domains, Go
<1>4. StreamType(l)'
  <2>1. raw'[l] \in [DOMAIN Audio[l] -> {"new", "out", "again", "acked"}]
    BY <1>1 DEF LaneType, StreamType
  <2>2. audio'[l] = <<>> /\ identities'[l] = identities[l]
    BY <1>1 DEF Domains
  <2>3. StreamType(l)
    BY <1>1 DEF LaneType
  <2>4. audio'[l] \in Seq(DOMAIN Audio[l]) /\ identities'[l] \in Seq(Voices)
    <3>1. <<>> \in Seq(DOMAIN Audio[l])
      OBVIOUS
    <3>2. identities[l] \in Seq(Voices)
      BY <2>3 DEF StreamType
    <3>3. QED
      BY <2>2, <3>1, <3>2, Zenon
  <2>5. QED
    BY <2>1, <2>4 DEF StreamType
<1>5. BufferType(l)' /\ DownType(l)'
  BY <1>1 DEF LaneType, BufferType, DownType, Domains
<1>6. ASSUME NEW m \in Lanes, m # l PROVE Rests(m) /\ raw'[m] = raw[m]
  BY <1>1, <1>6 DEF Rests, Domains, Go
<1>7. LaneType(l)'
  BY <1>3, <1>4, <1>5 DEF LaneType
<1>8. QED
  BY <1>2, <1>6, <1>7, OthersRest

LEMMA EndsTypes ==
    ASSUME TypeInv, Ends, UNCHANGED identities
    PROVE  Domains' /\ \A m \in Lanes : LaneType(m)'
<1>1. Domains'
  BY DEF Ends, Domains, TypeInv
<1>2. ASSUME NEW l \in Lanes PROVE LaneType(l)'
  <2>1. /\ at'[l] = "fetch" /\ hand'[l] = 0 /\ buffers'[l] = NoBuffers
        /\ audio'[l] = <<>> /\ speaker'[l] = NoVoice
        /\ raw'[l] = [i \in DOMAIN raw[l] |-> IF raw[l][i] = "out" THEN "again" ELSE raw[l][i]]
    BY DEF Ends
  <2>2. raw[l] \in [DOMAIN Audio[l] -> {"new", "out", "again", "acked"}] /\ identities[l] \in Seq(Voices)
    BY DEF TypeInv, LaneType, StreamType
  <2>3. WorkerType(l)' /\ DownType(l)'
    BY <2>1 DEF WorkerType, Places, DownType
  <2>4. BufferType(l)'
    BY <2>1, AudioAssumption DEF BufferType, NoBuffers
  <2>5. raw'[l] \in [DOMAIN Audio[l] -> {"new", "out", "again", "acked"}]
    BY <2>1, <2>2
  <2>6. StreamType(l)'
    BY <2>1, <2>2, <2>5 DEF StreamType
  <2>7. QED
    BY <2>3, <2>4, <2>6 DEF LaneType
<1>3. QED
  BY <1>1, <1>2

\* The steps that leave the workers alone.
LEMMA IdleTypes ==
    ASSUME TypeInv, UNCHANGED <<worker, identities>>, up' \in {up, TRUE},
           raw' = raw \/ \E l \in Lanes : raw' = [raw EXCEPT ![l][hand[l]] = "again"]
    PROVE  Domains' /\ \A m \in Lanes : LaneType(m)'
<1>1. Domains'
  BY DEF TypeInv, Domains, worker
<1>2. ASSUME NEW m \in Lanes PROVE LaneType(m)'
  <2>1. LaneType(m) /\ Rests(m)
    BY DEF TypeInv, Rests, worker
  <2>2. DOMAIN raw = Lanes /\ raw[m] \in [DOMAIN Audio[m] -> {"new", "out", "again", "acked"}]
    BY <2>1 DEF TypeInv, CutInv, RawOK, LaneType, StreamType
  <2>3. ASSUME NEW l \in Lanes, raw' = [raw EXCEPT ![l][hand[l]] = "again"]
        PROVE  raw'[m] \in [DOMAIN Audio[m] -> {"new", "out", "again", "acked"}]
    BY <2>2, <2>3
  <2>4. raw'[m] \in [DOMAIN Audio[m] -> {"new", "out", "again", "acked"}]
    BY <2>2, <2>3
  <2>5. QED
    BY <2>1, <2>4, RestsType
<1>3. QED
  BY <1>1, <1>2

\* The store of voiceprints.
LEMMA StoreTypes == StoreType /\ [Next]_vars => StoreType'
<1> SUFFICES ASSUME StoreType, [Next]_vars PROVE StoreType'
  OBVIOUS
<1>1. up' \in BOOLEAN
  <2>1. up' \in {up, TRUE, FALSE}
    BY DEF Next, Worker, Fetch, Search, Publish, Ack, Ends, Redeliver, Crash, Boot, Store,
           Enroll, EnrollAdd, Delete, vars
  <2>2. QED
    BY <2>1 DEF StoreType
<1>2. CASE UNCHANGED store
  BY <1>1, <1>2 DEF StoreType, store
<1>3. ASSUME NEW v \in Voices, Enroll(v) \/ Delete(v) PROVE StoreType'
  BY <1>1, <1>3 DEF StoreType, Enroll, Delete
<1>4. CASE EnrollAdd
  <2>1. enrolling \in Voices /\ enrolling' = NoVoice
    BY <1>4 DEF EnrollAdd, StoreType
  <2>2. prints' \subseteq Voices /\ lost' \subseteq Voices
    BY <1>4, <2>1 DEF EnrollAdd, WithRow, StoreType
  <2>3. QED
    BY <1>1, <2>1, <2>2 DEF StoreType
<1>5. CASE UNCHANGED vars
  BY <1>2, <1>5 DEF vars
<1>6. CASE (\E l \in Lanes : Worker(l) \/ Redeliver(l)) \/ Crash \/ Boot
  <2>1. UNCHANGED store
    BY <1>6 DEF Worker, Fetch, Search, Publish, Ack, Redeliver, Crash, Boot
  <2>2. QED
    BY <1>2, <2>1
<1>7. QED
  BY <1>3, <1>4, <1>5, <1>6 DEF Next, Store

LEMMA TypeStep == TypeInv /\ [Next]_vars => TypeInv'
<1> SUFFICES ASSUME TypeInv, [Next]_vars PROVE TypeInv'
  OBVIOUS
<1> DEFINE Goal == Domains' /\ \A m \in Lanes : LaneType(m)'
<1>1. CutInv' /\ StoreType'
  BY CutStep, StoreTypes DEF TypeInv
<1>2. ASSUME NEW l \in Lanes, Worker(l) PROVE Goal
  <2>1. CASE Fetch(l)
    BY <2>1, FetchTypes
  <2>2. CASE Search(l)
    BY <2>2, SearchTypes
  <2>3. CASE Publish(l)
    BY <2>3, PublishTypes
  <2>4. CASE Ack(l)
    <3>1. at[l] = "ack" /\ UNCHANGED identities
      BY <2>4 DEF Ack
    <3>2. CASE Ends
      BY <3>1, <3>2, EndsTypes
    <3>3. CASE ~Ends
      <4>1. /\ raw' = [raw EXCEPT ![l][hand[l]] = "acked"] /\ Go(l, "fetch")
            /\ hand' = [hand EXCEPT ![l] = 0] /\ audio' = [audio EXCEPT ![l] = <<>>]
            /\ UNCHANGED <<up, buffers, speaker, identities>>
        BY <2>4, <3>3 DEF Ack
      <4>2. QED
        BY <3>1, <4>1, AckedTypes
    <3>4. QED
      BY <3>2, <3>3
  <2>5. QED
    BY <1>2, <2>1, <2>2, <2>3, <2>4 DEF Worker
<1>3. ASSUME Crash PROVE Goal
  <2>1. Ends /\ UNCHANGED identities
    BY <1>3 DEF Crash
  <2>2. QED
    BY <2>1, EndsTypes
<1>4. ASSUME NEW l \in Lanes, Redeliver(l) PROVE Goal
  <2>1. /\ UNCHANGED <<worker, identities>> /\ up' \in {up, TRUE}
        /\ raw' = [raw EXCEPT ![l][hand[l]] = "again"]
    BY <1>4 DEF Redeliver
  <2>2. QED
    BY <2>1, IdleTypes
<1>5. ASSUME Boot \/ Store \/ UNCHANGED vars PROVE Goal
  <2>1. UNCHANGED <<worker, identities>> /\ up' \in {up, TRUE} /\ raw' = raw
    BY <1>5 DEF Boot, Store, Enroll, EnrollAdd, Delete, vars
  <2>2. QED
    BY <2>1, IdleTypes
<1>6. Goal
  <2> HIDE DEF Goal
  <2>1. CASE \E l \in Lanes : Worker(l) \/ Redeliver(l)
    BY <1>2, <1>4, <2>1
  <2>2. QED
    BY <1>3, <1>5, <2>1 DEF Next
<1>7. QED
  BY <1>1, <1>6 DEF TypeInv

\* Every variable has its type, for all audio and any windows: a worker that fetches has no
\* message in hand, only one that publishes has a speaker, a buffer is shorter than a window,
\* and a process that is down holds nothing.
THEOREM TypeCorrect == Spec => []TypeOK
<1>1. QED
  BY InitTypes, TypeStep, TypeInvTypeOK, PTL DEF Spec
=============================================================================
