--------------------------- MODULE MergeLoopProofs --------------------------
(***************************************************************************)
(* The merge loop of handle_append_entries computes MergeEntries, for logs *)
(* and requests of every length and terms of every size.                   *)
(***************************************************************************)
EXTENDS MergeLoop, TLAPS, SequenceTheorems

-----------------------------------------------------------------------------
(* The invariant: after d iterations the log is the merge of d entries.    *)

Base(n, m) == m.prev_log_index - n.snapshot_index

Agrees(n, m, k) ==
    /\ Base(n, m) + k <= Len(n.log)
    /\ n.log[Base(n, m) + k].term = m.entries[k].term

Kept(n, m, x) ==
    \A k \in 1 .. Len(m.entries) : Base(n, m) + k <= x => Agrees(n, m, k)

AllAgree(n, m, d) == \A k \in 1 .. d : Agrees(n, m, k)

\* l is the log of n with the first d entries of m merged.
MergedUpTo(n, m, d, l) ==
    IF AllAgree(n, m, d)
    THEN l = n.log
    ELSE /\ Len(l) = Base(n, m) + d
         /\ \A x \in 1 .. Len(l) :
               l[x] = IF Kept(n, m, x) THEN n.log[x]
                                       ELSE m.entries[x - Base(n, m)]

Accepted(n, m) ==
    /\ n.log \in Seq(Entry) /\ m.entries \in Seq(Entry)
    /\ n.snapshot_index \in Nat /\ m.prev_log_index \in Nat
    /\ Base(n, m) \in 0 .. Len(n.log)

\* The entries merged so far.
Done == insert_at - request.prev_log_index - 1

LoopInv ==
    /\ Accepted(follower, request)
    /\ insert_at \in Nat
    /\ Done \in 0 .. Len(request.entries)
    /\ remaining = SubSeq(request.entries, Done + 1, Len(request.entries))
    /\ log \in Seq(Entry)
    /\ MergedUpTo(follower, request, Done, log)

-----------------------------------------------------------------------------

LEMMA LogsAreEntries ==
    ASSUME NEW first \in Nat, first >= 1, NEW l \in Logs(first)
    PROVE  l \in Seq(Entry)
<1>1. PICK len \in 0 .. MaxEntries :
           l \in [1 .. len -> [term : first .. MaxEntryTerm, command : Value]]
  BY DEF Logs
<1>2. first .. MaxEntryTerm \subseteq Nat
  OBVIOUS
<1>3. l \in [1 .. len -> Entry] /\ len \in Nat
  BY <1>1, <1>2, LoopAssumption DEF Entry
<1>. QED  BY <1>3

\* The first entry that is left, and the rest.
LEMMA Remaining ==
    ASSUME NEW e \in Seq(Entry), NEW d \in 0 .. Len(e)
    PROVE  LET r == SubSeq(e, d + 1, Len(e))
           IN  /\ r = << >> <=> d = Len(e)
               /\ r # << >> => /\ d + 1 \in 1 .. Len(e) /\ e[d + 1] \in Entry
                               /\ Head(r) = e[d + 1]
                               /\ Tail(r) = SubSeq(e, d + 2, Len(e))
<1> DEFINE r == SubSeq(e, d + 1, Len(e))
<1>1. Len(e) \in Nat /\ d \in Nat
  OBVIOUS
<1>2. CASE d = Len(e)
  <2>1. r = << >>
    BY <1>1, <1>2, SubSeqEmpty
  <2>. QED  BY <1>2, <2>1
<1>3. CASE d # Len(e)
  <2>1. /\ d + 1 \in 1 .. Len(e) /\ Len(e) \in d + 1 .. Len(e)
        /\ d + 1 + 1 = d + 2
    BY <1>1, <1>3
  <2>2. Head(r) = e[d + 1] /\ Tail(r) = SubSeq(e, d + 2, Len(e))
    BY <2>1, HeadTailOfSubSeq
  <2>3. r # << >>
    <3>1. \A k \in d + 1 .. Len(e) : e[k] \in Entry
      BY <1>1
    <3>2. Len(r) = Len(e) - (d + 1) + 1
      BY <1>1, <2>1, <3>1, SubSeqProperties
    <3> HIDE DEF r
    <3>3. Len(r) # 0
      BY <1>1, <2>1, <3>2
    <3>. QED  BY <3>3, EmptySeq
  <2>4. e[d + 1] \in Entry
    BY <2>1
  <2>. QED  BY <1>3, <2>1, <2>2, <2>3, <2>4
<1>. QED  BY <1>2, <1>3

\* A prefix with one entry behind it.
LEMMA Pushed ==
    ASSUME NEW l \in Seq(Entry), NEW p \in 0 .. Len(l), NEW e \in Entry
    PROVE  LET r == Append(SubSeq(l, 1, p), e)
           IN  /\ r \in Seq(Entry) /\ Len(r) = p + 1
               /\ \A x \in 1 .. p : r[x] = l[x]
               /\ r[p + 1] = e
<1> DEFINE s == SubSeq(l, 1, p)
<1>1. Len(l) \in Nat /\ p \in Nat /\ \A k \in 1 .. p : l[k] \in Entry
  OBVIOUS
<1>2. /\ s \in Seq(Entry) /\ Len(s) = p /\ \A x \in 1 .. p : s[x] = l[x]
  <2>1. /\ s \in Seq(Entry) /\ Len(s) = IF 1 <= p THEN p - 1 + 1 ELSE 0
        /\ \A x \in 1 .. p - 1 + 1 : s[x] = l[1 + x - 1]
    BY <1>1, SubSeqProperties
  <2>2. p - 1 + 1 = p /\ \A x \in 1 .. p : 1 + x - 1 = x
    BY <1>1
  <2> HIDE DEF s
  <2>. QED  BY <1>1, <2>1, <2>2
<1> HIDE DEF s
<1>3. /\ Append(s, e) \in Seq(Entry) /\ Len(Append(s, e)) = Len(s) + 1
      /\ \A x \in 1 .. Len(s) : Append(s, e)[x] = s[x]
      /\ Append(s, e)[Len(s) + 1] = e
  BY <1>2
<1>. QED  BY <1>2, <1>3 DEF s

\* One entry more: e is pushed behind the first Base + d entries of l.
LEMMA MergeOneMore ==
    ASSUME NEW n, NEW m, Accepted(n, m), NEW d \in 0 .. Len(m.entries) - 1,
           NEW l \in Seq(Entry), MergedUpTo(n, m, d, l),
           ~AllAgree(n, m, d + 1), NEW r \in Seq(Entry),
           Len(r) = Base(n, m) + d + 1,
           \A x \in 1 .. Base(n, m) + d : r[x] = l[x],
           r[Base(n, m) + d + 1] = m.entries[d + 1]
    PROVE  MergedUpTo(n, m, d + 1, r)
<1> DEFINE b == Base(n, m)
           e == m.entries
<1>1. /\ n.log \in Seq(Entry) /\ e \in Seq(Entry) /\ b \in 0 .. Len(n.log)
      /\ Len(e) \in Nat /\ Len(n.log) \in Nat /\ d \in Nat /\ d + 1 <= Len(e)
  BY DEF Accepted
<1>2. (\A x \in 1 .. b + d : r[x] = l[x]) /\ r[b + d + 1] = e[d + 1]
  OBVIOUS
<1> HIDE DEF b, e
<1>3. PICK j \in 1 .. d + 1 : ~Agrees(n, m, j)
  BY DEF AllAgree
<1>4. ~Kept(n, m, b + d + 1)
  <2>1. j \in 1 .. Len(m.entries) /\ Base(n, m) + j <= b + d + 1
    BY <1>1, <1>3 DEF b, e
  <2>. QED  BY <1>3, <2>1 DEF Kept
<1>5. ASSUME NEW x \in 1 .. b + d
      PROVE  l[x] = IF Kept(n, m, x) THEN n.log[x] ELSE e[x - b]
  <2>1. CASE AllAgree(n, m, d)
    <3>1. Kept(n, m, x)
      <4> SUFFICES ASSUME NEW k \in 1 .. Len(m.entries), Base(n, m) + k <= x
                   PROVE  Agrees(n, m, k)
        BY DEF Kept
      <4>1. k \in 1 .. d
        BY <1>1, <1>5 DEF b, e
      <4>. QED  BY <2>1, <4>1 DEF AllAgree
    <3>. QED  BY <2>1, <3>1 DEF MergedUpTo
  <2>2. CASE ~AllAgree(n, m, d)
    BY <2>2 DEF MergedUpTo, b, e
  <2>. QED  BY <2>1, <2>2
<1>6. Len(r) = b + (d + 1) /\ b + d + 1 - b = d + 1
  BY <1>1 DEF b
<1>7. ASSUME NEW x \in 1 .. Len(r)
      PROVE  r[x] = IF Kept(n, m, x) THEN n.log[x] ELSE e[x - b]
  <2>1. CASE x = b + d + 1
    <3>1. r[x] = e[x - b] /\ ~Kept(n, m, x)
      <4>1. r[x] = e[d + 1] /\ x - b = d + 1
        BY <1>1, <1>2, <1>6, <2>1
      <4>2. ~Kept(n, m, x)
        BY <1>4, <2>1
      <4>. QED  BY <4>1, <4>2
    <3>. QED  BY <3>1
  <2>2. CASE x # b + d + 1
    <3>1. x \in 1 .. b + d
      <4>1. x \in 1 .. b + (d + 1)
        BY <1>6
      <4>2. b \in Nat
        BY <1>1
      <4>. QED  BY <1>1, <2>2, <4>1, <4>2
    <3>2. r[x] = l[x]
      BY <1>2, <3>1
    <3>. QED  BY <1>5, <3>1, <3>2
  <2>. QED  BY <2>1, <2>2
<1>. QED  BY <1>6, <1>7 DEF MergedUpTo, b, e

LEMMA LoopInit == Init => LoopInv
<1> SUFFICES ASSUME Init PROVE LoopInv
  OBVIOUS
<1>1. PICK index \in 0 .. MaxSnapshot, prev \in 0 .. MaxSnapshot + MaxEntries,
           t \in 0 .. MaxEntryTerm, p \in 0 .. MaxEntryTerm :
         \E l \in Logs(Larger(t, 1)), e \in Logs(Larger(p, 1)) :
            /\ index = 0 <=> t = 0
            /\ prev = 0 <=> p = 0
            /\ follower = [NewNode EXCEPT !.log = l,
                                          !.snapshot_index = index,
                                          !.snapshot_term = t]
            /\ request = [prev_log_index |-> prev,
                          prev_log_term  |-> p,
                          entries        |-> e]
            /\ LogMatches(follower, request)
            /\ Matching(l, e, prev - index)
            /\ log = l
            /\ insert_at = prev + 1
            /\ remaining = e
  BY Zenon DEF Init
<1>2. PICK l \in Logs(Larger(t, 1)), e \in Logs(Larger(p, 1)) :
            /\ follower = [NewNode EXCEPT !.log = l,
                                          !.snapshot_index = index,
                                          !.snapshot_term = t]
            /\ request = [prev_log_index |-> prev,
                          prev_log_term  |-> p,
                          entries        |-> e]
            /\ LogMatches(follower, request)
            /\ log = l
            /\ insert_at = prev + 1
            /\ remaining = e
  BY <1>1, Zenon
<1>3. /\ index \in Nat /\ prev \in Nat /\ t \in Nat /\ p \in Nat
      /\ Larger(t, 1) \in Nat /\ Larger(t, 1) >= 1
      /\ Larger(p, 1) \in Nat /\ Larger(p, 1) >= 1
  BY LoopAssumption DEF Larger
<1>4. l \in Seq(Entry) /\ e \in Seq(Entry)
  BY <1>3, LogsAreEntries
<1>5. /\ follower.log = l /\ follower.snapshot_index = index
      /\ request.prev_log_index = prev /\ request.entries = e
  BY <1>2 DEF NewNode
<1>6. prev >= index /\ prev <= index + Len(l)
  BY <1>2, <1>5 DEF LogMatches, LastLogIndex
<1>7. Base(follower, request) \in 0 .. Len(l)
  BY <1>3, <1>4, <1>5, <1>6 DEF Base
<1>8. Done = 0
  BY <1>2, <1>3, <1>5 DEF Done
<1>9. e = SubSeq(e, 1, Len(e)) /\ Len(e) \in Nat
  BY <1>4, SubSeqFull
<1>10. MergedUpTo(follower, request, 0, l)
  BY <1>5 DEF MergedUpTo, AllAgree
<1>. QED  BY <1>2, <1>3, <1>4, <1>5, <1>7, <1>8, <1>9, <1>10 DEF LoopInv, Accepted

\* An iteration merges one entry more.
LEMMA LoopNext == LoopInv /\ [Next]_vars => LoopInv'
<1> SUFFICES ASSUME LoopInv, [Next]_vars PROVE LoopInv'
  OBVIOUS
<1>1. CASE UNCHANGED vars
  BY <1>1 DEF vars, LoopInv, Done, Accepted, MergedUpTo, AllAgree, Agrees, Kept, Base
<1>2. CASE Iterate
  <2>1. SUFFICES ASSUME NEW n, n = follower, NEW m, m = request,
                        NEW d \in Nat, d = Done,
                        NEW l \in Seq(Entry), l = log,
                        NEW r, r = log'
                 PROVE  r \in Seq(Entry) /\ MergedUpTo(n, m, d + 1, r)
    <3>1. /\ insert_at' = insert_at + 1 /\ remaining' = Tail(remaining)
          /\ follower' = follower /\ request' = request /\ remaining # << >>
      BY <1>2 DEF Iterate
    <3>2. request.prev_log_index \in Nat /\ insert_at \in Nat
          /\ request.entries \in Seq(Entry) /\ Done \in 0 .. Len(request.entries)
          /\ remaining = SubSeq(request.entries, Done + 1, Len(request.entries))
          /\ Len(request.entries) \in Nat /\ Accepted(follower, request)
          /\ log \in Seq(Entry)
      BY DEF LoopInv, Accepted
    <3>3. Done' = Done + 1 /\ Done \in Nat
      BY <3>1, <3>2 DEF Done
    <3> HIDE DEF Done
    <3>4. /\ Done + 1 \in 1 .. Len(request.entries)
          /\ remaining' = SubSeq(request.entries, Done + 2, Len(request.entries))
      BY <3>1, <3>2, Remaining
    <3>5. Done' + 1 = Done + 2
      BY <3>2, <3>3
    <3>6. log' \in Seq(Entry) /\ MergedUpTo(follower, request, Done + 1, log')
      BY <3>2, <3>3
    <3>7. MergedUpTo(follower, request, Done, log)'
      BY <3>1, <3>3, <3>6 DEF MergedUpTo, AllAgree, Agrees, Kept, Base
    <3>8. Accepted(follower, request)'
      BY <3>1, <3>2 DEF Accepted, Base
    <3>. QED  BY <3>1, <3>2, <3>3, <3>4, <3>5, <3>6, <3>7, <3>8 DEF LoopInv
  <2> DEFINE b == Base(n, m)
             e == m.entries
             head == e[d + 1]
  <2>2. /\ Accepted(n, m) /\ MergedUpTo(n, m, d, l)
        /\ d + 1 \in 1 .. Len(e) /\ head \in Entry
        /\ remaining # << >> /\ Head(remaining) = head
    <3>1. /\ remaining # << >> /\ remaining = SubSeq(e, d + 1, Len(e))
          /\ d \in 0 .. Len(e) /\ e \in Seq(Entry)
      BY <1>2, <2>1 DEF Iterate, LoopInv, Accepted
    <3>. QED  BY <2>1, <3>1, Remaining DEF LoopInv
  <2>3. /\ n.log \in Seq(Entry) /\ e \in Seq(Entry) /\ b \in 0 .. Len(n.log)
        /\ Len(e) \in Nat /\ Len(n.log) \in Nat /\ n.snapshot_index \in Nat
        /\ m.prev_log_index \in Nat /\ Len(l) \in Nat /\ b \in Nat
    BY <2>1, <2>2 DEF Accepted
  <2>4. insert_at - n.snapshot_index = b + d + 1 /\ insert_at > n.snapshot_index
    <3>1. insert_at \in Nat /\ d = insert_at - m.prev_log_index - 1
      BY <2>1 DEF LoopInv, Done
    <3>2. b = m.prev_log_index - n.snapshot_index
      BY DEF Base
    <3>3. b \in Nat /\ m.prev_log_index \in Nat /\ n.snapshot_index \in Nat
      BY <2>3
    <3> HIDE DEF b
    <3>4. insert_at = d + m.prev_log_index + 1
      BY <3>1, <3>3
    <3>5. m.prev_log_index = b + n.snapshot_index
      BY <3>2, <3>3
    <3>6. insert_at \in Nat
      BY <3>1
    <3>. QED  BY <3>3, <3>4, <3>5, <3>6
  <2>5. Offset = IF b + d + 1 \in 1 .. Len(l) THEN b + d + 1 ELSE 0
    BY <2>1, <2>4 DEF Offset
  <2>6. r = IF Offset = 0 THEN Append(l, head)
            ELSE IF l[Offset].term # head.term
                 THEN Append(SubSeq(l, 1, Offset - 1), head)
                 ELSE l
    <3>1. ~(insert_at <= follower.snapshot_index)
      BY <2>1, <2>3, <2>4 DEF LoopInv
    <3>. QED  BY <1>2, <2>1, <2>2, <2>4, <3>1 DEF Iterate
  <2> HIDE DEF b, e, head
  <2>7. CASE AllAgree(n, m, d) /\ Agrees(n, m, d + 1)
    <3>1. AllAgree(n, m, d + 1)
      BY <2>1, <2>7 DEF AllAgree
    <3>2. l = n.log
      BY <2>2, <2>7 DEF MergedUpTo
    <3>3. b + d + 1 <= Len(l) /\ l[b + d + 1].term = head.term
      BY <2>1, <2>3, <2>7, <3>2 DEF Agrees, b, e, head
    <3>4. Offset = b + d + 1 /\ b + d + 1 # 0
      BY <2>1, <2>3, <2>5, <3>3
    <3>5. r = l
      BY <2>6, <3>3, <3>4
    <3>. QED  BY <3>1, <3>2, <3>5 DEF MergedUpTo
  <2>8. CASE ~(AllAgree(n, m, d) /\ Agrees(n, m, d + 1))
    <3>1. ~AllAgree(n, m, d + 1)
      BY <2>1, <2>8 DEF AllAgree
    <3>2. b + d <= Len(l) /\ (b + d < Len(l) => l = n.log /\ AllAgree(n, m, d))
      <4>1. CASE AllAgree(n, m, d)
        <5>1. l = n.log
          BY <2>2, <4>1 DEF MergedUpTo
        <5>2. d # 0 => Agrees(n, m, d)
          BY <2>1, <4>1 DEF AllAgree
        <5>. QED  BY <2>1, <2>3, <4>1, <5>1, <5>2 DEF Agrees, b
      <4>2. CASE ~AllAgree(n, m, d)
        BY <2>1, <2>2, <2>3, <4>2 DEF MergedUpTo, b
      <4>. QED  BY <4>1, <4>2
    <3>3. r = Append(SubSeq(l, 1, b + d), head)
      <4>1. CASE b + d = Len(l)
        <5>1. Offset = 0
          BY <2>1, <2>3, <2>5, <4>1
        <5>2. SubSeq(l, 1, b + d) = l
          BY <2>1, <4>1, SubSeqFull
        <5>. QED  BY <2>6, <5>1, <5>2
      <4>2. CASE b + d # Len(l)
        <5>1. b + d < Len(l) /\ Offset = b + d + 1 /\ Offset # 0 /\ Offset - 1 = b + d
          BY <2>1, <2>3, <2>5, <3>2, <4>2
        <5>2. l[Offset].term # head.term
          BY <2>1, <2>3, <2>8, <3>2, <5>1 DEF Agrees, b, e, head
        <5>. QED  BY <2>6, <5>1, <5>2
      <4>. QED  BY <4>1, <4>2
    <3>4. b + d \in 0 .. Len(l)
      BY <2>1, <2>3, <3>2
    <3>5. /\ r \in Seq(Entry) /\ Len(r) = b + d + 1
          /\ \A x \in 1 .. b + d : r[x] = l[x]
          /\ r[b + d + 1] = head
      BY <2>1, <2>2, <3>3, <3>4, Pushed
    <3>6. d \in 0 .. Len(m.entries) - 1
      BY <2>1, <2>2, <2>3 DEF e
    <3>. QED  BY <2>1, <2>2, <3>1, <3>5, <3>6, MergeOneMore DEF b, e, head
  <2>. QED  BY <2>7, <2>8
<1>. QED  BY <1>1, <1>2 DEF Next

\* At every step of the loop the log is the merge of the entries so far.
THEOREM LoopInvariant == Spec => []LoopInv
BY LoopInit, LoopNext, PTL DEF Spec

\* The loop of handle_append_entries leaves the log that MergeEntries gives.
THEOREM LoopIsMerge == Spec => []LoopComputesMerge
<1>1. ASSUME LoopInv, remaining = << >> PROVE log = MergeEntries(follower, request)
  <2> DEFINE n == follower
             m == request
             b == m.prev_log_index - n.snapshot_index
             e == m.entries
  <2>1. /\ Accepted(n, m) /\ log \in Seq(Entry) /\ MergedUpTo(n, m, Done, log)
        /\ Done \in 0 .. Len(e) /\ remaining = SubSeq(e, Done + 1, Len(e))
        /\ e \in Seq(Entry)
    BY <1>1 DEF LoopInv, Accepted
  <2>2. Done = Len(e)
    BY <1>1, <2>1, Remaining
  <2>3. AllAgree(n, m, Len(e)) <=>
          \A k \in 1 .. Len(e) : /\ b + k <= Len(n.log)
                                 /\ n.log[b + k].term = e[k].term
    BY DEF AllAgree, Agrees, Base
  <2>4. CASE AllAgree(n, m, Len(e))
    <3>1. log = n.log
      BY <2>1, <2>2, <2>4 DEF MergedUpTo
    <3>. QED  BY <2>3, <2>4, <3>1 DEF MergeEntries
  <2>5. CASE ~AllAgree(n, m, Len(e))
    <3>1. /\ Len(log) = b + Len(e)
          /\ \A x \in 1 .. Len(log) :
                log[x] = IF Kept(n, m, x) THEN n.log[x] ELSE e[x - b]
      BY <2>1, <2>2, <2>5 DEF MergedUpTo, Base
    <3>2. log = [x \in 1 .. b + Len(e) |->
                    IF Kept(n, m, x) THEN n.log[x] ELSE e[x - b]]
      <4> HIDE DEF n, m, b, e
      <4>. QED  BY <2>1, <3>1
    <3>3. MergeEntries(n, m) = [x \in 1 .. b + Len(e) |->
                    IF Kept(n, m, x) THEN n.log[x] ELSE e[x - b]]
      BY <2>3, <2>5 DEF MergeEntries, Kept, Agrees, Base
    <3>. QED  BY <3>2, <3>3
  <2>. QED  BY <2>4, <2>5
<1>2. LoopInv => LoopComputesMerge
  BY <1>1 DEF LoopComputesMerge
<1>. QED  BY <1>2, LoopInvariant, PTL

\* No iteration leaves a gap between the log and the entry it pushes.
THEOREM PushesLeaveNoGap == Spec => []PushesAreContiguous
<1>1. ASSUME LoopInv PROVE insert_at <= follower.snapshot_index + Len(log) + 1
  <2> DEFINE n == follower
             m == request
             b == Base(n, m)
             d == Done
  <2>1. /\ MergedUpTo(n, m, d, log) /\ d \in Nat /\ b \in 0 .. Len(n.log)
        /\ Len(n.log) \in Nat /\ n.snapshot_index \in Nat /\ m.prev_log_index \in Nat
        /\ insert_at \in Nat /\ Len(log) \in Nat
    BY <1>1 DEF LoopInv, Accepted
  <2>2. insert_at = n.snapshot_index + b + d + 1
    BY <2>1 DEF Done, Base
  <2> HIDE DEF b, d
  <2>3. b + d <= Len(log)
    <3>1. CASE AllAgree(n, m, d)
      <4>1. log = n.log
        BY <2>1, <3>1 DEF MergedUpTo
      <4>2. d # 0 => Agrees(n, m, d)
        BY <2>1, <3>1 DEF AllAgree
      <4>. QED  BY <2>1, <4>1, <4>2 DEF Agrees, b
    <3>2. CASE ~AllAgree(n, m, d)
      BY <2>1, <3>2 DEF MergedUpTo, b
    <3>. QED  BY <3>1, <3>2
  <2>. QED  BY <2>1, <2>2, <2>3
<1>2. LoopInv => PushesAreContiguous
  BY <1>1 DEF PushesAreContiguous
<1>. QED  BY <1>2, LoopInvariant, PTL
=============================================================================
