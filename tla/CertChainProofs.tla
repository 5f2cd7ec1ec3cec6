--------------------------- MODULE CertChainProofs ---------------------------
(***************************************************************************)
(* For any certificates, anchors, cap and budget: what the path search      *)
(* accepts is a path, the path constraints hold pair by pair on it, the      *)
(* search misses no route within its budget, and the reason it gives is the *)
(* most specific it met.                                                    *)
(***************************************************************************)
EXTENDS CertChain, SequenceTheorems, FunctionTheorems, FiniteSetTheorems, WellFoundedInduction, TLAPS

Frames == [at : Nat, depth : Nat, next : Nat, tooLong : BOOLEAN]

CallType ==
  /\ call.chain \in Seq(Certs \union {Garbage})
  /\ call.anchors \in Seq(Certs \union {Garbage})

\* The intermediates of a line of frames that count for a path length.
Counting(line, k) == {j \in 2..k : ~IsSelfIssued(CertAt(line[j].at))}

\* A line of frames goes up from the leaf, each certifying the one before it.
IsLine(line) ==
  /\ line \in Seq(Frames)
  /\ line # <<>> =>
       /\ call.chain # <<>> /\ \A i \in DOMAIN call.chain : call.chain[i] \in Certs
       /\ Len(line) <= MaxPathLen + 1
       /\ line[1].at = 0
  /\ \A k \in 2..Len(line) :
       /\ line[k].at \in DOMAIN Inters
       /\ Certifies(CertAt(line[k].at), CertAt(line[k - 1].at), line[k - 1].depth)
  /\ \A k \in DOMAIN line : line[k].depth = Cardinality(Counting(line, k))

\* A frame is at a candidate there is; the candidate of a frame below is the frame above.
PositionsInv ==
  /\ \A k \in DOMAIN stack : stack[k].next <= Len(Anchors) + Len(Inters) + 1
  /\ \A k \in 2..Len(stack) : stack[k - 1].next = Len(Anchors) + stack[k].at

ResultInv ==
  /\ lastErr # "ok"
  /\ result.verdict = "ok" => result.root \in Certs

\* The inductive invariant.
ChainInv ==
  /\ CallType /\ IsLine(stack) /\ PositionsInv
  /\ budget \in 0..MaxNodeVisits
  /\ ResultInv /\ PathIsLinked

-----------------------------------------------------------------------------
LEMMA TailType ==
  ASSUME CallType, call.chain # <<>>
  PROVE  /\ Inters \in Seq(Certs \union {Garbage})
         /\ Len(Inters) = Len(call.chain) - 1 /\ Len(Inters) \in Nat
         /\ \A i \in DOMAIN Inters : Inters[i] = call.chain[i + 1] /\ i + 1 \in DOMAIN call.chain
  BY HeadTailProperties DEF CallType, Inters

\* The frames of a line stand for certificates.
LEMMA LineCerts ==
  ASSUME CallType, NEW line, IsLine(line), NEW k \in DOMAIN line
  PROVE  CertAt(line[k].at) \in Certs /\ line[k].at \in {0} \union DOMAIN Inters
PROOF
  <1>1. line # <<>> /\ DOMAIN line = 1..Len(line) /\ Len(line) \in Nat /\ k \in 1..Len(line)
    BY DEF IsLine
  <1>2. /\ call.chain # <<>> /\ \A i \in DOMAIN call.chain : call.chain[i] \in Certs
        /\ line[1].at = 0
        /\ \A n \in 2..Len(line) : line[n].at \in DOMAIN Inters
    BY <1>1 DEF IsLine
  <1>3. 1 \in DOMAIN call.chain
    BY <1>2 DEF CallType
  <1>4. CASE k = 1
    BY <1>2, <1>3, <1>4 DEF CertAt, Leaf
  <1>5. CASE k \in 2..Len(line)
    <2>1. line[k].at \in DOMAIN Inters /\ Inters[line[k].at] \in Certs
      BY <1>2, <1>5, TailType
    <2>2. line[k].at # 0
      BY <2>1, <1>2, TailType
    <2> QED
      BY <2>1, <2>2 DEF CertAt
  <1> QED
    BY <1>1, <1>4, <1>5

LEMMA CountingIsFinite ==
  ASSUME NEW line, NEW k \in Nat
  PROVE  IsFiniteSet(Counting(line, k)) /\ Cardinality(Counting(line, k)) \in Nat
  BY FS_Interval, FS_Subset, FS_CardinalityType, 2 \in Int, k \in Int DEF Counting

\* Frames may go, or change what a line does not say.
LEMMA LineShortens ==
  ASSUME NEW line, IsLine(line), NEW other \in Seq(Frames), Len(other) <= Len(line),
         \A k \in 1..Len(other) : other[k].at = line[k].at /\ other[k].depth = line[k].depth
  PROVE  IsLine(other)
PROOF
  <1>1. /\ Len(other) \in Nat /\ Len(line) \in Nat /\ line \in Seq(Frames)
        /\ DOMAIN other = 1..Len(other) /\ DOMAIN line = 1..Len(line) /\ MaxPathLen \in Nat
    BY BoundsAssumption DEF IsLine
  <1>2. other # <<>> => line # <<>>
    BY <1>1
  <1>3. \A k \in 1..Len(other) : Counting(other, k) = Counting(line, k)
    BY <1>1 DEF Counting
  <1>4. other # <<>> => 1 \in 1..Len(other)
    BY <1>1
  <1>5. other # <<>> =>
          /\ call.chain # <<>> /\ \A i \in DOMAIN call.chain : call.chain[i] \in Certs
          /\ Len(other) <= MaxPathLen + 1
          /\ other[1].at = 0
    BY <1>1, <1>2, <1>4 DEF IsLine
  <1>6. \A k \in 2..Len(other) :
          /\ other[k].at \in DOMAIN Inters
          /\ Certifies(CertAt(other[k].at), CertAt(other[k - 1].at), other[k - 1].depth)
    <2> TAKE k \in 2..Len(other)
    <2>1. k \in 2..Len(line) /\ k \in 1..Len(other) /\ k - 1 \in 1..Len(other)
      BY <1>1
    <2>2. line[k].at \in DOMAIN Inters /\ Certifies(CertAt(line[k].at), CertAt(line[k - 1].at), line[k - 1].depth)
      BY <2>1 DEF IsLine
    <2> QED
      BY <2>1, <2>2
  <1>7. \A k \in DOMAIN other : other[k].depth = Cardinality(Counting(other, k))
    BY <1>1, <1>3 DEF IsLine
  <1> QED
    BY <1>5, <1>6, <1>7 DEF IsLine

LEMMA LineGrows ==
  ASSUME CallType, NEW line, IsLine(line), line # <<>>, Len(line) <= MaxPathLen,
         NEW f \in Frames, f.at \in DOMAIN Inters,
         Certifies(CertAt(f.at), CertAt(line[Len(line)].at), line[Len(line)].depth),
         f.depth = IF IsSelfIssued(CertAt(f.at)) THEN line[Len(line)].depth
                   ELSE line[Len(line)].depth + 1
  PROVE  IsLine(Append(line, f))
PROOF
  <1> DEFINE n == Len(line)
             new == Append(line, f)
  <1>1. /\ n \in Nat \ {0} /\ line \in Seq(Frames) /\ MaxPathLen \in Nat
        /\ new \in Seq(Frames) /\ Len(new) = n + 1 /\ new # <<>>
        /\ \A k \in 1..n : new[k] = line[k]
        /\ new[n + 1] = f
        /\ DOMAIN new = 1..(n + 1) /\ DOMAIN line = 1..n
    BY BoundsAssumption DEF IsLine
  <1> HIDE DEF n, new
  <1>2. \A k \in 1..n : Counting(new, k) = Counting(line, k)
    BY <1>1 DEF Counting
  <1>3. Counting(new, n + 1) = Counting(line, n) \union
                                 (IF IsSelfIssued(CertAt(f.at)) THEN {} ELSE {n + 1})
    BY <1>1 DEF Counting
  <1>4. IsFiniteSet(Counting(line, n)) /\ n + 1 \notin Counting(line, n)
    <2>1. IsFiniteSet(Counting(line, n))
      BY <1>1, CountingIsFinite
    <2>2. n + 1 \notin Counting(line, n)
      BY <1>1 DEF Counting
    <2> QED
      BY <2>1, <2>2
  <1>5. Cardinality(Counting(new, n + 1)) = Cardinality(Counting(line, n)) +
                                              (IF IsSelfIssued(CertAt(f.at)) THEN 0 ELSE 1)
    <2>1. Cardinality(Counting(line, n)) \in Nat
      BY <1>1, CountingIsFinite
    <2>2. Cardinality(Counting(line, n) \union {n + 1}) = Cardinality(Counting(line, n)) + 1
      BY <1>4, FS_AddElement
    <2>3. CASE IsSelfIssued(CertAt(f.at))
      <3>1. Counting(new, n + 1) = Counting(line, n)
        BY <1>3, <2>3
      <3> QED
        BY <2>1, <2>3, <3>1
    <2>4. CASE ~IsSelfIssued(CertAt(f.at))
      <3>1. Counting(new, n + 1) = Counting(line, n) \union {n + 1}
        BY <1>3, <2>4
      <3> QED
        BY <2>2, <2>4, <3>1
    <2> QED
      BY <2>3, <2>4
  <1>6. line[n].depth = Cardinality(Counting(line, n)) /\ line[n].depth \in Nat
    BY <1>1, CountingIsFinite DEF IsLine
  <1>7. f.depth = Cardinality(Counting(new, n + 1))
    BY <1>5, <1>6 DEF n
  <1>8. \A k \in DOMAIN new : new[k].depth = Cardinality(Counting(new, k))
    BY <1>1, <1>2, <1>7 DEF IsLine
  <1>9. \A k \in 2..Len(new) :
          /\ new[k].at \in DOMAIN Inters
          /\ Certifies(CertAt(new[k].at), CertAt(new[k - 1].at), new[k - 1].depth)
    <2> TAKE k \in 2..Len(new)
    <2>1. k \in 2..(n + 1) /\ k - 1 \in 1..n
      BY <1>1
    <2>2. CASE k = n + 1
      <3>1. k - 1 = n /\ new[k] = f /\ new[k - 1] = line[n]
        BY <1>1, <2>2
      <3> QED
        BY <3>1 DEF n
    <2>3. CASE k \in 2..n
      <3>1. /\ line[k].at \in DOMAIN Inters
            /\ Certifies(CertAt(line[k].at), CertAt(line[k - 1].at), line[k - 1].depth)
        BY <2>3 DEF IsLine, n
      <3> QED
        BY <1>1, <2>1, <2>3, <3>1
    <2> QED
      BY <1>1, <2>1, <2>2, <2>3
  <1>10. /\ call.chain # <<>> /\ \A i \in DOMAIN call.chain : call.chain[i] \in Certs
         /\ Len(new) <= MaxPathLen + 1
         /\ new[1].at = 0
    <2>1. line[1].at = 0 /\ call.chain # <<>> /\ \A i \in DOMAIN call.chain : call.chain[i] \in Certs
      BY DEF IsLine
    <2>2. new[1] = line[1]
      BY <1>1
    <2> QED
      BY <1>1, <2>1, <2>2 DEF n
  <1> QED
    BY <1>1, <1>8, <1>9, <1>10 DEF IsLine, new

-----------------------------------------------------------------------------
\* PathTo lists the frames downwards from the last, an anchor above it unless it is one itself.
LEMMA PathShape ==
  ASSUME CallType, IsLine(stack), stack # <<>>, NEW anchor
  PROVE  LET path == PathTo(anchor)
             top  == IF anchor = Current /\ IsPinned(Current) THEN Len(stack) ELSE Len(stack) + 1
         IN  /\ Len(path) = top /\ DOMAIN path = 1..top
             /\ path[1] = anchor
             /\ \A j \in 2..top : path[j] = CertAt(stack[top + 1 - j].at)
PROOF
  <1> DEFINE path == PathTo(anchor)
             top == IF anchor = Current /\ IsPinned(Current) THEN Len(stack) ELSE Len(stack) + 1
             below == [k \in 1..(top - 1) |-> CertAt(stack[top - k].at)]
  <1>1. Len(stack) \in Nat \ {0} /\ top \in Nat \ {0} /\ DOMAIN stack = 1..Len(stack)
        /\ top - 1 \in Nat /\ top - 1 <= Len(stack)
    BY DEF IsLine
  <1>2. path = <<anchor>> \o below
    <2>1. CASE anchor = Current /\ IsPinned(Current)
      <3>1. top = Len(stack) /\ PathTo(anchor) =
              <<anchor>> \o [k \in 1..(Len(stack) - 1) |-> CertAt(stack[Len(stack) - 1 + 1 - k].at)]
        BY <2>1 DEF PathTo
      <3>2. top = Len(stack)
        BY <2>1
      <3>3. \A k \in 1..(Len(stack) - 1) : Len(stack) - 1 + 1 - k = Len(stack) - k
        BY <1>1
      <3> QED
        BY <3>1, <3>2, <3>3
    <2>2. CASE ~(anchor = Current /\ IsPinned(Current))
      <3>1. top = Len(stack) + 1 /\ PathTo(anchor) =
              <<anchor>> \o [k \in 1..Len(stack) |-> CertAt(stack[Len(stack) + 1 - k].at)]
        BY <2>2 DEF PathTo
      <3>2. top - 1 = Len(stack) /\ \A k \in 1..Len(stack) : Len(stack) + 1 - k = top - k
        BY <1>1, <3>1
      <3> QED
        BY <3>1, <3>2
    <2> QED
      BY <2>1, <2>2
  <1> HIDE DEF top
  <1>3. below \in Seq(Certs)
    <2>1. \A k \in 1..(top - 1) : top - k \in DOMAIN stack
      BY <1>1
    <2>2. \A k \in 1..(top - 1) : CertAt(stack[top - k].at) \in Certs
      BY <2>1, LineCerts
    <2> QED
      BY <1>1, <2>2
  <1>4. Len(below) = top - 1 /\ \A k \in 1..(top - 1) : below[k] = CertAt(stack[top - k].at)
    BY <1>1, <1>3
  <1> HIDE DEF below
  <1>5. /\ <<anchor>> \in Seq({anchor} \union Certs) /\ below \in Seq({anchor} \union Certs)
        /\ Len(<<anchor>>) = 1
    BY <1>3
  <1>6. /\ Len(path) = top /\ path[1] = anchor /\ DOMAIN path = 1..top
        /\ \A j \in 2..top : path[j] = below[j - 1]
    BY <1>1, <1>2, <1>4, <1>5
  <1> HIDE DEF path
  <1>7. \A j \in 2..top : path[j] = CertAt(stack[top + 1 - j].at)
    <2> TAKE j \in 2..top
    <2>1. j - 1 \in 1..(top - 1) /\ top - (j - 1) = top + 1 - j
      BY <1>1
    <2>2. below[j - 1] = CertAt(stack[top - (j - 1)].at)
      BY <1>4, <2>1
    <2> QED
      BY <1>6, <2>1, <2>2
  <1> QED
    BY <1>6, <1>7 DEF path, top

\* Counting along a path and along its frames gives the same number.
LEMMA SameFollowing ==
  ASSUME CallType, IsLine(stack), stack # <<>>, NEW path, NEW top \in Nat,
         top <= Len(stack) + 1, Len(path) = top,
         \A j \in 2..top : path[j] = CertAt(stack[top + 1 - j].at),
         NEW k \in 1..(top - 1)
  PROVE  Following(path, k) = Cardinality(Counting(stack, top - k))
PROOF
  <1> DEFINE S == Counting(stack, top - k)
             T == {j \in (k + 1)..(Len(path) - 1) : ~IsSelfIssued(path[j])}
             f == [i \in S |-> top + 1 - i]
  <1>1. top - k \in Nat /\ IsFiniteSet(S) /\ S \subseteq 2..(top - k) /\ k \in Nat
    <2>1. top - k \in Nat /\ k \in Nat
      OBVIOUS
    <2> QED
      BY <2>1, CountingIsFinite DEF Counting
  <1>2. \A i \in S : top + 1 - i \in T
    <2> SUFFICES ASSUME NEW i \in S PROVE top + 1 - i \in T
      OBVIOUS
    <2>1. i \in 2..(top - k) /\ ~IsSelfIssued(CertAt(stack[i].at))
      BY DEF Counting
    <2>2. /\ top + 1 - i \in (k + 1)..(top - 1) /\ top + 1 - i \in 2..top
          /\ top + 1 - (top + 1 - i) = i
      BY <1>1, <2>1
    <2>3. path[top + 1 - i] = CertAt(stack[i].at)
      BY <2>2
    <2> QED
      BY <2>1, <2>2, <2>3
  <1>3. \A j \in T : top + 1 - j \in S
    <2> SUFFICES ASSUME NEW j \in T PROVE top + 1 - j \in S
      OBVIOUS
    <2>1. j \in (k + 1)..(top - 1) /\ ~IsSelfIssued(path[j])
      OBVIOUS
    <2>2. j \in 2..top /\ top + 1 - j \in 2..(top - k)
      BY <1>1, <2>1
    <2>3. path[j] = CertAt(stack[top + 1 - j].at)
      BY <2>2
    <2> QED
      BY <2>1, <2>2, <2>3 DEF Counting
  <1>4. \A j \in T : j \in Int
    BY <1>1
  <1>5. \A i \in S : i \in Int
    BY <1>1
  <1> HIDE DEF S, T
  <1>6. f \in Bijection(S, T)
    <2>1. f \in [S -> T]
      BY <1>2
    <2>2. \A a, b \in S : f[a] = f[b] => a = b
      BY <1>5
    <2>3. \A j \in T : \E i \in S : f[i] = j
      <3> TAKE j \in T
      <3>1. top + 1 - j \in S /\ top + 1 - (top + 1 - j) = j
        BY <1>3, <1>4
      <3> QED
        BY <3>1
    <2> HIDE DEF f
    <2> QED
      BY <2>1, <2>2, <2>3, Fun_IsBij
  <1>7. Cardinality(T) = Cardinality(S)
    BY <1>1, <1>6, FS_Bijection DEF ExistsBijection
  <1> QED
    BY <1>7 DEF Following, S, T

\* What a search that has reached an anchor answers is a path.
LEMMA ReachedIsLinked ==
  ASSUME CallType, IsLine(stack), stack # <<>>, NEW anchor, IsPinned(anchor),
         anchor = Current \/ Certifies(anchor, Current, Top.depth)
  PROVE  LET path == PathTo(anchor) IN
         /\ path # <<>> /\ path[Len(path)] = Leaf /\ Len(path) <= MaxPathLen + 2
         /\ path[1] = anchor
         /\ \A k \in 1..(Len(path) - 1) : Certifies(path[k], path[k + 1], Following(path, k))
PROOF
  <1> DEFINE path == PathTo(anchor)
             n == Len(stack)
             top == IF anchor = Current /\ IsPinned(Current) THEN n ELSE n + 1
  <1>1. /\ n \in Nat \ {0} /\ top \in {n, n + 1} /\ DOMAIN stack = 1..n
        /\ n <= MaxPathLen + 1 /\ MaxPathLen \in Nat /\ stack[1].at = 0
    BY BoundsAssumption DEF IsLine
  <1>2. /\ Len(path) = top /\ DOMAIN path = 1..top /\ path[1] = anchor
        /\ \A j \in 2..top : path[j] = CertAt(stack[top + 1 - j].at)
    BY PathShape
  <1>3. top = n => anchor = CertAt(stack[n].at)
    <2>1. n # n + 1
      <3>1. n \in Nat
        BY <1>1
      <3> HIDE DEF n
      <3> QED
        BY <3>1
    <2>2. top = n => anchor = Current
      BY <2>1
    <2> QED
      BY <2>2 DEF Current, Top
  <1>4. top = n + 1 => Certifies(anchor, CertAt(stack[n].at), stack[n].depth)
    <2>1. top = n + 1 => Certifies(anchor, Current, Top.depth)
      BY <1>1
    <2> QED
      BY <2>1 DEF Current, Top
  <1> HIDE DEF path, n, top
  <1>5. path # <<>> /\ Len(path) <= MaxPathLen + 2
    BY <1>1, <1>2
  <1>6. CertAt(stack[1].at) = Leaf
    BY <1>1 DEF CertAt
  <1>7. path[Len(path)] = Leaf
    <2>1. CASE top = 1
      BY <1>1, <1>2, <1>3, <1>6, <2>1
    <2>2. CASE top >= 2
      <3>1. top \in 2..top /\ top + 1 - top = 1
        BY <1>1, <2>2
      <3> QED
        BY <1>2, <1>6, <3>1
    <2> QED
      BY <1>1, <2>1, <2>2
  <1>8. ASSUME NEW k \in 1..(top - 1)
        PROVE  Certifies(path[k], path[k + 1], Following(path, k))
    <2>1. /\ k \in Nat /\ k + 1 \in 2..top /\ top - k \in 1..n /\ top + 1 - (k + 1) = top - k
          /\ top \in Nat /\ top <= n + 1
      BY <1>1
    <2>2. path[k + 1] = CertAt(stack[top - k].at)
      BY <1>2, <2>1
    <2>3. Following(path, k) = Cardinality(Counting(stack, top - k))
      BY <1>2, <2>1, SameFollowing DEF n
    <2>4. stack[top - k].depth = Cardinality(Counting(stack, top - k))
      BY <1>1, <2>1 DEF IsLine
    <2>5. CASE k = 1 /\ top = n + 1
      <3>1. top - k = n /\ path[k] = anchor
        BY <1>1, <1>2, <2>5
      <3> QED
        BY <1>4, <2>2, <2>3, <2>4, <2>5, <3>1
    <2>6. CASE k = 1 /\ top = n
      <3>1. top + 1 - k = n /\ n \in 2..n /\ top - k = n - 1 /\ path[k] = CertAt(stack[n].at)
        BY <1>1, <1>2, <1>3, <2>1, <2>6
      <3>2. Certifies(CertAt(stack[n].at), CertAt(stack[n - 1].at), stack[n - 1].depth)
        BY <3>1 DEF IsLine, n
      <3> QED
        BY <2>2, <2>3, <2>4, <3>1, <3>2
    <2>7. CASE k >= 2
      <3>1. k \in 2..top /\ top + 1 - k \in 2..n /\ top + 1 - k - 1 = top - k
        BY <1>1, <2>1, <2>7
      <3>2. path[k] = CertAt(stack[top + 1 - k].at)
        BY <1>2, <3>1
      <3>3. \A m \in 2..n : Certifies(CertAt(stack[m].at), CertAt(stack[m - 1].at), stack[m - 1].depth)
        BY DEF IsLine, n
      <3>4. Certifies(CertAt(stack[top + 1 - k].at), CertAt(stack[top - k].at), stack[top - k].depth)
        BY <1>1, <2>1, <3>1, <3>3
      <3> QED
        BY <2>2, <2>3, <2>4, <3>2, <3>4
    <2> QED
      BY <1>1, <2>1, <2>5, <2>6, <2>7
  <1> QED
    BY <1>2, <1>5, <1>7, <1>8 DEF path

-----------------------------------------------------------------------------
(* Each step *)

\* What an unfinished call keeps: a step only has to account for its stack and result.
LEMMA LineKept ==
  ASSUME IsLine(stack'), call' = call
  PROVE  IsLine(stack)'
  BY DEF IsLine, Counting, CertAt, Leaf, Inters, Certifies

LEMMA EmptyLine == IsLine(<<>>)
  BY DEF IsLine

LEMMA ResultKept ==
  ASSUME ResultInv, PathIsLinked, lastErr' # "ok", call' = call,
         result' = result \/ result'.verdict # "ok"
  PROVE  ResultInv' /\ PathIsLinked'
  BY DEF ResultInv, PathIsLinked, Leaf, IsPinned, Anchors, Certifies

LEMMA FrameAdvances ==
  ASSUME NEW f \in Frames
  PROVE  LET g == [f EXCEPT !.next = @ + 1]
         IN  g \in Frames /\ g.at = f.at /\ g.depth = f.depth /\ g.next = f.next + 1
  BY DEF Frames

LEMMA FrameReturns ==
  ASSUME NEW f \in Frames, NEW b \in BOOLEAN
  PROVE  LET g == [f EXCEPT !.next = @ + 1, !.tooLong = @ \/ b]
         IN  g \in Frames /\ g.at = f.at /\ g.depth = f.depth /\ g.next = f.next + 1
PROOF
  <1> DEFINE t == f.tooLong \/ b
  <1>1. t \in BOOLEAN
    OBVIOUS
  <1>2. [f EXCEPT !.next = @ + 1, !.tooLong = @ \/ b] = [f EXCEPT !.next = @ + 1, !.tooLong = t]
    OBVIOUS
  <1> HIDE DEF t
  <1>3. LET g == [f EXCEPT !.next = @ + 1, !.tooLong = t]
        IN  g \in Frames /\ g.at = f.at /\ g.depth = f.depth /\ g.next = f.next + 1
    <2>1. [f EXCEPT !.next = @ + 1, !.tooLong = t] \in Frames
      <3>1. f.next + 1 \in Nat
        BY DEF Frames
      <3> QED
        BY <1>1, <3>1, Zenon DEF Frames
    <2>2. LET g == [f EXCEPT !.next = @ + 1, !.tooLong = t]
          IN  g.at = f.at /\ g.depth = f.depth /\ g.next = f.next + 1
      BY DEF Frames
    <2> QED
      BY <2>1, <2>2
  <1> QED
    BY <1>2, <1>3

LEMMA AdvanceKeeps ==
  ASSUME ChainInv, stack # <<>>, Advance, call' = call,
         Top.next <= Len(Anchors) + Len(Inters)
  PROVE  IsLine(stack)' /\ PositionsInv'
PROOF
  <1> DEFINE n == Len(stack)
  <1>1. /\ stack \in Seq(Frames) /\ n \in Nat \ {0} /\ DOMAIN stack = 1..n /\ stack[n] \in Frames
        /\ call.chain # <<>>
    BY DEF ChainInv, IsLine
  <1>2. Len(Anchors) \in Nat /\ Len(Inters) \in Nat
    BY <1>1, TailType DEF ChainInv, CallType, Anchors
  <1> DEFINE f == [stack[n] EXCEPT !.next = @ + 1]
  <1>3. /\ f \in Frames /\ f.at = stack[n].at /\ f.depth = stack[n].depth
        /\ f.next = stack[n].next + 1
    BY <1>1, FrameAdvances
  <1>4. stack' = [stack EXCEPT ![n] = f]
    BY <1>1 DEF Advance
  <1> HIDE DEF f, n
  <1>5. /\ stack' \in Seq(Frames) /\ Len(stack') = n /\ DOMAIN stack' = 1..n
        /\ stack'[n] = f
        /\ \A k \in 1..(n - 1) : stack'[k] = stack[k]
    BY <1>1, <1>3, <1>4
  <1>6. IsLine(stack')
    <2>1. \A k \in 1..n : stack'[k].at = stack[k].at /\ stack'[k].depth = stack[k].depth
      BY <1>1, <1>3, <1>5
    <2> QED
      BY <1>1, <1>5, <2>1, LineShortens DEF ChainInv, n
  <1>7. PositionsInv'
    <2>1. \A k \in 1..n : stack'[k].next <= Len(Anchors) + Len(Inters) + 1
      <3>1. stack[n].next <= Len(Anchors) + Len(Inters) /\ stack[n].next \in Nat
        BY <1>1 DEF Top, n, Frames
      <3>2. \A k \in 1..n : stack[k].next <= Len(Anchors) + Len(Inters) + 1
        BY <1>1 DEF ChainInv, PositionsInv
      <3> QED
        BY <1>1, <1>2, <1>3, <1>5, <3>1, <3>2
    <2>2. \A k \in 2..n : stack'[k - 1].next = Len(Anchors) + stack'[k].at
      <3> TAKE k \in 2..n
      <3>1. k - 1 \in 1..(n - 1) /\ stack'[k - 1] = stack[k - 1] /\ stack'[k].at = stack[k].at
        BY <1>1, <1>3, <1>5
      <3>2. stack[k - 1].next = Len(Anchors) + stack[k].at
        BY DEF ChainInv, PositionsInv, n
      <3> QED
        BY <3>1, <3>2
    <2>3. Anchors' = Anchors /\ Inters' = Inters
      BY DEF Anchors, Inters
    <2> QED
      BY <1>5, <2>1, <2>2, <2>3 DEF PositionsInv
  <1> QED
    BY <1>6, <1>7, LineKept

LEMMA ReturnKeeps ==
  ASSUME ChainInv, stack # <<>>, NEW res, NEW err, err # "ok", Return(res, err), call' = call
  PROVE  /\ IsLine(stack)' /\ PositionsInv'
         /\ result' = result \/ result'.verdict # "ok"
PROOF
  <1> DEFINE n == Len(stack)
  <1>1. /\ stack \in Seq(Frames) /\ n \in Nat \ {0} /\ DOMAIN stack = 1..n /\ call.chain # <<>>
        /\ \A k \in 1..n : stack[k] \in Frames
    BY DEF ChainInv, IsLine
  <1>2. Len(Anchors) \in Nat /\ Inters \in Seq(Certs \union {Garbage})
    BY <1>1, TailType DEF ChainInv, CallType, Anchors
  <1>3. CASE n = 1
    <2>1. stack' = <<>> /\ result'.verdict # "ok"
      BY <1>3 DEF Return, Failure
    <2> QED
      BY <2>1, EmptyLine, LineKept DEF PositionsInv
  <1>4. CASE n # 1
    <2> HIDE DEF n
    <2> DEFINE f == [stack[n - 1] EXCEPT !.next = @ + 1, !.tooLong = @ \/ res = "TooLong"]
               new == [k \in 1..(n - 1) |-> IF k < n - 1 THEN stack[k] ELSE f]
    <2>1. n - 1 \in Nat \ {0} /\ n - 1 \in 1..n /\ stack[n - 1] \in Frames
      BY <1>1, <1>4
    <2>2. /\ f \in Frames /\ f.at = stack[n - 1].at /\ f.depth = stack[n - 1].depth
          /\ f.next = stack[n - 1].next + 1
      BY <2>1, FrameReturns
    <2>3. stack' = new /\ result' = result
      <3>1. /\ stack' = [k \in 1..(n - 1) |->
                           IF k < n - 1 THEN stack[k]
                           ELSE [stack[k] EXCEPT !.next = @ + 1, !.tooLong = @ \/ res = "TooLong"]]
            /\ result' = result
        BY <1>4 DEF Return, n
      <3>2. \A k \in 1..(n - 1) : k < n - 1 \/ k = n - 1
        BY <1>1
      <3> QED
        BY <3>1, <3>2
    <2> HIDE DEF f
    <2>4. /\ stack' \in Seq(Frames) /\ Len(stack') = n - 1 /\ DOMAIN stack' = 1..(n - 1)
          /\ stack'[n - 1] = f
          /\ \A k \in 1..(n - 2) : stack'[k] = stack[k]
      <3>1. \A k \in 1..(n - 1) : new[k] \in Frames
        BY <1>1, <2>2
      <3>2. new \in Seq(Frames) /\ Len(new) = n - 1
        BY <2>1, <3>1
      <3> QED
        BY <1>1, <2>1, <2>3, <3>2
    <2> HIDE DEF new
    <2>5. \A k \in 1..(n - 1) : stack'[k].at = stack[k].at /\ stack'[k].depth = stack[k].depth
      BY <1>1, <2>1, <2>2, <2>4
    <2>6. IsLine(stack')
      BY <1>1, <2>1, <2>4, <2>5, LineShortens DEF ChainInv, n
    <2>7. PositionsInv'
      <3>1. stack[n - 1].next = Len(Anchors) + stack[n].at /\ stack[n].at \in 1..Len(Inters)
        BY <1>1, <1>2, <1>4, <2>1 DEF ChainInv, PositionsInv, IsLine, n
      <3>2. \A k \in 1..(n - 1) : stack'[k].next <= Len(Anchors) + Len(Inters) + 1
        <4>1. stack'[n - 1].next <= Len(Anchors) + Len(Inters) + 1
          BY <1>2, <2>2, <2>4, <3>1
        <4>2. \A k \in 1..n : stack[k].next <= Len(Anchors) + Len(Inters) + 1
          BY <1>1 DEF ChainInv, PositionsInv
        <4> QED
          BY <1>1, <2>4, <4>1, <4>2
      <3>3. \A k \in 2..(n - 1) : stack'[k - 1].next = Len(Anchors) + stack'[k].at
        <4> TAKE k \in 2..(n - 1)
        <4>1. k - 1 \in 1..(n - 2) /\ k \in 2..n /\ stack'[k - 1] = stack[k - 1] /\ stack'[k].at = stack[k].at
          BY <1>1, <2>4, <2>5
        <4>2. stack[k - 1].next = Len(Anchors) + stack[k].at
          BY <4>1 DEF ChainInv, PositionsInv, n
        <4> QED
          BY <4>1, <4>2
      <3>4. Anchors' = Anchors /\ Inters' = Inters
        BY DEF Anchors, Inters
      <3> QED
        BY <2>4, <3>2, <3>3, <3>4 DEF PositionsInv
    <2> QED
      BY <2>3, <2>6, <2>7, LineKept
  <1> QED
    BY <1>3, <1>4

LEMMA ReachedKeeps ==
  ASSUME ChainInv, stack # <<>>, NEW anchor \in Certs, IsPinned(anchor),
         anchor = Current \/ Certifies(anchor, Current, Top.depth),
         Reached(anchor), call' = call, lastErr' = lastErr
  PROVE  IsLine(stack)' /\ PositionsInv' /\ ResultInv' /\ PathIsLinked'
PROOF
  <1>1. stack' = <<>> /\ IsLine(stack)' /\ PositionsInv'
    BY EmptyLine, LineKept DEF Reached, PositionsInv
  <1>2. CASE result'.verdict = "ok"
    <2>1. result'.root = anchor /\ result'.path = PathTo(anchor)
      BY <1>2 DEF Reached, Failure
    <2> DEFINE path == PathTo(anchor)
    <2>2. /\ path # <<>> /\ path[Len(path)] = Leaf /\ Len(path) <= MaxPathLen + 2
          /\ path[1] = anchor
          /\ \A k \in 1..(Len(path) - 1) : Certifies(path[k], path[k + 1], Following(path, k))
      BY ReachedIsLinked DEF ChainInv
    <2> HIDE DEF path
    <2>3. PathIsLinked'
      BY <2>1, <2>2 DEF PathIsLinked, path, Leaf, IsPinned, Anchors, Certifies
    <2> QED
      BY <1>1, <2>1, <2>3 DEF ResultInv, ChainInv
  <1>3. CASE result'.verdict # "ok"
    BY <1>1, <1>3 DEF ResultInv, PathIsLinked, ChainInv
  <1> QED
    BY <1>2, <1>3

\* An issuer that issued_by accepts certifies its child.
LEMMA AcceptedCertifies ==
  ASSUME NEW child, NEW issuer, NEW following,
         IssuedBy(child, issuer, call.now, following) = "ok"
  PROVE  Certifies(issuer, child, following)
  BY DEF IssuedBy, AssertsCa, CertIsValidAt, Certifies

\* What is known of an unfinished search.
LEMMA AtTop ==
  ASSUME ChainInv, stack # <<>>
  PROVE  /\ stack \in Seq(Frames) /\ Len(stack) \in Nat \ {0}
         /\ Top \in Frames /\ Top = stack[Len(stack)]
         /\ Current = CertAt(Top.at) /\ Current \in Certs
         /\ Len(Anchors) \in Nat /\ DOMAIN Anchors = 1..Len(Anchors)
         /\ \A i \in DOMAIN Anchors : Anchors[i] \in Certs \union {Garbage}
         /\ Len(Inters) \in Nat /\ DOMAIN Inters = 1..Len(Inters)
         /\ \A i \in DOMAIN Inters : Inters[i] \in Certs /\ CertAt(i) = Inters[i]
PROOF
  <1>1. /\ CallType /\ IsLine(stack) /\ call.chain # <<>>
        /\ \A i \in DOMAIN call.chain : call.chain[i] \in Certs
    BY DEF ChainInv, IsLine
  <1>2. stack \in Seq(Frames) /\ Len(stack) \in Nat \ {0} /\ Len(stack) \in DOMAIN stack
    BY <1>1 DEF IsLine
  <1>3. Top \in Frames /\ Top = stack[Len(stack)] /\ Current = CertAt(Top.at)
    BY <1>2 DEF Top, Current
  <1>4. Current \in Certs
    BY <1>1, <1>2, <1>3, LineCerts
  <1>5. /\ Len(Inters) \in Nat /\ DOMAIN Inters = 1..Len(Inters)
        /\ \A i \in DOMAIN Inters : Inters[i] \in Certs
    BY <1>1, TailType
  <1>6. \A i \in DOMAIN Inters : CertAt(i) = Inters[i]
    BY <1>5 DEF CertAt
  <1> QED
    BY <1>1, <1>2, <1>3, <1>4, <1>5, <1>6 DEF Anchors, CallType

\* The budget and the arguments.
LEMMA SpentKeeps ==
  ASSUME ChainInv, call' = call, budget' = budget \/ (budget > 0 /\ budget' = budget - 1)
  PROVE  CallType' /\ budget' \in 0..MaxNodeVisits
  BY BoundsAssumption DEF ChainInv, CallType

LEMMA InitChainInv == ChainInit => ChainInv
PROOF
  <1> SUFFICES ASSUME ChainInit PROVE ChainInv
    OBVIOUS
  <1>1. CallType
    BY DEF ChainInit, CallType
  <1>2. IsLine(stack) /\ PositionsInv
    BY EmptyLine DEF ChainInit, PositionsInv
  <1>3. budget \in 0..MaxNodeVisits
    BY BoundsAssumption DEF ChainInit
  <1>4. ResultInv /\ PathIsLinked
    BY DEF ChainInit, NoResult, ResultInv, PathIsLinked
  <1> QED
    BY <1>1, <1>2, <1>3, <1>4 DEF ChainInv

\* Whatever verify_chain is asked, by whom.
LEMMA AskedInv ==
  ASSUME ChainInv, NEW c, VerifyChain(c),
         c.chain \in Seq(Certs \union {Garbage}), c.anchors \in Seq(Certs \union {Garbage})
  PROVE  ChainInv'
PROOF
  <1>1. CallType'
    BY DEF VerifyChain, CallType
  <1>2. budget' \in 0..MaxNodeVisits
    BY BoundsAssumption DEF VerifyChain
  <1>3. lastErr' # "ok"
    BY DEF VerifyChain, FirstReason, MoreSpecific
  <1>4. result'.verdict # "ok"
    BY DEF VerifyChain, NoResult, Failure
  <1>5. ResultInv' /\ PathIsLinked'
    BY <1>3, <1>4 DEF ResultInv, PathIsLinked
  <1>6. CASE BeforeWalk(c) # "ok"
    <2>1. stack' = <<>>
      BY <1>6 DEF VerifyChain
    <2>2. (IsLine(stack) /\ PositionsInv)'
      BY <2>1 DEF IsLine, PositionsInv
    <2> QED
      BY <1>1, <1>2, <1>5, <2>2 DEF ChainInv
  <1>7. CASE BeforeWalk(c) = "ok"
    <2> DEFINE f == Frame(0, 0)
    <2>1. stack' = <<f>> /\ call' = c
      BY <1>7 DEF VerifyChain
    <2>2. f \in Frames /\ f.at = 0 /\ f.depth = 0 /\ f.next = 0
      BY DEF Frame, Frames
    <2> HIDE DEF f
    <2>3. c.chain # <<>> /\ \A i \in DOMAIN c.chain : c.chain[i] \in Certs
      <3>1. c.chain # <<>> /\ \A i \in DOMAIN c.chain : c.chain[i] # Garbage
        BY <1>7 DEF BeforeWalk
      <3> QED
        BY <3>1
    <2>4. /\ stack' \in Seq(Frames) /\ Len(stack') = 1 /\ DOMAIN stack' = {1}
          /\ stack'[1] = f /\ 2..1 = {}
      BY <2>1, <2>2
    <2>5. Counting(stack, 1)' = {} /\ Cardinality({}) = 0
      BY <2>4, FS_EmptySet DEF Counting
    <2>6. IsLine(stack)'
      <3>1. call'.chain # <<>> /\ (\A i \in DOMAIN call'.chain : call'.chain[i] \in Certs)
            /\ Len(stack') <= MaxPathLen + 1 /\ stack'[1].at = 0
        BY <2>1, <2>2, <2>3, <2>4, BoundsAssumption
      <3>2. \A k \in DOMAIN stack' : stack'[k].depth = Cardinality(Counting(stack, k)')
        BY <2>2, <2>4, <2>5
      <3>3. \A k \in 2..Len(stack') : FALSE
        BY <2>4
      <3> QED
        BY <2>4, <3>1, <3>2, <3>3 DEF IsLine
    <2>7. PositionsInv'
      <3>1. call'.chain # <<>> /\ CallType'
        BY <1>1, <2>1, <2>3
      <3>2. (call.chain # <<>> /\ CallType => Len(Inters) \in Nat)'
        BY TailType, PTL
      <3>3. (CallType => Len(Anchors) \in Nat)'
        BY DEF CallType, Anchors
      <3>4. Len(Inters)' \in Nat /\ Len(Anchors)' \in Nat
        BY <3>1, <3>2, <3>3
      <3> QED
        BY <2>2, <2>4, <3>4 DEF PositionsInv
    <2> QED
      BY <1>1, <1>2, <1>5, <2>6, <2>7 DEF ChainInv
  <1> QED
    BY <1>6, <1>7

\* A return, with a reason that is none of success.
LEMMA ReturnInv ==
  ASSUME ChainInv, stack # <<>>, NEW res, NEW err, err # "ok", Return(res, err),
         UNCHANGED <<call, budget>>, lastErr' # "ok"
  PROVE  ChainInv'
PROOF
  <1>1. IsLine(stack)' /\ PositionsInv' /\ (result' = result \/ result'.verdict # "ok")
    BY ReturnKeeps
  <1>2. ResultInv' /\ PathIsLinked'
    BY <1>1, ResultKept DEF ChainInv
  <1> QED
    BY <1>1, <1>2, SpentKeeps DEF ChainInv

\* The next candidate.
LEMMA AdvanceInv ==
  ASSUME ChainInv, stack # <<>>, Advance, Top.next <= Len(Anchors) + Len(Inters),
         UNCHANGED <<call, result>>, lastErr' # "ok",
         budget' = budget \/ (budget > 0 /\ budget' = budget - 1)
  PROVE  ChainInv'
PROOF
  <1>1. ResultInv' /\ PathIsLinked'
    BY ResultKept DEF ChainInv
  <1> QED
    BY <1>1, AdvanceKeeps, SpentKeeps DEF ChainInv

\* The end of a search that has come to an anchor.
LEMMA ReachedInv ==
  ASSUME ChainInv, stack # <<>>, NEW anchor \in Certs, IsPinned(anchor),
         anchor = Current \/ Certifies(anchor, Current, Top.depth),
         Reached(anchor), UNCHANGED <<call, lastErr>>,
         budget' = budget \/ (budget > 0 /\ budget' = budget - 1)
  PROVE  ChainInv'
  BY ReachedKeeps, SpentKeeps DEF ChainInv

LEMMA EnterInv == ASSUME ChainInv, Enter PROVE ChainInv'
PROOF
  <1>1. stack # <<>> /\ Top.next = 0 /\ lastErr # "ok"
    BY DEF Enter, ChainInv, ResultInv
  <1>2. CASE IsPinned(Current) /\ Reached(Current) /\ UNCHANGED lastErr
    BY <1>1, <1>2, AtTop, ReachedInv DEF Enter
  <1>3. CASE /\ lastErr' = MoreSpecific(lastErr, "SignatureAlgorithmMismatch")
             /\ Return("DeadEnd", lastErr')
    <2>1. lastErr' # "ok"
      BY <1>1, <1>3 DEF MoreSpecific
    <2> QED
      BY <1>1, <1>3, <2>1, ReturnInv DEF Enter
  <1>4. CASE Advance /\ UNCHANGED <<lastErr, result>>
    <2>1. Top.next <= Len(Anchors) + Len(Inters)
      BY <1>1, AtTop
    <2> QED
      BY <1>1, <1>4, <2>1, AdvanceInv DEF Enter
  <1> QED
    BY <1>2, <1>3, <1>4 DEF Enter

LEMMA ExhaustedInv == ASSUME ChainInv, stack # <<>>, Exhausted PROVE ChainInv'
  BY ReturnInv DEF Exhausted, ChainInv, ResultInv

LEMMA TryAnchorInv == ASSUME ChainInv, TryAnchor PROVE ChainInv'
PROOF
  <1> DEFINE anchor == Anchors[NextAnchor]
             answer == IssuedBy(Current, anchor, call.now, Top.depth)
  <1>1. stack # <<>> /\ Top.next > 0 /\ NextAnchor <= Len(Anchors) /\ lastErr # "ok"
    BY DEF TryAnchor, ChainInv, ResultInv
  <1>2. /\ Top.next \in Nat /\ Len(Anchors) \in Nat /\ Len(Inters) \in Nat
        /\ DOMAIN Anchors = 1..Len(Anchors)
        /\ \A i \in DOMAIN Anchors : Anchors[i] \in Certs \union {Garbage}
    BY <1>1, AtTop DEF Frames
  <1>3. NextAnchor \in DOMAIN Anchors /\ Top.next <= Len(Anchors) + Len(Inters)
    BY <1>1, <1>2 DEF NextAnchor
  <1>4. CASE ~IsCert(anchor) /\ Advance /\ UNCHANGED <<call, budget, lastErr, result>>
    BY <1>1, <1>3, <1>4, AdvanceInv
  <1>5. CASE IsCert(anchor) /\ Exhausted
    BY <1>1, <1>5, ExhaustedInv
  <1>6. CASE /\ IsCert(anchor) /\ budget > 0 /\ budget' = budget - 1 /\ UNCHANGED call
             /\ answer = "ok" /\ Reached(anchor) /\ UNCHANGED lastErr
    <2>1. anchor \in Certs /\ IsPinned(anchor)
      BY <1>2, <1>3, <1>6 DEF IsCert, IsPinned
    <2>2. Certifies(anchor, Current, Top.depth)
      BY <1>6, AcceptedCertifies
    <2> QED
      BY <1>1, <1>6, <2>1, <2>2, ReachedInv
  <1>7. CASE /\ budget > 0 /\ budget' = budget - 1 /\ UNCHANGED call
             /\ answer # "ok" /\ lastErr' = MoreSpecific(lastErr, answer) /\ Advance /\ UNCHANGED result
    <2>1. lastErr' # "ok"
      BY <1>1, <1>7 DEF MoreSpecific
    <2> QED
      BY <1>1, <1>3, <1>7, <2>1, AdvanceInv
  <1> QED
    BY <1>4, <1>5, <1>6, <1>7 DEF TryAnchor

LEMMA AtCapInv == ASSUME ChainInv, AtCap PROVE ChainInv'
PROOF
  <1>1. PICK res : Return(res, lastErr)
    BY DEF AtCap
  <1> QED
    BY <1>1, ReturnInv DEF AtCap, ChainInv, ResultInv

LEMMA LeaveInv == ASSUME ChainInv, Leave PROVE ChainInv'
PROOF
  <1>1. PICK res : Return(res, lastErr)
    BY DEF Leave
  <1> QED
    BY <1>1, ReturnInv DEF Leave, ChainInv, ResultInv

\* An intermediate that certifies the certificate at hand becomes the one at hand.
LEMMA DescendInv ==
  ASSUME ChainInv, stack # <<>>, Hops < MaxPathLen, NextInter \in DOMAIN Inters,
         budget > 0, budget' = budget - 1, UNCHANGED <<call, result, lastErr>>,
         IssuedBy(Current, Inters[NextInter], call.now, Top.depth) = "ok",
         stack' = Append(stack, Frame(NextInter,
                    IF IsSelfIssued(Inters[NextInter]) THEN Top.depth ELSE Top.depth + 1))
  PROVE  ChainInv'
PROOF
  <1> DEFINE n == Len(stack)
             depth == IF IsSelfIssued(Inters[NextInter]) THEN Top.depth ELSE Top.depth + 1
             f == Frame(NextInter, depth)
  <1>1. /\ stack \in Seq(Frames) /\ n \in Nat \ {0} /\ Top \in Frames /\ Top = stack[n]
        /\ Current = CertAt(Top.at)
        /\ Len(Anchors) \in Nat /\ Len(Inters) \in Nat /\ DOMAIN Inters = 1..Len(Inters)
        /\ CertAt(NextInter) = Inters[NextInter]
        /\ n <= MaxPathLen /\ MaxPathLen \in Nat
    BY AtTop, BoundsAssumption DEF Hops
  <1>2. depth \in Nat
    <2>1. Top.depth \in Nat
      BY <1>1 DEF Frames
    <2> QED
      BY <2>1
  <1>3. f \in Frames /\ f.at = NextInter /\ f.depth = depth /\ f.next = 0
    BY <1>1, <1>2 DEF Frame, Frames
  <1>4. Certifies(CertAt(f.at), CertAt(stack[n].at), stack[n].depth)
    <2>1. Certifies(Inters[NextInter], Current, Top.depth)
      BY AcceptedCertifies
    <2> QED
      BY <1>1, <1>3, <2>1
  <1>5. f.depth = IF IsSelfIssued(CertAt(f.at)) THEN stack[n].depth ELSE stack[n].depth + 1
    BY <1>1, <1>3
  <1>6. stack' = Append(stack, f)
    OBVIOUS
  <1> HIDE DEF f, depth
  <1>7. IsLine(stack')
    BY <1>1, <1>3, <1>4, <1>5, <1>6, LineGrows DEF ChainInv
  <1> HIDE DEF n
  <1>8. PositionsInv'
    <2>1. /\ Len(stack') = n + 1 /\ DOMAIN stack' = 1..(n + 1) /\ DOMAIN stack = 1..n
          /\ \A k \in 1..n : stack'[k] = stack[k]
          /\ stack'[n + 1] = f
      BY <1>1, <1>3, <1>6 DEF n
    <2>2. \A k \in 1..n : stack[k].next <= Len(Anchors) + Len(Inters) + 1
      BY <2>1 DEF ChainInv, PositionsInv
    <2>3. \A k \in 2..n : stack[k - 1].next = Len(Anchors) + stack[k].at
      BY DEF ChainInv, PositionsInv, n
    <2>4. stack[n].next = Len(Anchors) + f.at
      <3>1. stack[n].next \in Nat
        BY <1>1 DEF Frames
      <3> QED
        BY <1>1, <1>3, <3>1 DEF NextInter
    <2>5. \A k \in 1..(n + 1) : stack'[k].next <= Len(Anchors) + Len(Inters) + 1
      BY <1>1, <1>3, <2>1, <2>2
    <2>6. \A k \in 2..(n + 1) : stack'[k - 1].next = Len(Anchors) + stack'[k].at
      <3> TAKE k \in 2..(n + 1)
      <3>1. n \in Nat /\ n >= 1
        BY <1>1
      <3>2. CASE k = n + 1
        <4>1. k - 1 = n /\ n \in 1..n
          BY <3>1, <3>2
        <4> QED
          BY <2>1, <2>4, <3>2, <4>1
      <3>3. CASE k \in 2..n
        <4>1. k - 1 \in 1..n /\ k \in 1..n
          BY <3>1, <3>3
        <4> QED
          BY <2>1, <2>3, <3>3, <4>1
      <3>4. k = n + 1 \/ k \in 2..n
        BY <3>1
      <3> QED
        BY <3>2, <3>3, <3>4
    <2>7. Anchors' = Anchors /\ Inters' = Inters
      BY DEF Anchors, Inters
    <2> QED
      BY <2>1, <2>5, <2>6, <2>7 DEF PositionsInv
  <1>9. ResultInv' /\ PathIsLinked'
    BY ResultKept DEF ChainInv, ResultInv
  <1> QED
    BY <1>7, <1>8, <1>9, LineKept, SpentKeeps DEF ChainInv

LEMMA TryIntermediateInv == ASSUME ChainInv, TryIntermediate PROVE ChainInv'
PROOF
  <1> DEFINE candidate == Inters[NextInter]
             answer == IssuedBy(Current, candidate, call.now, Top.depth)
  <1>1. /\ stack # <<>> /\ Hops < MaxPathLen /\ lastErr # "ok"
        /\ NextInter > 0 /\ NextInter <= Len(Inters)
    BY DEF TryIntermediate, ChainInv, ResultInv
  <1>2. NextInter \in DOMAIN Inters /\ Top.next <= Len(Anchors) + Len(Inters)
    <2>1. /\ Top.next \in Nat /\ Len(Anchors) \in Nat /\ Len(Inters) \in Nat
          /\ DOMAIN Inters = 1..Len(Inters)
      BY <1>1, AtTop DEF Frames
    <2> QED
      BY <1>1, <2>1 DEF NextInter
  <1>3. CASE Advance /\ UNCHANGED <<call, budget, lastErr, result>>
    BY <1>1, <1>2, <1>3, AdvanceInv
  <1>4. CASE Exhausted
    BY <1>1, <1>4, ExhaustedInv
  <1>5. CASE /\ budget > 0 /\ budget' = budget - 1 /\ UNCHANGED <<call, result>>
             /\ answer = "ok"
             /\ stack' = Append(stack, Frame(NextInter,
                           IF IsSelfIssued(candidate) THEN Top.depth ELSE Top.depth + 1))
             /\ UNCHANGED lastErr
    BY <1>1, <1>2, <1>5, DescendInv
  <1>6. CASE /\ budget > 0 /\ budget' = budget - 1 /\ UNCHANGED <<call, result>>
             /\ answer # "ok" /\ lastErr' = MoreSpecific(lastErr, answer) /\ Advance
    <2>1. lastErr' # "ok"
      BY <1>1, <1>6 DEF MoreSpecific
    <2> QED
      BY <1>1, <1>2, <1>6, <2>1, AdvanceInv
  <1> QED
    BY <1>3, <1>4, <1>5, <1>6 DEF TryIntermediate

\* A search is asked for, goes on, or rests: who asks makes no difference to it.
ChainStep == (\E c : IsCall(c) /\ VerifyChain(c)) \/ Walk \/ UNCHANGED chainVars

LEMMA NextIsStep == [ChainNext]_chainVars => ChainStep
  BY CallsAssumption DEF ChainNext, ChainStep

LEMMA ChainInvKept == ChainInv /\ ChainStep => ChainInv'
PROOF
  <1> SUFFICES ASSUME ChainInv, ChainStep PROVE ChainInv'
    OBVIOUS
  <1>1. CASE \E c : IsCall(c) /\ VerifyChain(c)
    BY <1>1, AskedInv DEF IsCall
  <1>2. CASE Walk
    BY <1>2, EnterInv, TryAnchorInv, AtCapInv, TryIntermediateInv, LeaveInv DEF Walk
  <1>3. CASE UNCHANGED chainVars
    <2>1. /\ call' = call /\ stack' = stack /\ budget' = budget
          /\ lastErr' = lastErr /\ result' = result
      BY <1>3 DEF chainVars
    <2>2. IsLine(stack)'
      BY <2>1, LineKept DEF ChainInv
    <2>3. PositionsInv'
      BY <2>1 DEF ChainInv, PositionsInv, Anchors, Inters
    <2>4. ResultInv' /\ PathIsLinked'
      BY <2>1, ResultKept DEF ChainInv, ResultInv
    <2> QED
      BY <2>1, <2>2, <2>3, <2>4, SpentKeeps DEF ChainInv
  <1> QED
    BY <1>1, <1>2, <1>3 DEF ChainStep

LEMMA ChainInvType == ChainInv => ChainTypeOK
PROOF
  <1> SUFFICES ASSUME ChainInv PROVE ChainTypeOK
    OBVIOUS
  <1>1. ASSUME NEW k \in DOMAIN stack
        PROVE  /\ stack[k].at \in 0..Len(Inters) /\ stack[k].depth \in Nat
               /\ stack[k].next \in 0..(Len(Anchors) + Len(Inters) + 1)
               /\ stack[k].tooLong \in BOOLEAN
    <2>1. stack # <<>> /\ stack \in Seq(Frames) /\ stack[k] \in Frames
      BY <1>1 DEF ChainInv, IsLine
    <2>2. Len(Anchors) \in Nat /\ Len(Inters) \in Nat /\ DOMAIN Inters = 1..Len(Inters)
      BY <2>1, AtTop
    <2>3. stack[k].at \in {0} \union DOMAIN Inters
      BY <1>1, LineCerts DEF ChainInv
    <2>4. stack[k].next <= Len(Anchors) + Len(Inters) + 1
      BY <1>1 DEF ChainInv, PositionsInv
    <2>5. stack[k].depth \in Nat /\ stack[k].next \in Nat /\ stack[k].tooLong \in BOOLEAN
      BY <2>1 DEF Frames
    <2> QED
      BY <2>2, <2>3, <2>4, <2>5
  <1> QED
    BY <1>1 DEF ChainTypeOK, ChainInv, ResultInv

-----------------------------------------------------------------------------
\* ChainInv is an invariant: of the whole search, whatever the certificates.
LEMMA ChainInvHolds == ChainSpec => []ChainInv
  BY InitChainInv, ChainInvKept, NextIsStep, PTL DEF ChainSpec

(* The frames of a search stand at candidates there are, within the budget, and the root of an
   accepted path is a certificate (verify_chain, walk). *)
THEOREM ChainTypes == ChainSpec => []ChainTypeOK
  BY ChainInvHolds, ChainInvType, PTL

(* For any set of certificates, any anchors and any cap: a path that verify_chain accepts runs from
   a configured anchor to the leaf, every certificate on it certified by the one above with the
   path length that is left, no matter how often the search backed out of a branch. *)
THEOREM AcceptedPathIsLinked == ChainSpec => []PathIsLinked
PROOF
  <1>1. ChainInv => PathIsLinked
    BY DEF ChainInv
  <1> QED
    BY <1>1, ChainInvHolds, PTL

-----------------------------------------------------------------------------
(* Induction, over sets. *)

\* A set of natural numbers has a least element.
LEMMA LeastOf ==
  ASSUME NEW T, T \subseteq Nat, T # {}
  PROVE  \E m \in T : \A k \in T : m <= k
PROOF
  <1>1. \E x \in T : \A y \in T : ~(<<y, x>> \in OpToRel(<, Nat))
    BY NatLessThanWellFounded, WFMin
  <1>2. PICK x \in T : \A y \in T : ~(<<y, x>> \in OpToRel(<, Nat))
    BY <1>1
  <1>3. \A y \in T : ~(y < x)
    BY <1>2 DEF OpToRel
  <1> QED
    BY <1>3

\* What holds of 0 and passes from each number to the next holds up to n.
LEMMA CountingUp ==
  ASSUME NEW n \in Nat, NEW S, 0 \in S, \A i \in 1..n : i - 1 \in S => i \in S
  PROVE  \A i \in 0..n : i \in S
PROOF
  <1> DEFINE T == {i \in 0..n : i \notin S}
  <1> SUFFICES ASSUME T # {} PROVE FALSE
    OBVIOUS
  <1>1. T \subseteq Nat
    OBVIOUS
  <1>2. PICK m \in T : \A k \in T : m <= k
    BY <1>1, LeastOf
  <1>3. m \in 1..n /\ m - 1 \in 0..n /\ ~(m <= m - 1)
    BY <1>2
  <1>4. m - 1 \in S
    BY <1>2, <1>3
  <1> QED
    BY <1>2, <1>3, <1>4

-----------------------------------------------------------------------------
(* The path constraints. *)

Start == [verdict |-> "ok", nc |-> NoConstraints]
\* What enforce_path_constraints knows after each certificate.
IsRun(path, f, n) == f = [i \in 0..n |-> IF i = 0 THEN Start ELSE Enforce(path, i, f[i - 1])]

LEMMA RunExists ==
  ASSUME NEW path, NEW n \in Nat
  PROVE  \E f : IsRun(path, f, n)
PROOF
  <1> DEFINE S == {i \in 0..n : \E f : IsRun(path, f, i)}
  <1>1. 0 \in S
    <2> DEFINE f == [i \in 0..0 |-> Start]
    <2>1. IsRun(path, f, 0)
      BY DEF IsRun
    <2> QED
      BY <2>1
  <1>2. ASSUME NEW i \in 1..n, i - 1 \in S
        PROVE  i \in S
    <2>1. PICK f : IsRun(path, f, i - 1)
      BY <1>2
    <2> DEFINE last == Enforce(path, i, f[i - 1])
               g == [j \in 0..i |-> IF j < i THEN f[j] ELSE last]
    <2>2. \A j \in 0..(i - 1) : f[j] = IF j = 0 THEN Start ELSE Enforce(path, j, f[j - 1])
      BY <2>1 DEF IsRun
    <2> HIDE DEF last
    <2>3. \A j \in 0..i : g[j] = IF j = 0 THEN Start ELSE Enforce(path, j, g[j - 1])
      <3> TAKE j \in 0..i
      <3>1. CASE j = i
        <4>1. g[j] = last /\ j # 0 /\ g[j - 1] = f[i - 1]
          BY <3>1
        <4> QED
          BY <3>1, <4>1 DEF last
      <3>2. CASE j \in 0..(i - 1)
        <4>1. g[j] = f[j] /\ (j # 0 => g[j - 1] = f[j - 1])
          BY <3>2
        <4> QED
          BY <2>2, <3>2, <4>1
      <3> QED
        BY <3>1, <3>2
    <2>4. g = [j \in 0..i |-> g[j]]
      OBVIOUS
    <2> HIDE DEF g
    <2>5. IsRun(path, g, i)
      BY <2>3, <2>4, Zenon DEF IsRun
    <2> QED
      BY <1>2, <2>5
  <1> HIDE DEF S
  <1>3. \A i \in 0..n : i \in S
    BY <1>1, <1>2, CountingUp
  <1> QED
    BY <1>3 DEF S

\* The verdict is the last of a run.
LEMMA EnforceRuns ==
  ASSUME NEW path, Len(path) \in Nat
  PROVE  \E f : IsRun(path, f, Len(path)) /\ EnforcePathConstraints(path) = f[Len(path)].verdict
PROOF
  <1> DEFINE n == Len(path)
             f == CHOOSE g : g = [i \in 0..n |-> IF i = 0 THEN [verdict |-> "ok", nc |-> NoConstraints]
                                                  ELSE Enforce(path, i, g[i - 1])]
  <1>1. \E g : g = [i \in 0..n |-> IF i = 0 THEN [verdict |-> "ok", nc |-> NoConstraints]
                                    ELSE Enforce(path, i, g[i - 1])]
    BY RunExists DEF IsRun, Start
  <1>2. IsRun(path, f, n)
    BY <1>1, Zenon DEF IsRun, Start
  <1>3. EnforcePathConstraints(path) = f[Len(path)].verdict
    BY Zenon DEF EnforcePathConstraints
  <1> QED
    BY <1>2, <1>3

LEMMA EnforceOk ==
  ASSUME NEW path, NEW i, NEW sofar, Enforce(path, i, sofar).verdict = "ok"
  PROVE  /\ sofar.verdict = "ok"
         /\ i > 1 => ~path[i].crit
         /\ i > 1 /\ MustBeWithin(path[i], i = Len(path)) => SubjectWithin(path[i], sofar.nc)
         /\ NcProcessable(path[i])
         /\ Enforce(path, i, sofar).nc = Absorb(path[i], sofar.nc)
  BY DEF Enforce, Rejected

\* The constraints of one certificate are among those collected.
AreKept(own, nc) ==
  /\ \A t \in NameTypes :
       LET those == {s \in own.permitted : s.type = t}
       IN  those # {} => those \in nc.permitted[t]
  /\ own.excluded \subseteq nc.excluded

LEMMA AbsorbKeeps ==
  ASSUME NEW cert, NEW nc
  PROVE  /\ cert.nc # Absent => AreKept(cert.nc, Absorb(cert, nc))
         /\ \A own : AreKept(own, nc) => AreKept(own, Absorb(cert, nc))
  BY DEF Absorb, AreKept

\* The demands of one certificate on another below it.
Admitted(ca, cert) ==
  IF cert.san = Unreadable
  THEN ca.nc = Absent \/ Subtrees(ca.nc) = {}
  ELSE \A n \in NamesOf(cert) : Admits(ca, n)

LEMMA WithinIsAdmitted ==
  ASSUME NEW ca, NEW cert \in Certs, NEW nc, ca.nc # Absent => AreKept(ca.nc, nc),
         NcProcessable(ca), SubjectWithin(cert, nc)
  PROVE  Admitted(ca, cert)
PROOF
  <1> SUFFICES ASSUME ca.nc # Absent PROVE Admitted(ca, cert)
    BY DEF Admitted, Admits
  <1>1. \A s \in Subtrees(ca.nc) : s.type \in NameTypes
    BY DEF NcProcessable
  <1>2. CASE cert.san = Unreadable
    <2>1. nc = NoConstraints
      BY <1>2 DEF SubjectWithin, IsConstrained
    <2>2. ca.nc.excluded = {}
      BY <2>1 DEF AreKept, NoConstraints
    <2>3. \A t \in NameTypes : {s \in ca.nc.permitted : s.type = t} = {}
      BY <2>1 DEF AreKept, NoConstraints
    <2> QED
      BY <1>1, <1>2, <2>2, <2>3 DEF Admitted, Subtrees
  <1>3. CASE cert.san # Unreadable
    <2> SUFFICES ASSUME NEW n \in NamesOf(cert) PROVE Admits(ca, n)
      BY <1>3 DEF Admitted
    <2>1. n.type \in NameTypes
      BY CertsAssumption DEF NamesOf, NameTypes
    <2>2. NameWithin(n, nc)
      BY <1>3 DEF SubjectWithin
    <2> DEFINE those == {s \in ca.nc.permitted : s.type = n.type}
    <2>3. those # {} => \E s \in those : n \in s.names
      <3>1. those # {} => those \in nc.permitted[n.type]
        BY <2>1 DEF AreKept
      <3> QED
        BY <2>2, <3>1 DEF NameWithin
    <2>4. \A s \in ca.nc.excluded : n \notin s.names
      BY <2>2 DEF AreKept, NameWithin
    <2> QED
      BY <2>3, <2>4 DEF Admits
  <1> QED
    BY <1>2, <1>3

\* Of a path that passes, every certificate that is checked is admitted by all above it.
LEMMA ConstraintsHold ==
  ASSUME NEW path, Len(path) \in Nat, \A k \in 2..Len(path) : path[k] \in Certs,
         EnforcePathConstraints(path) = "ok"
  PROVE  \A k \in 2..Len(path) :
           /\ ~path[k].crit
           /\ (~IsSelfIssued(path[k]) \/ k = Len(path)) =>
                \A i \in 1..(k - 1) : Admitted(path[i], path[k])
PROOF
  <1> DEFINE n == Len(path)
  <1>1. PICK f : IsRun(path, f, n) /\ f[n].verdict = "ok"
    BY EnforceRuns
  <1>2. \A i \in 0..n : f[i] = IF i = 0 THEN Start ELSE Enforce(path, i, f[i - 1])
    BY <1>1 DEF IsRun
  <1> DEFINE Collected(i) ==
               \A j \in 1..i : /\ NcProcessable(path[j])
                               /\ path[j].nc # Absent => AreKept(path[j].nc, f[i].nc)
             Checked(k) ==
               /\ ~path[k].crit
               /\ (~IsSelfIssued(path[k]) \/ k = n) => \A i \in 1..(k - 1) : Admitted(path[i], path[k])
             S == {i \in 0..n : f[i].verdict = "ok" => Collected(i) /\ \A k \in 2..i : Checked(k)}
  <1>3. 0 \in S
    OBVIOUS
  <1>4. ASSUME NEW i \in 1..n, i - 1 \in S
        PROVE  i \in S
    <2> SUFFICES ASSUME f[i].verdict = "ok"
                 PROVE  Collected(i) /\ \A k \in 2..i : Checked(k)
      BY <1>4
    <2>1. i \in 0..n /\ i # 0 /\ f[i] = Enforce(path, i, f[i - 1])
      BY <1>2
    <2>2. /\ f[i - 1].verdict = "ok"
          /\ i > 1 => ~path[i].crit
          /\ i > 1 /\ MustBeWithin(path[i], i = n) => SubjectWithin(path[i], f[i - 1].nc)
          /\ NcProcessable(path[i])
          /\ f[i].nc = Absorb(path[i], f[i - 1].nc)
      BY <2>1, EnforceOk
    <2>3. Collected(i - 1) /\ \A k \in 2..(i - 1) : Checked(k)
      BY <1>4, <2>2
    <2>4. Collected(i)
      <3>1. ASSUME NEW j \in 1..i
            PROVE  /\ NcProcessable(path[j])
                   /\ path[j].nc # Absent => AreKept(path[j].nc, f[i].nc)
        <4>1. CASE j = i
          BY <2>2, <4>1, AbsorbKeeps
        <4>2. CASE j \in 1..(i - 1)
          BY <2>2, <2>3, <4>2, AbsorbKeeps
        <4> QED
          BY <4>1, <4>2
      <3> QED
        BY <3>1
    <2>5. i \in 2..n => Checked(i)
      <3> SUFFICES ASSUME i \in 2..n, ~IsSelfIssued(path[i]) \/ i = n, NEW j \in 1..(i - 1)
                   PROVE  Admitted(path[j], path[i])
        BY <2>2
      <3>1. SubjectWithin(path[i], f[i - 1].nc)
        BY <2>2 DEF MustBeWithin
      <3>2. NcProcessable(path[j]) /\ (path[j].nc # Absent => AreKept(path[j].nc, f[i - 1].nc))
        BY <2>3
      <3> QED
        BY <3>1, <3>2, WithinIsAdmitted
    <2>6. \A k \in 2..i : k = i \/ k \in 2..(i - 1)
      OBVIOUS
    <2> QED
      BY <2>3, <2>4, <2>5, <2>6
  <1> HIDE DEF S
  <1>5. n \in S
    <2>1. n \in Nat /\ \A i \in 0..n : i \in S
      BY <1>3, <1>4, CountingUp
    <2> QED
      BY <2>1
  <1> QED
    BY <1>1, <1>5 DEF S

\* How a step may change the answer.
LEMMA AnswerChanges ==
  ASSUME ChainInv, ChainStep
  PROVE  \/ UNCHANGED <<call, result>>
         \/ result'.verdict # "ok"
         \/ /\ stack # <<>> /\ UNCHANGED call
            /\ \E anchor : Reached(anchor)
PROOF
  <1> DEFINE Goal == \/ UNCHANGED <<call, result>>
                     \/ result'.verdict # "ok"
                     \/ stack # <<>> /\ UNCHANGED call /\ \E anchor : Reached(anchor)
  <1>1. ASSUME stack # <<>>, NEW res, NEW err, err # "ok", Return(res, err), call' = call
        PROVE  Goal
    BY <1>1, ReturnKeeps
  <1>2. lastErr # "ok"
    BY DEF ChainInv, ResultInv
  <1>3. CASE \E c : IsCall(c) /\ VerifyChain(c)
    BY <1>3 DEF VerifyChain, NoResult, Failure
  <1>4. CASE Enter
    <2>1. CASE Return("DeadEnd", MoreSpecific(lastErr, "SignatureAlgorithmMismatch"))
      BY <1>1, <1>2, <1>4, <2>1 DEF Enter, MoreSpecific
    <2> QED
      BY <1>4, <2>1 DEF Enter
  <1>5. CASE TryAnchor
    BY <1>1, <1>2, <1>5 DEF TryAnchor, Exhausted
  <1>6. CASE AtCap
    BY <1>1, <1>2, <1>6 DEF AtCap
  <1>7. CASE TryIntermediate
    BY <1>1, <1>2, <1>7 DEF TryIntermediate, Exhausted
  <1>8. CASE Leave
    BY <1>1, <1>2, <1>8 DEF Leave
  <1>9. CASE UNCHANGED chainVars
    BY <1>9 DEF chainVars
  <1> QED
    BY <1>3, <1>4, <1>5, <1>6, <1>7, <1>8, <1>9 DEF ChainStep, Walk

\* The certificates of a path below its anchor.
LEMMA PathCerts ==
  ASSUME CallType, IsLine(stack), stack # <<>>, NEW anchor
  PROVE  LET path == PathTo(anchor)
         IN  Len(path) \in Nat /\ \A j \in 2..Len(path) : path[j] \in Certs
PROOF
  <1> DEFINE path == PathTo(anchor)
             top == IF anchor = Current /\ IsPinned(Current) THEN Len(stack) ELSE Len(stack) + 1
  <1>1. Len(stack) \in Nat /\ DOMAIN stack = 1..Len(stack)
    BY DEF IsLine
  <1>2. top \in Nat /\ top <= Len(stack) + 1
    BY <1>1
  <1>3. Len(path) = top /\ \A j \in 2..top : path[j] = CertAt(stack[top + 1 - j].at)
    BY PathShape
  <1> HIDE DEF path, top
  <1>4. ASSUME NEW j \in 2..top PROVE path[j] \in Certs
    <2>1. top + 1 - j \in DOMAIN stack
      BY <1>1, <1>2
    <2> QED
      BY <1>3, <2>1, LineCerts
  <1> QED
    BY <1>2, <1>3, <1>4 DEF path

LEMMA ConstraintsKept ==
  ASSUME ChainInv, PathMeetsConstraints, ChainStep
  PROVE  PathMeetsConstraints'
PROOF
  <1>1. CASE UNCHANGED <<call, result>>
    BY <1>1, Zenon DEF PathMeetsConstraints
  <1>2. CASE result'.verdict # "ok"
    BY <1>2 DEF PathMeetsConstraints
  <1>3. ASSUME stack # <<>>, NEW anchor, Reached(anchor), result'.verdict = "ok"
        PROVE  PathMeetsConstraints'
    <2> DEFINE path == PathTo(anchor)
    <2>1. EnforcePathConstraints(path) = "ok" /\ result'.path = path
      BY <1>3 DEF Reached, Failure
    <2>2. Len(path) \in Nat /\ \A j \in 2..Len(path) : path[j] \in Certs
      BY <1>3, PathCerts DEF ChainInv
    <2> HIDE DEF path
    <2>3. \A k \in 2..Len(path) :
            /\ ~path[k].crit
            /\ (~IsSelfIssued(path[k]) \/ k = Len(path)) =>
                 \A i \in 1..(k - 1) : Admitted(path[i], path[k])
      BY <2>1, <2>2, ConstraintsHold
    <2> QED
      BY <2>1, <2>3 DEF PathMeetsConstraints, Admitted, NamesOf, Admits, Subtrees, IsSelfIssued
  <1> HIDE DEF PathMeetsConstraints
  <1> QED
    BY <1>1, <1>2, <1>3, AnswerChanges

(* For any certificates and any path length: below every certificate of an accepted path the names
   lie within its constraints, an unreadable name lies below none, and no unknown critical extension
   is passed over (verify_chain, enforce_path_constraints). *)
THEOREM AcceptedPathMeetsConstraints == ChainSpec => []PathMeetsConstraints
PROOF
  <1>1. ChainInit => PathMeetsConstraints
    BY DEF ChainInit, NoResult, PathMeetsConstraints
  <1>2. ChainInv /\ PathMeetsConstraints /\ [ChainNext]_chainVars => PathMeetsConstraints'
    BY ConstraintsKept, NextIsStep
  <1> QED
    BY <1>1, <1>2, ChainInvHolds, PTL DEF ChainSpec

(* For any certificates and any order of the intermediates: what verify_chain accepts is a path
   that is linked from an anchor to the leaf and meets every constraint stated along it. *)
THEOREM AcceptedPathIsValid == ChainSpec => []PathIsValid
PROOF
  <1>1. PathIsLinked /\ PathMeetsConstraints => PathIsValid
    BY DEF PathIsValid
  <1> QED
    BY <1>1, AcceptedPathIsLinked, AcceptedPathMeetsConstraints, PTL

-----------------------------------------------------------------------------
(* The invariant of the search. *)

\* The routes, by what the search has to find out about them.
LinkedRoutes == {r \in Routes : IsLinked(r)}
DeadRoutes   == {r \in Routes : IsLinked(r) => ~EndsAtAnchor(r)}
CutRoutes ==
  {r \in LinkedRoutes :
     /\ Len(r) = MaxPathLen /\ LastOf(r).inner = LastOf(r).alg
     /\ \E i \in DOMAIN Inters \ {r[k] : k \in DOMAIN r} : LastOf(r).issuer = Inters[i].subject}
\* An issuer that is no match says nothing; the right one, nothing bad.
AnswerTo(r, issuer) == IssuedBy(LastOf(r), issuer, call.now, FollowingOn(r, Len(r) + 1))
IsQuiet(answer) == answer \in {"ok", "IssuerMismatch"}
QuietRoutes == {r \in Routes : IsLinked(r) => Rejections(r) = {}}

\* The route a line of frames has come up to its k-th, those that go on from there, and those of
\* them the k-th frame is done with.
RouteTo(line, k) == [j \in 1..(k - 1) |-> line[j + 1].at]
Follows(r, line, k) == Len(r) >= k - 1 /\ \A j \in 1..(k - 1) : r[j] = line[j + 1].at
Under(line, k) == {r \in Routes : Follows(r, line, k)}
Tried(line, k) == {r \in Under(line, k) : Len(r) >= k /\ r[k] + Len(Anchors) < line[k].next}
UsedBy(line, k) == {line[j].at : j \in 1..k}
FrameAnswer(f, issuer) == IssuedBy(CertAt(f.at), issuer, call.now, f.depth)

IsEntered(f) == ~IsPinned(CertAt(f.at)) /\ CertAt(f.at).inner = CertAt(f.at).alg

\* A frame has entered its certificate before it tries a candidate, and misses nothing:
FrameEntered(line, k) ==
  /\ RouteTo(line, k) \in LinkedRoutes
  /\ line[k].next > 0 => IsEntered(line[k])
\* no route it is done with ends at an anchor, and it knows of those that were cut;
FrameMisses(line, k) ==
  /\ \A a \in DOMAIN Anchors : a < line[k].next =>
       Anchors[a] = Garbage \/ FrameAnswer(line[k], Anchors[a]) # "ok"
  /\ Tried(line, k) \subseteq DeadRoutes
  /\ line[k].tooLong <=> Tried(line, k) \intersect CutRoutes # {}
\* while no reason but "issuer not found" is kept, there was none.
FrameIsQuiet(line, k) ==
  /\ \A a \in DOMAIN Anchors : a < line[k].next =>
       Anchors[a] = Garbage \/ IsQuiet(FrameAnswer(line[k], Anchors[a]))
  /\ \A i \in DOMAIN Inters : i + Len(Anchors) < line[k].next =>
       i \in UsedBy(line, k) \/ IsQuiet(FrameAnswer(line[k], Inters[i]))
  /\ ~line[k].tooLong => Tried(line, k) \subseteq QuietRoutes

Reasons == {"IssuerMismatch", "UnsupportedAlgorithm", "SignatureInvalid", "NotACa", "AnchorExpired",
            "SignatureAlgorithmMismatch"}
\* What a search may have recorded: the reasons met, or that no issuer was found.
Heard == RejectionsMet \union {"IssuerMismatch"}

\* The inductive invariant of the search.
SearchInv ==
  /\ lastErr \in Reasons
  /\ stack # <<>> => lastErr \in Heard
  /\ \A k \in DOMAIN stack :
       /\ FrameEntered(stack, k)
       /\ budget > 0 => FrameMisses(stack, k)
       /\ lastErr = "IssuerMismatch" => FrameIsQuiet(stack, k)
  /\ SearchIsExhaustive /\ ReasonIsKept

-----------------------------------------------------------------------------
(* Routes and frames. *)

LEMMA RoutesAre ==
  ASSUME CallType, call.chain # <<>>
  PROVE  \A r : r \in Routes <=> /\ r \in Seq(DOMAIN Inters) /\ Len(r) <= MaxPathLen
                                 /\ \A i, j \in 1..Len(r) : r[i] = r[j] => i = j
PROOF
  <1> DEFINE b == IF Len(Inters) < MaxPathLen THEN Len(Inters) ELSE MaxPathLen
             Injective(r, n) == \A i, j \in 1..n : r[i] = r[j] => i = j
  <1>1. /\ Len(Inters) \in Nat /\ MaxPathLen \in Nat /\ b \in Nat /\ DOMAIN Inters = 1..Len(Inters)
        /\ b <= MaxPathLen /\ \A n \in Nat : n <= Len(Inters) /\ n <= MaxPathLen => n \in 0..b
    BY TailType, BoundsAssumption
  <1>2. Routes = UNION {{r \in [1..n -> DOMAIN Inters] : Injective(r, n)} : n \in 0..b}
    BY DEF Routes
  <1> HIDE DEF b
  <1>3. ASSUME NEW r \in Routes
        PROVE  /\ r \in Seq(DOMAIN Inters) /\ Len(r) <= MaxPathLen /\ Injective(r, Len(r))
    <2>1. PICK n \in 0..b : r \in [1..n -> DOMAIN Inters] /\ Injective(r, n)
      BY <1>2
    <2>2. n \in Nat /\ n <= MaxPathLen
      BY <1>1
    <2>3. r \in Seq(DOMAIN Inters) /\ Len(r) = n
      BY <2>1, <2>2
    <2> QED
      BY <2>1, <2>2, <2>3
  <1>4. ASSUME NEW r \in Seq(DOMAIN Inters), Len(r) <= MaxPathLen, Injective(r, Len(r))
        PROVE  r \in Routes
    <2> DEFINE n == Len(r)
    <2>1. n \in Nat /\ r \in [1..n -> DOMAIN Inters]
      OBVIOUS
    <2> HIDE DEF n
    <2>2. r \in Injection(1..n, DOMAIN Inters)
      BY <1>4, <2>1, Fun_IsInj DEF n
    <2>3. /\ IsFiniteSet(1..n) /\ Cardinality(1..n) = n
          /\ IsFiniteSet(1..Len(Inters)) /\ Cardinality(1..Len(Inters)) = Len(Inters)
      <3>1. ASSUME NEW m \in Nat PROVE IsFiniteSet(1..m) /\ Cardinality(1..m) = m
        <4>1. 1 \in Int /\ m \in Int /\ (1 > m => m = 0) /\ m - 1 + 1 = m
          OBVIOUS
        <4> QED
          BY <4>1, FS_Interval
      <3> QED
        BY <1>1, <2>1, <3>1
    <2>4. n <= Len(Inters)
      BY <1>1, <2>2, <2>3, FS_Injection
    <2>5. n \in 0..b
      BY <1>1, <1>4, <2>1, <2>4 DEF n
    <2> QED
      BY <1>2, <1>4, <2>1, <2>5 DEF n
  <1> QED
    BY <1>3, <1>4

\* What a frame is on, on every route that has come to it.
LEMMA FollowsLine ==
  ASSUME CallType, NEW line, IsLine(line), NEW k \in DOMAIN line, NEW r \in Routes, Follows(r, line, k)
  PROVE  /\ k \in Nat \ {0} /\ r \in Seq(DOMAIN Inters) /\ Len(r) \in Nat /\ Len(r) <= MaxPathLen
         /\ call.chain # <<>>
         /\ RouteCert(r, k - 1) = CertAt(line[k].at)
         /\ FollowingOn(r, k) = line[k].depth
         /\ {r[j] : j \in 1..(k - 1)} = UsedBy(line, k) \ {0}
PROOF
  <1>1. /\ line \in Seq(Frames) /\ line # <<>> /\ DOMAIN line = 1..Len(line) /\ Len(line) \in Nat
        /\ k \in Nat \ {0} /\ k \in 1..Len(line)
        /\ call.chain # <<>> /\ line[1].at = 0
        /\ \A j \in 2..Len(line) : line[j].at \in DOMAIN Inters
    BY DEF IsLine
  <1>2. /\ Len(Inters) \in Nat /\ DOMAIN Inters = 1..Len(Inters)
        /\ r \in Seq(DOMAIN Inters) /\ Len(r) \in Nat /\ Len(r) <= MaxPathLen
    BY <1>1, TailType, RoutesAre
  <1>3. \A j \in 1..(k - 1) : /\ r[j] = line[j + 1].at /\ r[j] \in DOMAIN Inters /\ r[j] # 0
                              /\ j + 1 \in 2..k
    <2> SUFFICES ASSUME NEW j \in 1..(k - 1)
                 PROVE  r[j] = line[j + 1].at /\ r[j] \in DOMAIN Inters /\ r[j] # 0 /\ j + 1 \in 2..k
      OBVIOUS
    <2>1. r[j] = line[j + 1].at
      BY DEF Follows
    <2>2. j + 1 \in 2..Len(line) /\ j + 1 \in 2..k
      BY <1>1
    <2> QED
      BY <1>1, <1>2, <2>1, <2>2
  <1>4. RouteCert(r, k - 1) = CertAt(line[k].at)
    <2>1. CASE k = 1
      BY <1>1, <2>1 DEF RouteCert, CertAt
    <2>2. CASE k # 1
      <3>1. k - 1 \in 1..(k - 1) /\ (k - 1) + 1 = k /\ k - 1 # 0
        BY <1>1, <2>2
      <3>2. r[k - 1] = line[k].at /\ r[k - 1] # 0
        BY <1>3, <3>1
      <3> QED
        BY <3>1, <3>2 DEF RouteCert, CertAt
    <2> QED
      BY <2>1, <2>2
  <1>5. FollowingOn(r, k) = line[k].depth
    <2> DEFINE S == {j \in 1..(k - 1) : ~IsSelfIssued(Inters[r[j]])}
               T == Counting(line, k)
               f == [i \in S |-> i + 1]
    <2>1. \A j \in 1..(k - 1) : Inters[r[j]] = CertAt(line[j + 1].at)
      BY <1>3 DEF CertAt
    <2>2. \A i \in S : i \in Int /\ i + 1 \in T
      BY <1>3, <2>1 DEF Counting
    <2>3. \A i \in T : i \in Int /\ i - 1 \in S
      <3> SUFFICES ASSUME NEW i \in T PROVE i \in Int /\ i - 1 \in S
        OBVIOUS
      <3>1. i \in 2..k /\ ~IsSelfIssued(CertAt(line[i].at))
        BY DEF Counting
      <3>2. i - 1 \in 1..(k - 1) /\ (i - 1) + 1 = i
        BY <1>1, <3>1
      <3> QED
        BY <2>1, <3>1, <3>2
    <2>4. IsFiniteSet(S)
      <3>1. IsFiniteSet(1..(k - 1)) /\ S \subseteq 1..(k - 1)
        BY <1>1, FS_Interval, 1 \in Int, k - 1 \in Int
      <3> QED
        BY <3>1, FS_Subset
    <2> HIDE DEF S, T
    <2>5. f \in Bijection(S, T)
      <3>1. f \in [S -> T]
        BY <2>2
      <3>2. \A a, c \in S : f[a] = f[c] => a = c
        BY <2>2
      <3>3. \A j \in T : \E i \in S : f[i] = j
        <4> TAKE j \in T
        <4>1. j - 1 \in S /\ f[j - 1] = j
          BY <2>3
        <4> QED
          BY <4>1
      <3> HIDE DEF f
      <3> QED
        BY <3>1, <3>2, <3>3, Fun_IsBij
    <2>6. Cardinality(T) = Cardinality(S)
      BY <2>4, <2>5, FS_Bijection DEF ExistsBijection
    <2>7. line[k].depth = Cardinality(T)
      BY DEF IsLine, T
    <2> QED
      BY <2>6, <2>7 DEF FollowingOn, S
  <1>6. {r[j] : j \in 1..(k - 1)} = UsedBy(line, k) \ {0}
    <2>1. ASSUME NEW j \in 1..(k - 1) PROVE r[j] \in UsedBy(line, k) \ {0}
      <3>1. j + 1 \in 1..k
        BY <1>1
      <3> QED
        BY <1>3, <3>1 DEF UsedBy
    <2>2. ASSUME NEW a \in UsedBy(line, k) \ {0} PROVE a \in {r[j] : j \in 1..(k - 1)}
      <3>1. PICK i \in 1..k : a = line[i].at
        BY DEF UsedBy
      <3>2. i - 1 \in 1..(k - 1) /\ (i - 1) + 1 = i
        BY <1>1, <3>1
      <3> QED
        BY <1>3, <3>1, <3>2
    <2> QED
      BY <2>1, <2>2
  <1> QED
    BY <1>1, <1>2, <1>4, <1>5, <1>6

\* A route that goes on takes a candidate the frames have not used, and one that is linked takes
\* one that answers well.
LEMMA GoesOn ==
  ASSUME CallType, NEW line, IsLine(line), NEW k \in DOMAIN line, NEW r \in Under(line, k), Len(r) >= k
  PROVE  /\ r[k] \in DOMAIN Inters /\ r[k] \notin UsedBy(line, k)
         /\ IsLinked(r) => /\ CertAt(line[k].at).inner = CertAt(line[k].at).alg
                           /\ FrameAnswer(line[k], Inters[r[k]]) = "ok"
PROOF
  <1>1. /\ r \in Routes /\ Follows(r, line, k) /\ k \in 1..Len(r)
        /\ k \in Nat \ {0} /\ r \in Seq(DOMAIN Inters) /\ Len(r) \in Nat
        /\ RouteCert(r, k - 1) = CertAt(line[k].at)
        /\ FollowingOn(r, k) = line[k].depth
        /\ {r[j] : j \in 1..(k - 1)} = UsedBy(line, k) \ {0}
        /\ call.chain # <<>>
    BY FollowsLine DEF Under
  <1>2. r[k] \in DOMAIN Inters /\ r[k] # 0 /\ RouteCert(r, k) = Inters[r[k]]
    <2>1. r[k] \in DOMAIN Inters
      BY <1>1
    <2>2. DOMAIN Inters \subseteq Nat \ {0}
      BY <1>1, TailType
    <2> QED
      BY <1>1, <2>1, <2>2 DEF RouteCert
  <1>3. r[k] \notin UsedBy(line, k)
    <2> SUFFICES ASSUME r[k] \in UsedBy(line, k) PROVE FALSE
      OBVIOUS
    <2>1. PICK j \in 1..(k - 1) : r[j] = r[k]
      BY <1>1, <1>2
    <2>2. \A a, c \in 1..Len(r) : r[a] = r[c] => a = c
      BY <1>1, RoutesAre
    <2>3. j \in 1..Len(r) /\ j # k
      BY <1>1
    <2> QED
      BY <1>1, <2>1, <2>2, <2>3
  <1>4. IsLinked(r) => /\ RouteCert(r, k - 1).inner = RouteCert(r, k - 1).alg
                       /\ IssuedBy(RouteCert(r, k - 1), RouteCert(r, k), call.now, FollowingOn(r, k)) = "ok"
    BY <1>1 DEF IsLinked
  <1> QED
    BY <1>1, <1>2, <1>3, <1>4 DEF FrameAnswer

\* The route that ends at a frame.
LEMMA OwnRoute ==
  ASSUME CallType, NEW line, IsLine(line), NEW k \in DOMAIN line,
         NEW r \in Under(line, k), Len(r) = k - 1
  PROVE  /\ LastOf(r) = CertAt(line[k].at)
         /\ \A issuer : AnswerTo(r, issuer) = FrameAnswer(line[k], issuer)
         /\ DOMAIN Inters \ {r[j] : j \in DOMAIN r} = DOMAIN Inters \ UsedBy(line, k)
         /\ r = RouteTo(line, k)
PROOF
  <1>1. /\ r \in Routes /\ Follows(r, line, k)
        /\ k \in Nat \ {0} /\ r \in Seq(DOMAIN Inters) /\ Len(r) \in Nat
        /\ RouteCert(r, k - 1) = CertAt(line[k].at)
        /\ FollowingOn(r, k) = line[k].depth
        /\ {r[j] : j \in 1..(k - 1)} = UsedBy(line, k) \ {0}
        /\ call.chain # <<>>
    BY FollowsLine DEF Under
  <1>2. LastOf(r) = CertAt(line[k].at) /\ Len(r) + 1 = k
    BY <1>1 DEF LastOf
  <1>3. \A issuer : AnswerTo(r, issuer) = FrameAnswer(line[k], issuer)
    BY <1>1, <1>2 DEF AnswerTo, FrameAnswer
  <1>4. DOMAIN r = 1..(k - 1) /\ 0 \notin DOMAIN Inters
    BY <1>1, TailType
  <1>5. r = RouteTo(line, k)
    <2>1. r = [j \in 1..(k - 1) |-> r[j]]
      BY <1>1, <1>4
    <2>2. \A j \in 1..(k - 1) : r[j] = line[j + 1].at
      BY <1>1 DEF Follows
    <2> QED
      BY <2>1, <2>2 DEF RouteTo
  <1> QED
    BY <1>1, <1>2, <1>3, <1>4, <1>5

\* A route that has come to a frame ends there or goes on.
LEMMA EndsOrGoesOn ==
  ASSUME CallType, NEW line, IsLine(line), NEW k \in DOMAIN line, NEW r \in Under(line, k)
  PROVE  /\ Len(r) = k - 1 \/ Len(r) >= k
         /\ k - 1 = MaxPathLen => Len(r) = k - 1
         /\ Len(r) = k - 1 => ~(Len(r) >= k)
PROOF
  <1>1. /\ Follows(r, line, k) /\ k \in Nat \ {0} /\ Len(r) \in Nat /\ Len(r) <= MaxPathLen
        /\ MaxPathLen \in Nat
    BY FollowsLine, BoundsAssumption DEF Under
  <1>2. Len(r) >= k - 1
    BY <1>1 DEF Follows
  <1> QED
    BY <1>1, <1>2

\* A certificate whose algorithms disagree ends every route.
LEMMA NothingUnder ==
  ASSUME CallType, NEW line, IsLine(line), NEW k \in DOMAIN line,
         ~IsPinned(CertAt(line[k].at)), CertAt(line[k].at).inner # CertAt(line[k].at).alg
  PROVE  Under(line, k) \subseteq DeadRoutes /\ Under(line, k) \intersect CutRoutes = {}
PROOF
  <1> SUFFICES ASSUME NEW r \in Under(line, k)
               PROVE  r \in DeadRoutes /\ r \notin CutRoutes
    OBVIOUS
  <1>1. r \in Routes
    BY DEF Under
  <1>2. CASE Len(r) = k - 1
    <2>1. LastOf(r) = CertAt(line[k].at)
      BY <1>2, OwnRoute
    <2>2. ~EndsAtAnchor(r)
      BY <2>1 DEF EndsAtAnchor
    <2> QED
      BY <1>1, <2>1, <2>2 DEF DeadRoutes, CutRoutes
  <1>3. CASE Len(r) >= k
    <2>1. ~IsLinked(r)
      BY <1>3, GoesOn
    <2> QED
      BY <1>1, <2>1 DEF DeadRoutes, CutRoutes, LinkedRoutes
  <1> QED
    BY <1>2, <1>3, EndsOrGoesOn

\* The route to a frame none of the anchors answers.
LEMMA OwnDead ==
  ASSUME CallType, NEW line, IsLine(line), NEW k \in DOMAIN line,
         NEW r \in Under(line, k), Len(r) = k - 1, IsEntered(line[k]),
         \A a \in DOMAIN Anchors : Anchors[a] = Garbage \/ FrameAnswer(line[k], Anchors[a]) # "ok"
  PROVE  r \in DeadRoutes
PROOF
  <1>1. LastOf(r) = CertAt(line[k].at) /\ \A issuer : AnswerTo(r, issuer) = FrameAnswer(line[k], issuer)
    BY OwnRoute
  <1>2. ASSUME NEW anchor \in AnchorCerts PROVE AnswerTo(r, anchor) # "ok"
    <2>1. PICK a \in DOMAIN Anchors : anchor = Anchors[a] /\ Anchors[a] # Garbage
      BY DEF AnchorCerts
    <2> QED
      BY <1>1, <2>1
  <1>3. ~IsPinned(LastOf(r))
    BY <1>1 DEF IsEntered
  <1>4. ~EndsAtAnchor(r)
    BY <1>2, <1>3 DEF EndsAtAnchor, AnswerTo
  <1> QED
    BY <1>4 DEF DeadRoutes, Under

LEMMA OwnCut ==
  ASSUME CallType, NEW line, IsLine(line), NEW k \in DOMAIN line, FrameEntered(line, k), IsEntered(line[k]),
         NEW r \in Under(line, k), Len(r) = k - 1
  PROVE  r \in CutRoutes <=>
           /\ k - 1 = MaxPathLen
           /\ \E i \in DOMAIN Inters : i \notin UsedBy(line, k) /\ CertAt(line[k].at).issuer = Inters[i].subject
PROOF
  <1>1. /\ LastOf(r) = CertAt(line[k].at) /\ r = RouteTo(line, k)
        /\ DOMAIN Inters \ {r[j] : j \in DOMAIN r} = DOMAIN Inters \ UsedBy(line, k)
    BY OwnRoute
  <1>2. r \in LinkedRoutes /\ LastOf(r).inner = LastOf(r).alg
    BY <1>1 DEF FrameEntered, IsEntered
  <1> QED
    BY <1>1, <1>2 DEF CutRoutes

LEMMA OwnQuiet ==
  ASSUME CallType, NEW line, IsLine(line), NEW k \in DOMAIN line,
         NEW r \in Under(line, k), Len(r) = k - 1, IsEntered(line[k]),
         \A a \in DOMAIN Anchors : Anchors[a] = Garbage \/ IsQuiet(FrameAnswer(line[k], Anchors[a])),
         k - 1 < MaxPathLen =>
           \A i \in DOMAIN Inters : i \in UsedBy(line, k) \/ IsQuiet(FrameAnswer(line[k], Inters[i]))
  PROVE  r \in QuietRoutes
PROOF
  <1>1. /\ \A issuer : AnswerTo(r, issuer) = FrameAnswer(line[k], issuer)
        /\ DOMAIN Inters \ {r[j] : j \in DOMAIN r} = DOMAIN Inters \ UsedBy(line, k)
    BY OwnRoute
  <1>2. \A anchor \in AnchorCerts : IsQuiet(AnswerTo(r, anchor))
    BY <1>1 DEF AnchorCerts
  <1>3. Len(r) < MaxPathLen =>
          \A i \in DOMAIN Inters \ {r[j] : j \in DOMAIN r} : IsQuiet(AnswerTo(r, Inters[i]))
    BY <1>1
  <1>4. LastOf(r).inner = LastOf(r).alg
    BY OwnRoute DEF IsEntered
  <1>5. \A issuer \in Candidates(r) : IsQuiet(AnswerTo(r, issuer))
    BY <1>2, <1>3 DEF Candidates
  <1>6. Rejections(r) = {}
    BY <1>4, <1>5 DEF Rejections, AnswerTo, IsQuiet
  <1> QED
    BY <1>6 DEF QuietRoutes, Under

\* A frame that has come to the end of its candidates, or that may go no deeper.
IsDone(line, k) ==
  \/ k - 1 = MaxPathLen /\ line[k].next > Len(Anchors)
  \/ k - 1 < MaxPathLen /\ line[k].next > Len(Anchors) + Len(Inters)

\* How its walk then returns.
Cut(line, k) ==
  IF k - 1 = MaxPathLen
  THEN \E i \in DOMAIN Inters : i \notin UsedBy(line, k) /\ CertAt(line[k].at).issuer = Inters[i].subject
  ELSE line[k].tooLong

LEMMA DoneTried ==
  ASSUME CallType, NEW line, IsLine(line), NEW k \in DOMAIN line, IsDone(line, k)
  PROVE  /\ \A r \in Under(line, k) : Len(r) = k - 1 \/ r \in Tried(line, k)
         /\ \A r \in Tried(line, k) : k - 1 # MaxPathLen /\ Len(r) >= k /\ r \in Under(line, k)
         /\ \A a \in DOMAIN Anchors : a < line[k].next
         /\ k - 1 < MaxPathLen => \A i \in DOMAIN Inters : i + Len(Anchors) < line[k].next
         /\ line[k].next > 0
PROOF
  <1>1. /\ k \in Nat \ {0} /\ line[k].next \in Nat /\ call.chain # <<>> /\ MaxPathLen \in Nat
    <2>1. line \in Seq(Frames) /\ line # <<>> /\ k \in 1..Len(line)
      BY DEF IsLine
    <2>2. line[k] \in Frames
      BY <2>1
    <2> QED
      BY <2>1, <2>2, BoundsAssumption DEF IsLine, Frames
  <1>2. /\ Len(Anchors) \in Nat /\ DOMAIN Anchors = 1..Len(Anchors)
        /\ Len(Inters) \in Nat /\ DOMAIN Inters = 1..Len(Inters)
    BY <1>1, TailType DEF CallType, Anchors
  <1>3. line[k].next > Len(Anchors)
    BY <1>1, <1>2 DEF IsDone
  <1>4. k - 1 # MaxPathLen => line[k].next > Len(Anchors) + Len(Inters)
    BY <1>1, <1>2 DEF IsDone
  <1>5. ASSUME NEW r \in Under(line, k) PROVE Len(r) = k - 1 \/ r \in Tried(line, k)
    <2> SUFFICES ASSUME Len(r) # k - 1 PROVE r \in Tried(line, k)
      OBVIOUS
    <2>1. Len(r) >= k /\ k - 1 # MaxPathLen
      BY EndsOrGoesOn
    <2>2. r[k] \in 1..Len(Inters)
      BY <1>2, <2>1, GoesOn
    <2>3. r[k] + Len(Anchors) < line[k].next
      BY <1>1, <1>2, <1>4, <2>1, <2>2
    <2> QED
      BY <2>1, <2>3 DEF Tried
  <1>6. ASSUME NEW r \in Tried(line, k) PROVE k - 1 # MaxPathLen /\ Len(r) >= k /\ r \in Under(line, k)
    <2>1. r \in Under(line, k) /\ Len(r) >= k
      BY DEF Tried
    <2> QED
      BY <2>1, EndsOrGoesOn
  <1>7. \A a \in DOMAIN Anchors : a < line[k].next
    BY <1>1, <1>2, <1>3
  <1>8. k - 1 < MaxPathLen => \A i \in DOMAIN Inters : i + Len(Anchors) < line[k].next
    BY <1>1, <1>2, <1>4
  <1> QED
    BY <1>1, <1>2, <1>3, <1>5, <1>6, <1>7, <1>8

LEMMA DoneMisses ==
  ASSUME CallType, NEW line, IsLine(line), NEW k \in DOMAIN line, IsDone(line, k),
         FrameEntered(line, k), FrameMisses(line, k)
  PROVE  /\ Under(line, k) \subseteq DeadRoutes
         /\ Cut(line, k) <=> Under(line, k) \intersect CutRoutes # {}
PROOF
  <1>1. IsEntered(line[k])
    BY DoneTried DEF FrameEntered
  <1>2. Under(line, k) \subseteq DeadRoutes
    <2> SUFFICES ASSUME NEW r \in Under(line, k) PROVE r \in DeadRoutes
      OBVIOUS
    <2>1. \A a \in DOMAIN Anchors : Anchors[a] = Garbage \/ FrameAnswer(line[k], Anchors[a]) # "ok"
      BY DoneTried DEF FrameMisses
    <2>2. CASE Len(r) = k - 1
      BY <1>1, <2>1, <2>2, OwnDead
    <2>3. CASE r \in Tried(line, k)
      BY <2>3 DEF FrameMisses
    <2> QED
      BY <2>2, <2>3, DoneTried
  <1>3. CASE k - 1 = MaxPathLen
    <2> DEFINE own == RouteTo(line, k)
    <2>1. own \in LinkedRoutes /\ own \in Routes
      BY DEF FrameEntered, LinkedRoutes
    <2>2. own \in Under(line, k)
      <3>1. k \in Nat \ {0}
        BY DEF IsLine
      <3>2. Len(own) = k - 1 /\ \A j \in 1..(k - 1) : own[j] = line[j + 1].at
        <4>1. own \in Seq(DOMAIN Inters)
          BY <2>1, RoutesAre, <1>1 DEF IsLine
        <4>2. DOMAIN own = 1..(k - 1) /\ k - 1 \in Nat
          BY <3>1 DEF RouteTo
        <4> QED
          BY <4>1, <4>2 DEF RouteTo
      <3> QED
        BY <2>1, <3>1, <3>2 DEF Under, Follows
    <2>3. \A r \in Under(line, k) : Len(r) = k - 1
      BY <1>3, EndsOrGoesOn
    <2> HIDE DEF own
    <2> QED
      BY <1>1, <1>2, <1>3, <2>2, <2>3, OwnCut DEF Cut
  <1>4. CASE k - 1 # MaxPathLen
    <2>1. \A r \in Under(line, k) : r \in CutRoutes => r \in Tried(line, k)
      BY <1>1, <1>4, OwnCut, DoneTried
    <2>2. Under(line, k) \intersect CutRoutes # {} <=> Tried(line, k) \intersect CutRoutes # {}
      BY <2>1, DoneTried
    <2> QED
      BY <1>2, <1>4, <2>2 DEF Cut, FrameMisses
  <1> QED
    BY <1>2, <1>3, <1>4

LEMMA DoneIsQuiet ==
  ASSUME CallType, NEW line, IsLine(line), NEW k \in DOMAIN line, IsDone(line, k),
         FrameEntered(line, k), FrameIsQuiet(line, k), ~Cut(line, k)
  PROVE  Under(line, k) \subseteq QuietRoutes
PROOF
  <1> SUFFICES ASSUME NEW r \in Under(line, k) PROVE r \in QuietRoutes
    OBVIOUS
  <1>3. IsEntered(line[k])
    BY DoneTried DEF FrameEntered
  <1>1. CASE Len(r) = k - 1
    BY <1>1, <1>3, DoneTried, OwnQuiet DEF FrameIsQuiet
  <1>2. CASE r \in Tried(line, k)
    <2>1. ~line[k].tooLong
      BY <1>2, DoneTried DEF Cut
    <2> QED
      BY <1>2, <2>1 DEF FrameIsQuiet
  <1> QED
    BY <1>1, <1>2, DoneTried

-----------------------------------------------------------------------------
(* From one line of frames to the next. *)

SameAts(line, other, k) == \A j \in 1..k : other[j].at = line[j].at
\* The routes through the candidate a frame is at.
AtHand(line, k) == {r \in Under(line, k) : Len(r) >= k /\ r[k] + Len(Anchors) = line[k].next}

LEMMA SameUnder ==
  ASSUME NEW line, NEW other, NEW k \in Nat \ {0}, SameAts(line, other, k)
  PROVE  /\ RouteTo(other, k) = RouteTo(line, k)
         /\ Under(other, k) = Under(line, k)
         /\ UsedBy(other, k) = UsedBy(line, k)
         /\ other[k].at = line[k].at
PROOF
  <1>1. \A j \in 1..(k - 1) : other[j + 1].at = line[j + 1].at
    BY DEF SameAts
  <1>2. RouteTo(other, k) = RouteTo(line, k)
    BY <1>1 DEF RouteTo
  <1>3. Under(other, k) = Under(line, k)
    BY <1>1 DEF Under, Follows
  <1>4. UsedBy(other, k) = UsedBy(line, k)
    BY DEF SameAts, UsedBy
  <1> QED
    BY <1>2, <1>3, <1>4 DEF SameAts

LEMMA SameFrame ==
  ASSUME NEW line, NEW other, NEW k \in Nat \ {0}, SameAts(line, other, k), other[k] = line[k]
  PROVE  /\ FrameEntered(line, k) => FrameEntered(other, k)
         /\ FrameMisses(line, k) => FrameMisses(other, k)
         /\ FrameIsQuiet(line, k) => FrameIsQuiet(other, k)
PROOF
  <1>1. /\ RouteTo(other, k) = RouteTo(line, k)
        /\ Under(other, k) = Under(line, k)
        /\ UsedBy(other, k) = UsedBy(line, k)
    BY SameUnder
  <1>2. Tried(other, k) = Tried(line, k)
    BY <1>1 DEF Tried
  <1> QED
    BY <1>1, <1>2 DEF FrameEntered, FrameMisses, FrameIsQuiet

\* A frame that goes on to its next candidate.
MovesOn(line, other, k) ==
  /\ SameAts(line, other, k)
  /\ other[k].depth = line[k].depth /\ other[k].next = line[k].next + 1

LEMMA FrameNumbers ==
  ASSUME CallType, NEW line, IsLine(line), NEW k \in DOMAIN line
  PROVE  /\ k \in Nat \ {0} /\ line[k] \in Frames /\ line[k].next \in Nat
         /\ Len(Anchors) \in Nat /\ DOMAIN Anchors = 1..Len(Anchors)
         /\ Len(Inters) \in Nat /\ DOMAIN Inters = 1..Len(Inters)
PROOF
  <1>1. line \in Seq(Frames) /\ line # <<>> /\ k \in 1..Len(line) /\ call.chain # <<>>
    BY DEF IsLine
  <1>2. line[k] \in Frames
    BY <1>1
  <1>3. Len(Inters) \in Nat /\ DOMAIN Inters = 1..Len(Inters)
    BY <1>1, TailType
  <1> QED
    BY <1>1, <1>2, <1>3 DEF Frames, CallType, Anchors

LEMMA TriedGrows ==
  ASSUME CallType, NEW line, IsLine(line), NEW k \in DOMAIN line, NEW other, MovesOn(line, other, k)
  PROVE  Tried(other, k) = Tried(line, k) \union AtHand(line, k)
PROOF
  <1>1. Under(other, k) = Under(line, k)
    BY FrameNumbers, SameUnder DEF MovesOn
  <1>2. ASSUME NEW r \in Under(line, k), Len(r) >= k
        PROVE  r[k] + Len(Anchors) < other[k].next <=>
                 r[k] + Len(Anchors) < line[k].next \/ r[k] + Len(Anchors) = line[k].next
    <2>1. r[k] \in DOMAIN Inters
      BY <1>2, GoesOn
    <2> QED
      BY <2>1, FrameNumbers DEF MovesOn
  <1> QED
    BY <1>1, <1>2 DEF Tried, AtHand

LEMMA EnteredMovesOn ==
  ASSUME CallType, NEW line, IsLine(line), NEW k \in DOMAIN line, NEW other, MovesOn(line, other, k),
         FrameEntered(line, k), IsEntered(line[k])
  PROVE  FrameEntered(other, k)
PROOF
  <1>1. RouteTo(other, k) = RouteTo(line, k) /\ other[k].at = line[k].at
    BY FrameNumbers, SameUnder DEF MovesOn
  <1> QED
    BY <1>1 DEF FrameEntered, IsEntered

LEMMA MissesMovesOn ==
  ASSUME CallType, NEW line, IsLine(line), NEW k \in DOMAIN line, NEW other, MovesOn(line, other, k),
         FrameMisses(line, k),
         AtHand(line, k) \subseteq DeadRoutes,
         \A a \in DOMAIN Anchors : a = line[k].next =>
           Anchors[a] = Garbage \/ FrameAnswer(line[k], Anchors[a]) # "ok",
         other[k].tooLong <=> line[k].tooLong \/ AtHand(line, k) \intersect CutRoutes # {}
  PROVE  FrameMisses(other, k)
PROOF
  <1>1. other[k].at = line[k].at
    BY FrameNumbers, SameUnder DEF MovesOn
  <1>2. \A issuer : FrameAnswer(other[k], issuer) = FrameAnswer(line[k], issuer)
    BY <1>1 DEF FrameAnswer, MovesOn
  <1>3. \A a \in DOMAIN Anchors : a < other[k].next => a < line[k].next \/ a = line[k].next
    BY FrameNumbers DEF MovesOn
  <1>4. \A a \in DOMAIN Anchors : a < other[k].next =>
          Anchors[a] = Garbage \/ FrameAnswer(other[k], Anchors[a]) # "ok"
    BY <1>2, <1>3 DEF FrameMisses
  <1> QED
    BY <1>4, TriedGrows DEF FrameMisses

LEMMA QuietMovesOn ==
  ASSUME CallType, NEW line, IsLine(line), NEW k \in DOMAIN line, NEW other, MovesOn(line, other, k),
         FrameIsQuiet(line, k),
         \A a \in DOMAIN Anchors : a = line[k].next =>
           Anchors[a] = Garbage \/ IsQuiet(FrameAnswer(line[k], Anchors[a])),
         \A i \in DOMAIN Inters : i + Len(Anchors) = line[k].next =>
           i \in UsedBy(line, k) \/ IsQuiet(FrameAnswer(line[k], Inters[i])),
         ~other[k].tooLong => ~line[k].tooLong /\ AtHand(line, k) \subseteq QuietRoutes
  PROVE  FrameIsQuiet(other, k)
PROOF
  <1>1. other[k].at = line[k].at /\ UsedBy(other, k) = UsedBy(line, k)
    BY FrameNumbers, SameUnder DEF MovesOn
  <1>2. \A issuer : FrameAnswer(other[k], issuer) = FrameAnswer(line[k], issuer)
    BY <1>1 DEF FrameAnswer, MovesOn
  <1>3. \A a \in DOMAIN Anchors : a < other[k].next => a < line[k].next \/ a = line[k].next
    BY FrameNumbers DEF MovesOn
  <1>4. \A i \in DOMAIN Inters : i + Len(Anchors) < other[k].next =>
          i + Len(Anchors) < line[k].next \/ i + Len(Anchors) = line[k].next
    <2>1. \A x, y \in Int : x < y + 1 => x < y \/ x = y
      OBVIOUS
    <2>2. \A i \in DOMAIN Inters : i + Len(Anchors) \in Int
      BY FrameNumbers
    <2>3. line[k].next \in Int /\ other[k].next = line[k].next + 1
      BY FrameNumbers DEF MovesOn
    <2> QED
      BY <2>1, <2>2, <2>3
  <1>5. \A a \in DOMAIN Anchors : a < other[k].next =>
          Anchors[a] = Garbage \/ IsQuiet(FrameAnswer(other[k], Anchors[a]))
    BY <1>2, <1>3 DEF FrameIsQuiet
  <1>6. \A i \in DOMAIN Inters : i + Len(Anchors) < other[k].next =>
          i \in UsedBy(other, k) \/ IsQuiet(FrameAnswer(other[k], Inters[i]))
    BY <1>1, <1>2, <1>4 DEF FrameIsQuiet
  <1>7. ~other[k].tooLong => Tried(other, k) \subseteq QuietRoutes
    BY TriedGrows DEF FrameIsQuiet
  <1> QED
    BY <1>5, <1>6, <1>7 DEF FrameIsQuiet

\* No route goes through an anchor, a used candidate or one that answers badly.
LEMMA NoneAtHand ==
  ASSUME CallType, NEW line, IsLine(line), NEW k \in DOMAIN line,
         \/ line[k].next <= Len(Anchors)
         \/ line[k].next - Len(Anchors) \in UsedBy(line, k)
  PROVE  AtHand(line, k) = {}
PROOF
  <1> SUFFICES ASSUME NEW r \in AtHand(line, k) PROVE FALSE
    OBVIOUS
  <1>1. r[k] \in DOMAIN Inters /\ r[k] \notin UsedBy(line, k) /\ r[k] + Len(Anchors) = line[k].next
    BY GoesOn DEF AtHand
  <1> QED
    BY <1>1, FrameNumbers

LEMMA RefusedAtHand ==
  ASSUME CallType, NEW line, IsLine(line), NEW k \in DOMAIN line,
         FrameAnswer(line[k], Inters[line[k].next - Len(Anchors)]) # "ok"
  PROVE  /\ AtHand(line, k) \subseteq DeadRoutes
         /\ AtHand(line, k) \subseteq QuietRoutes
         /\ AtHand(line, k) \intersect CutRoutes = {}
PROOF
  <1>1. ASSUME NEW r \in AtHand(line, k) PROVE ~IsLinked(r) /\ r \in Routes
    <2>1. r \in Under(line, k) /\ Len(r) >= k /\ r[k] \in DOMAIN Inters
          /\ r[k] + Len(Anchors) = line[k].next
      BY GoesOn DEF AtHand
    <2>2. r[k] = line[k].next - Len(Anchors)
      BY <2>1, FrameNumbers
    <2> QED
      BY <2>1, <2>2, GoesOn DEF Under
  <1> QED
    BY <1>1 DEF DeadRoutes, QuietRoutes, CutRoutes, LinkedRoutes

\* What the frame below has at hand is what the frame above is about.
LEMMA UnderIsAtHand ==
  ASSUME CallType, NEW line, IsLine(line), NEW k \in DOMAIN line, k > 1,
         line[k - 1].next = Len(Anchors) + line[k].at
  PROVE  AtHand(line, k - 1) = Under(line, k)
PROOF
  <1>1. /\ k \in Nat \ {0} /\ k - 1 \in DOMAIN line /\ k - 1 \in Nat \ {0}
        /\ Len(Anchors) \in Nat /\ (k - 1) + 1 = k
    BY FrameNumbers DEF IsLine
  <1>2. line[k].at \in Nat
    BY FrameNumbers DEF Frames
  <1>3. ASSUME NEW r \in AtHand(line, k - 1) PROVE r \in Under(line, k)
    <2>1. /\ r \in Routes /\ Len(r) >= k - 1
          /\ \A j \in 1..(k - 1 - 1) : r[j] = line[j + 1].at
      BY DEF AtHand, Under, Follows
    <2>2. r[k - 1] \in DOMAIN Inters /\ r[k - 1] + Len(Anchors) = line[k - 1].next
      BY <1>1, GoesOn DEF AtHand
    <2>3. r[k - 1] = line[(k - 1) + 1].at
      BY <1>1, <1>2, <2>2, FrameNumbers
    <2>4. \A j \in 1..(k - 1) : j = k - 1 \/ j \in 1..(k - 1 - 1)
      BY <1>1
    <2>5. \A j \in 1..(k - 1) : r[j] = line[j + 1].at
      BY <2>1, <2>3, <2>4
    <2> QED
      BY <2>1, <2>5 DEF Under, Follows
  <1>4. ASSUME NEW r \in Under(line, k) PROVE r \in AtHand(line, k - 1)
    <2>1. r \in Routes /\ Len(r) >= k - 1 /\ \A j \in 1..(k - 1) : r[j] = line[j + 1].at
      BY DEF Under, Follows
    <2>2. r \in Seq(DOMAIN Inters) /\ Len(r) \in Nat
      BY FollowsLine DEF Under
    <2>3. r \in Under(line, k - 1)
      BY <1>1, <2>1, <2>2 DEF Under, Follows
    <2>4. r[k - 1] = line[k].at
      BY <1>1, <2>1
    <2> QED
      BY <1>1, <1>2, <2>1, <2>3, <2>4 DEF AtHand
  <1> QED
    BY <1>3, <1>4

-----------------------------------------------------------------------------
(* What a step leaves as it was, and what an answer has to account for. *)

LEMMA SameCall ==
  ASSUME call' = call
  PROVE  /\ Anchors' = Anchors /\ Inters' = Inters /\ Routes' = Routes /\ AnchorCerts' = AnchorCerts
         /\ \A cert : IsPinned(cert)' <=> IsPinned(cert)
         /\ \A at : CertAt(at)' = CertAt(at)
         /\ \A r : /\ LastOf(r)' = LastOf(r) /\ (IsLinked(r)' <=> IsLinked(r))
                   /\ (EndsAtAnchor(r)' <=> EndsAtAnchor(r))
                   /\ \A issuer : AnswerTo(r, issuer)' = AnswerTo(r, issuer)
         /\ LinkedRoutes' = LinkedRoutes /\ DeadRoutes' = DeadRoutes
         /\ CutRoutes' = CutRoutes /\ QuietRoutes' = QuietRoutes
         /\ RejectionsMet' = RejectionsMet /\ Heard' = Heard
PROOF
  <1>1. Anchors' = Anchors /\ Inters' = Inters /\ Leaf' = Leaf
    BY DEF Anchors, Inters, Leaf
  <1>2. Routes' = Routes /\ AnchorCerts' = AnchorCerts
    BY <1>1 DEF Routes, AnchorCerts
  <1>3. \A cert : IsPinned(cert)' <=> IsPinned(cert)
    BY <1>1 DEF IsPinned
  <1>4. \A at : CertAt(at)' = CertAt(at)
    BY <1>1 DEF CertAt
  <1>5. \A r, k : RouteCert(r, k)' = RouteCert(r, k) /\ FollowingOn(r, k)' = FollowingOn(r, k)
    BY <1>1 DEF RouteCert, FollowingOn
  <1>6. \A r : LastOf(r)' = LastOf(r)
    BY <1>5 DEF LastOf
  <1>7. \A r : IsLinked(r)' <=> IsLinked(r)
    BY <1>5 DEF IsLinked
  <1>8. \A r : EndsAtAnchor(r)' <=> EndsAtAnchor(r)
    BY <1>2, <1>3, <1>5, <1>6 DEF EndsAtAnchor
  <1>9. \A r, issuer : AnswerTo(r, issuer)' = AnswerTo(r, issuer)
    BY <1>5, <1>6 DEF AnswerTo
  <1>10. LinkedRoutes' = LinkedRoutes /\ DeadRoutes' = DeadRoutes
    BY <1>2, <1>7, <1>8 DEF LinkedRoutes, DeadRoutes
  <1>11. CutRoutes' = CutRoutes
    BY <1>1, <1>6, <1>10 DEF CutRoutes
  <1>12. \A r : Candidates(r)' = Candidates(r)
    BY <1>1, <1>2 DEF Candidates
  <1>13. \A r : Rejections(r)' = Rejections(r)
    BY <1>5, <1>6, <1>12 DEF Rejections
  <1>14. QuietRoutes' = QuietRoutes
    BY <1>2, <1>7, <1>13 DEF QuietRoutes
  <1>15. RejectionsMet' = RejectionsMet
    BY <1>2, <1>7, <1>13 DEF RejectionsMet
  <1> QED
    BY <1>1, <1>2, <1>3, <1>4, <1>6, <1>7, <1>8, <1>9, <1>10, <1>11, <1>14, <1>15 DEF Heard

LEMMA SameFrameCall ==
  ASSUME call' = call, NEW k
  PROVE  /\ FrameEntered(stack', k) => FrameEntered(stack, k)'
         /\ FrameMisses(stack', k) => FrameMisses(stack, k)'
         /\ FrameIsQuiet(stack', k) => FrameIsQuiet(stack, k)'
PROOF
  <1>1. RouteTo(stack', k) = RouteTo(stack, k)' /\ UsedBy(stack', k) = UsedBy(stack, k)'
    BY DEF RouteTo, UsedBy
  <1>2. Under(stack', k) = Under(stack, k)'
    BY SameCall DEF Under, Follows
  <1>3. Tried(stack', k) = Tried(stack, k)'
    BY <1>2, SameCall DEF Tried
  <1>4. \A issuer : FrameAnswer(stack'[k], issuer) = FrameAnswer(stack[k], issuer)'
    BY SameCall DEF FrameAnswer
  <1>5. FrameEntered(stack', k) => FrameEntered(stack, k)'
    BY <1>1, SameCall DEF FrameEntered, IsEntered
  <1>6. FrameMisses(stack', k) => FrameMisses(stack, k)'
    BY <1>3, <1>4, SameCall DEF FrameMisses
  <1>7. FrameIsQuiet(stack', k) => FrameIsQuiet(stack, k)'
    BY <1>1, <1>3, <1>4, SameCall DEF FrameIsQuiet
  <1> QED
    BY <1>5, <1>6, <1>7

\* A search that goes on has not answered.
LEMMA SearchGoesOn ==
  ASSUME call' = call, lastErr' \in Reasons, lastErr' \in Heard, stack' # <<>>,
         \A k \in DOMAIN stack' : /\ FrameEntered(stack', k)
                                  /\ budget' > 0 => FrameMisses(stack', k)
                                  /\ lastErr' = "IssuerMismatch" => FrameIsQuiet(stack', k)
  PROVE  SearchInv'
PROOF
  <1>1. SearchIsExhaustive' /\ ReasonIsKept'
    BY DEF SearchIsExhaustive, ReasonIsKept, Answered
  <1> QED
    BY <1>1, SameCall, SameFrameCall DEF SearchInv

\* The properties, by the kinds of routes.
LEMMA RoutesDecide ==
  /\ HasRoute <=> ~(Routes \subseteq DeadRoutes)
  /\ IsCutShort <=> CutRoutes # {}
  /\ RejectionsMet = {} <=> Routes \subseteq QuietRoutes
PROOF
  <1>1. HasRoute <=> ~(Routes \subseteq DeadRoutes)
    BY DEF HasRoute, DeadRoutes
  <1>2. IsCutShort <=> CutRoutes # {}
    BY DEF IsCutShort, CutRoutes, LinkedRoutes
  <1>3. RejectionsMet = {} <=> Routes \subseteq QuietRoutes
    BY DEF RejectionsMet, QuietRoutes
  <1> QED
    BY <1>1, <1>2, <1>3

LEMMA AnswersNone ==
  ASSUME call' = call, budget' = budget, NEW err \in Reasons, err \in Heard, NEW res,
         result' = Failure(IF res = "TooLong" THEN "PathTooLong" ELSE err),
         budget > 0 => Routes \subseteq DeadRoutes /\ (res = "TooLong" <=> CutRoutes # {}),
         err = "IssuerMismatch" /\ res # "TooLong" => Routes \subseteq QuietRoutes
  PROVE  SearchIsExhaustive' /\ ReasonIsKept'
PROOF
  <1>1. /\ HasRoute' <=> ~(Routes \subseteq DeadRoutes)
        /\ IsCutShort' <=> CutRoutes # {}
    <2>1. (/\ HasRoute <=> ~(Routes \subseteq DeadRoutes)
           /\ IsCutShort <=> CutRoutes # {})'
      BY RoutesDecide, PTL
    <2> QED
      BY <2>1, SameCall
  <1>2. result'.verdict = IF res = "TooLong" THEN "PathTooLong" ELSE err
    BY DEF Failure
  <1>3. SearchIsExhaustive'
    BY <1>1, <1>2 DEF SearchIsExhaustive, Reasons, RouteTaken
  <1>4. ReasonIsKept'
    <2>1. CASE err = "IssuerMismatch"
      <3>1. res # "TooLong" => RejectionsMet' = {}
        BY <2>1, RoutesDecide, SameCall
      <3> QED
        BY <1>2, <2>1, <3>1 DEF ReasonIsKept
    <2>2. CASE err \in RejectionsMet
      <3>1. err \in RejectionsMet'
        BY <2>2, SameCall
      <3> QED
        BY <1>2, <3>1 DEF ReasonIsKept
    <2> QED
      BY <2>1, <2>2 DEF Heard
  <1> QED
    BY <1>3, <1>4

LEMMA AnswersRoute ==
  ASSUME call' = call, NEW r \in LinkedRoutes, EndsAtAnchor(r), result'.verdict \in RouteTaken
  PROVE  SearchIsExhaustive' /\ ReasonIsKept'
PROOF
  <1>1. HasRoute'
    BY SameCall DEF HasRoute, LinkedRoutes
  <1> QED
    BY <1>1 DEF SearchIsExhaustive, ReasonIsKept, RouteTaken

\* The constraints have three verdicts.
LEMMA VerdictOfPath ==
  ASSUME NEW path, Len(path) \in Nat
  PROVE  EnforcePathConstraints(path) \in RouteTaken
PROOF
  <1> DEFINE n == Len(path)
  <1>1. PICK f : IsRun(path, f, n) /\ EnforcePathConstraints(path) = f[n].verdict
    BY EnforceRuns
  <1> DEFINE S == {i \in 0..n : f[i].verdict \in RouteTaken}
  <1>2. \A i \in 0..n : f[i] = IF i = 0 THEN Start ELSE Enforce(path, i, f[i - 1])
    BY <1>1 DEF IsRun
  <1>3. 0 \in S
    BY <1>2 DEF Start, RouteTaken
  <1>4. ASSUME NEW i \in 1..n, i - 1 \in S PROVE i \in S
    <2>1. f[i] = Enforce(path, i, f[i - 1]) /\ i \in 0..n
      BY <1>2
    <2> QED
      BY <1>4, <2>1 DEF Enforce, Rejected, RouteTaken
  <1> HIDE DEF S
  <1>5. n \in Nat /\ \A i \in 0..n : i \in S
    BY <1>3, <1>4, CountingUp
  <1>6. n \in S
    BY <1>5
  <1> QED
    BY <1>1, <1>6 DEF S

-----------------------------------------------------------------------------
(* The steps of the search keep its invariant. *)

\* What is known at the top of the stack.
LEMMA AtTheTop ==
  ASSUME ChainInv, SearchInv, stack # <<>>
  PROVE  LET n == Len(stack) IN
         /\ CallType /\ IsLine(stack) /\ call.chain # <<>>
         /\ n \in DOMAIN stack /\ n \in Nat \ {0} /\ DOMAIN stack = 1..n
         /\ MaxPathLen \in Nat /\ n - 1 <= MaxPathLen
         /\ Top = stack[n] /\ Current = CertAt(stack[n].at) /\ Used = UsedBy(stack, n)
         /\ Top.next \in Nat /\ Len(Anchors) \in Nat /\ DOMAIN Anchors = 1..Len(Anchors)
         /\ Len(Inters) \in Nat /\ DOMAIN Inters = 1..Len(Inters)
         /\ \A issuer : IssuedBy(Current, issuer, call.now, Top.depth) = FrameAnswer(stack[n], issuer)
         /\ lastErr \in Reasons /\ lastErr \in Heard
         /\ FrameEntered(stack, n)
         /\ budget > 0 => FrameMisses(stack, n)
         /\ lastErr = "IssuerMismatch" => FrameIsQuiet(stack, n)
PROOF
  <1> DEFINE n == Len(stack)
  <1>1. CallType /\ IsLine(stack)
    BY DEF ChainInv
  <1>2. /\ n \in DOMAIN stack /\ n \in Nat \ {0} /\ DOMAIN stack = 1..n /\ call.chain # <<>>
        /\ MaxPathLen \in Nat /\ n <= MaxPathLen + 1
    BY <1>1, BoundsAssumption DEF IsLine
  <1>3. /\ Top = stack[n] /\ Current = CertAt(stack[n].at)
    BY DEF Top, Current
  <1>4. Used = UsedBy(stack, n)
    BY <1>2 DEF Used, UsedBy
  <1>5. /\ Top.next \in Nat /\ Len(Anchors) \in Nat /\ DOMAIN Anchors = 1..Len(Anchors)
        /\ Len(Inters) \in Nat /\ DOMAIN Inters = 1..Len(Inters)
    BY <1>1, <1>2, <1>3, FrameNumbers
  <1>6. \A issuer : IssuedBy(Current, issuer, call.now, Top.depth) = FrameAnswer(stack[n], issuer)
    BY <1>3 DEF FrameAnswer
  <1>7. /\ lastErr \in Reasons /\ lastErr \in Heard
        /\ FrameEntered(stack, n)
        /\ budget > 0 => FrameMisses(stack, n)
        /\ lastErr = "IssuerMismatch" => FrameIsQuiet(stack, n)
    BY <1>2 DEF SearchInv
  <1>8. n - 1 <= MaxPathLen
    BY <1>2
  <1> QED
    BY <1>1, <1>2, <1>3, <1>4, <1>5, <1>6, <1>7, <1>8

\* On to the next candidate, when the one at hand leads nowhere.
LEMMA AdvanceSearch ==
  ASSUME ChainInv, SearchInv, stack # <<>>, Advance, call' = call,
         lastErr' \in Reasons, lastErr' \in Heard,
         lastErr' = "IssuerMismatch" => lastErr = "IssuerMismatch",
         budget' > 0 => budget > 0,
         NEW n, n = Len(stack), IsEntered(stack[n]),
         budget' > 0 =>
           /\ AtHand(stack, n) \subseteq DeadRoutes /\ AtHand(stack, n) \intersect CutRoutes = {}
           /\ \A a \in DOMAIN Anchors : a = stack[n].next =>
                Anchors[a] = Garbage \/ FrameAnswer(stack[n], Anchors[a]) # "ok",
         lastErr' = "IssuerMismatch" =>
           /\ AtHand(stack, n) \subseteq QuietRoutes
           /\ \A a \in DOMAIN Anchors : a = stack[n].next =>
                Anchors[a] = Garbage \/ IsQuiet(FrameAnswer(stack[n], Anchors[a]))
           /\ \A i \in DOMAIN Inters : i + Len(Anchors) = stack[n].next =>
                i \in UsedBy(stack, n) \/ IsQuiet(FrameAnswer(stack[n], Inters[i]))
  PROVE  SearchInv'
PROOF
  <1>1. /\ CallType /\ IsLine(stack) /\ n \in DOMAIN stack /\ n \in Nat \ {0} /\ DOMAIN stack = 1..n
        /\ FrameEntered(stack, n)
        /\ budget > 0 => FrameMisses(stack, n)
        /\ lastErr = "IssuerMismatch" => FrameIsQuiet(stack, n)
    BY AtTheTop
  <1>2. stack \in Seq(Frames) /\ stack[n] \in Frames
    BY <1>1 DEF IsLine
  <1> DEFINE f == [stack[n] EXCEPT !.next = @ + 1]
  <1>3. f.at = stack[n].at /\ f.depth = stack[n].depth /\ f.next = stack[n].next + 1
        /\ f.tooLong = stack[n].tooLong
    BY <1>2 DEF Frames
  <1>4. stack' = [stack EXCEPT ![n] = f]
    BY DEF Advance
  <1> HIDE DEF f
  <1>5. /\ stack' # <<>> /\ DOMAIN stack' = 1..n /\ stack'[n] = f
        /\ \A k \in 1..(n - 1) : stack'[k] = stack[k]
    BY <1>1, <1>2, <1>4
  <1>6. \A k \in 1..n : SameAts(stack, stack', k)
    BY <1>1, <1>3, <1>5 DEF SameAts
  <1>7. ASSUME NEW k \in 1..(n - 1)
        PROVE  /\ FrameEntered(stack', k)
               /\ budget' > 0 => FrameMisses(stack', k)
               /\ lastErr' = "IssuerMismatch" => FrameIsQuiet(stack', k)
    <2>1. k \in Nat \ {0} /\ k \in 1..n /\ k \in DOMAIN stack /\ stack'[k] = stack[k]
      BY <1>1, <1>5
    <2>2. SameAts(stack, stack', k)
      BY <1>6, <2>1
    <2> QED
      BY <2>1, <2>2, SameFrame DEF SearchInv
  <1>8. MovesOn(stack, stack', n)
    BY <1>1, <1>3, <1>5, <1>6 DEF MovesOn
  <1>9. FrameEntered(stack', n)
    BY <1>1, <1>8, EnteredMovesOn
  <1>10. budget' > 0 => FrameMisses(stack', n)
    <2> SUFFICES ASSUME budget' > 0 PROVE FrameMisses(stack', n)
      OBVIOUS
    <2>1. stack'[n].tooLong <=> stack[n].tooLong \/ AtHand(stack, n) \intersect CutRoutes # {}
      BY <1>3, <1>5
    <2> QED
      BY <1>1, <1>8, <2>1, MissesMovesOn
  <1>11. lastErr' = "IssuerMismatch" => FrameIsQuiet(stack', n)
    <2> SUFFICES ASSUME lastErr' = "IssuerMismatch" PROVE FrameIsQuiet(stack', n)
      OBVIOUS
    <2>1. ~stack'[n].tooLong => ~stack[n].tooLong
      BY <1>3, <1>5
    <2> QED
      BY <1>1, <1>8, <2>1, QuietMovesOn
  <1>12. \A k \in DOMAIN stack' : k \in 1..(n - 1) \/ k = n
    BY <1>1, <1>5
  <1> QED
    BY <1>5, <1>7, <1>9, <1>10, <1>11, <1>12, SearchGoesOn

\* Back to the frame below, or to the caller, from a frame nothing is left under.
LEMMA ReturnSearch ==
  ASSUME ChainInv, SearchInv, stack # <<>>,
         NEW res, NEW err \in Reasons, err \in Heard, Return(res, err), UNCHANGED <<call, budget>>,
         lastErr' = err, err = "IssuerMismatch" => lastErr = "IssuerMismatch",
         NEW n, n = Len(stack),
         budget > 0 => /\ Under(stack, n) \subseteq DeadRoutes
                       /\ res = "TooLong" <=> Under(stack, n) \intersect CutRoutes # {},
         err = "IssuerMismatch" /\ res # "TooLong" => Under(stack, n) \subseteq QuietRoutes
  PROVE  SearchInv'
PROOF
  <1>1. /\ CallType /\ IsLine(stack) /\ n \in DOMAIN stack /\ n \in Nat \ {0} /\ DOMAIN stack = 1..n
        /\ FrameEntered(stack, n)
    BY AtTheTop
  <1>2. CASE n = 1
    <2>1. stack' = <<>> /\ result' = Failure(IF res = "TooLong" THEN "PathTooLong" ELSE err)
      BY <1>2 DEF Return
    <2>2. Under(stack, n) = Routes
      <3>1. \A r \in Routes : Len(r) >= n - 1
        BY <1>1, <1>2, RoutesAre DEF IsLine
      <3> QED
        BY <1>2, <3>1 DEF Under, Follows
    <2>3. CutRoutes \subseteq Routes
      BY DEF CutRoutes, LinkedRoutes
    <2>4. SearchIsExhaustive' /\ ReasonIsKept'
      BY <2>1, <2>2, <2>3, AnswersNone
    <2>5. DOMAIN stack' = {}
      BY <2>1
    <2> QED
      BY <2>4, <2>5 DEF SearchInv
  <1>3. CASE n # 1
    <2> DEFINE m == n - 1
               b == res = "TooLong"
               g == [stack[m] EXCEPT !.next = @ + 1, !.tooLong = @ \/ b]
    <2>1. /\ m \in DOMAIN stack /\ m \in Nat \ {0} /\ DOMAIN stack = 1..n
          /\ n > 1 /\ m + 1 = n /\ 1..m = 1..(n - 1)
          /\ stack \in Seq(Frames) /\ stack[m] \in Frames
      <3>1. m \in 1..n /\ n > 1 /\ m + 1 = n
        BY <1>1, <1>3
      <3>2. stack \in Seq(Frames)
        BY <1>1 DEF IsLine
      <3>3. stack[m] \in Frames
        BY <1>1, <3>1, <3>2
      <3> QED
        BY <1>1, <3>1, <3>2, <3>3
    <2>2. stack' = [k \in 1..m |-> IF k < m THEN stack[k] ELSE [stack[k] EXCEPT !.next = @ + 1, !.tooLong = @ \/ res = "TooLong"]]
      BY <1>3 DEF Return
    <2>3. stack' # <<>> /\ DOMAIN stack' = 1..m /\ stack'[m] = g /\ \A k \in 1..(m - 1) : stack'[k] = stack[k]
      <3>1. m \in 1..m /\ ~(m < m) /\ \A k \in 1..(m - 1) : k \in 1..m /\ k < m
        BY <2>1
      <3>2. DOMAIN stack' = 1..m
        BY <2>2
      <3>3. stack'[m] = g
        BY <2>2, <3>1
      <3>4. \A k \in 1..(m - 1) : stack'[k] = stack[k]
        BY <2>2, <3>1
      <3>5. stack' # <<>>
        <4> HIDE DEF m
        <4> QED
          BY <3>1, <3>2
      <3> QED
        BY <3>2, <3>3, <3>4, <3>5
    <2>4. g.at = stack[m].at /\ g.depth = stack[m].depth /\ g.next = stack[m].next + 1
          /\ (g.tooLong <=> stack[m].tooLong \/ b)
      <3>1. b \in BOOLEAN
        OBVIOUS
      <3> HIDE DEF b
      <3> QED
        BY <2>1, <3>1 DEF Frames
    <2> HIDE DEF g
    <2>5. \A k \in 1..m : SameAts(stack, stack', k)
      BY <2>1, <2>3, <2>4 DEF SameAts
    <2>6. MovesOn(stack, stack', m)
      BY <2>1, <2>3, <2>4, <2>5 DEF MovesOn
    <2>7. stack[n].at \in DOMAIN Inters /\ stack[m].next = Len(Anchors) + stack[n].at
      BY <1>1, <2>1 DEF ChainInv, PositionsInv, IsLine
    <2>8. AtHand(stack, m) = Under(stack, n)
      BY <1>1, <2>1, <2>7, UnderIsAtHand
    <2>9. /\ Len(Anchors) \in Nat /\ DOMAIN Anchors = 1..Len(Anchors) /\ stack[n].at \in Nat \ {0}
      BY <1>1, <2>7, FrameNumbers
    <2>10. \A a \in DOMAIN Anchors : a # stack[m].next
      BY <2>7, <2>9
    <2>11. IsEntered(stack[m]) /\ FrameEntered(stack, m)
      <3>1. FrameEntered(stack, m) /\ stack[m].next > 0
        BY <2>1, <2>7, <2>9 DEF SearchInv
      <3> QED
        BY <3>1 DEF FrameEntered
    <2>12. FrameEntered(stack', m)
      BY <1>1, <2>1, <2>6, <2>11, EnteredMovesOn
    <2>13. budget' > 0 => FrameMisses(stack', m)
      <3> SUFFICES ASSUME budget > 0 PROVE FrameMisses(stack', m)
        OBVIOUS
      <3>1. FrameMisses(stack, m)
        BY <2>1 DEF SearchInv
      <3>2. stack'[m].tooLong <=> stack[m].tooLong \/ AtHand(stack, m) \intersect CutRoutes # {}
        BY <2>3, <2>4, <2>8
      <3>3. AtHand(stack, m) \subseteq DeadRoutes
        BY <2>8
      <3> HIDE DEF m
      <3> QED
        BY <1>1, <2>1, <2>6, <2>10, <3>1, <3>2, <3>3, MissesMovesOn
    <2>14. lastErr' = "IssuerMismatch" => FrameIsQuiet(stack', m)
      <3> SUFFICES ASSUME err = "IssuerMismatch" PROVE FrameIsQuiet(stack', m)
        OBVIOUS
      <3>1. FrameIsQuiet(stack, m)
        BY <2>1 DEF SearchInv
      <3>2. ~stack'[m].tooLong => ~stack[m].tooLong /\ AtHand(stack, m) \subseteq QuietRoutes
        BY <2>3, <2>4, <2>8
      <3>3. FrameAnswer(stack[m], Inters[stack[n].at]) = "ok"
        <4> DEFINE own == RouteTo(stack, n)
        <4>1. own \in LinkedRoutes /\ own \in Routes /\ IsLinked(own)
          BY <1>1 DEF FrameEntered, LinkedRoutes
        <4>2. /\ \A j \in 1..(n - 1) : own[j] = stack[j + 1].at
              /\ DOMAIN own = 1..(n - 1) /\ n - 1 \in Nat
          BY <1>1 DEF RouteTo
        <4>3. own \in Seq(DOMAIN Inters)
          BY <1>1, <4>1, RoutesAre DEF IsLine
        <4> HIDE DEF own
        <4>4. Len(own) = m
          BY <4>2, <4>3
        <4>5. own \in Under(stack, m)
          BY <2>1, <4>1, <4>2, <4>4 DEF Under, Follows
        <4>6. own[m] = stack[n].at /\ Len(own) >= m
          BY <2>1, <4>2, <4>4
        <4> QED
          BY <1>1, <2>1, <4>1, <4>5, <4>6, GoesOn
      <3>4. \A i \in DOMAIN Inters : i + Len(Anchors) = stack[m].next =>
              i \in UsedBy(stack, m) \/ IsQuiet(FrameAnswer(stack[m], Inters[i]))
        <4> SUFFICES ASSUME NEW i \in DOMAIN Inters, i + Len(Anchors) = stack[m].next
                     PROVE  IsQuiet(FrameAnswer(stack[m], Inters[i]))
          OBVIOUS
        <4>1. i = stack[n].at
          BY <1>1, <2>7, <2>9, FrameNumbers
        <4> QED
          BY <3>3, <4>1 DEF IsQuiet
      <3> HIDE DEF m
      <3> QED
        BY <1>1, <2>1, <2>6, <2>10, <3>1, <3>2, <3>4, QuietMovesOn
    <2>15. ASSUME NEW k \in 1..(m - 1)
           PROVE  /\ FrameEntered(stack', k)
                  /\ budget' > 0 => FrameMisses(stack', k)
                  /\ lastErr' = "IssuerMismatch" => FrameIsQuiet(stack', k)
      <3>1. k \in Nat \ {0} /\ k \in 1..m /\ k \in DOMAIN stack /\ stack'[k] = stack[k]
        BY <2>1, <2>3
      <3>2. SameAts(stack, stack', k)
        BY <2>5, <3>1
      <3> QED
        BY <3>1, <3>2, SameFrame DEF SearchInv
    <2>16. \A k \in DOMAIN stack' : k \in 1..(m - 1) \/ k = m
      BY <2>1, <2>3
    <2> QED
      BY <2>3, <2>12, <2>13, <2>14, <2>15, <2>16, SearchGoesOn
  <1> QED
    BY <1>2, <1>3

\* The end of a search at an anchor: the frames are a route to it.
LEMMA ReachedSearch ==
  ASSUME ChainInv, SearchInv, stack # <<>>, NEW anchor, Reached(anchor), UNCHANGED <<call, lastErr>>,
         EndsAtAnchor(RouteTo(stack, Len(stack)))
  PROVE  SearchInv'
PROOF
  <1>1. RouteTo(stack, Len(stack)) \in LinkedRoutes /\ lastErr \in Reasons
    BY AtTheTop DEF FrameEntered
  <1>2. result'.verdict \in RouteTaken /\ stack' = <<>>
    <2>1. Len(PathTo(anchor)) \in Nat
      BY PathCerts DEF ChainInv
    <2>2. EnforcePathConstraints(PathTo(anchor)) \in RouteTaken
      BY <2>1, VerdictOfPath
    <2> QED
      BY <2>2 DEF Reached, Failure, RouteTaken
  <1>3. SearchIsExhaustive' /\ ReasonIsKept'
    BY <1>1, <1>2, AnswersRoute
  <1>4. DOMAIN stack' = {}
    BY <1>2
  <1> QED
    BY <1>1, <1>3, <1>4 DEF SearchInv

\* The route to the top frame.
LEMMA TopRoute ==
  ASSUME ChainInv, SearchInv, stack # <<>>
  PROVE  LET n == Len(stack)
             own == RouteTo(stack, n)
         IN  /\ own \in Under(stack, n) /\ Len(own) = n - 1 /\ LastOf(own) = Current
             /\ FollowingOn(own, n) = Top.depth
             /\ \A j \in 1..(n - 1) : own[j] = stack[j + 1].at
             /\ own \in LinkedRoutes
PROOF
  <1> DEFINE n == Len(stack)
             own == RouteTo(stack, n)
  <1>1. /\ CallType /\ IsLine(stack) /\ call.chain # <<>>
        /\ n \in DOMAIN stack /\ n \in Nat \ {0} /\ n - 1 \in Nat
        /\ Top = stack[n] /\ Current = CertAt(stack[n].at) /\ FrameEntered(stack, n)
    BY AtTheTop
  <1>2. own \in LinkedRoutes /\ own \in Routes
    BY <1>1 DEF FrameEntered, LinkedRoutes
  <1>3. DOMAIN own = 1..(n - 1) /\ \A j \in 1..(n - 1) : own[j] = stack[j + 1].at
    BY DEF RouteTo
  <1>4. own \in Seq(DOMAIN Inters)
    BY <1>1, <1>2, RoutesAre
  <1> HIDE DEF own
  <1>5. Len(own) = n - 1
    BY <1>1, <1>3, <1>4
  <1>6. own \in Under(stack, n) /\ Follows(own, stack, n)
    BY <1>1, <1>2, <1>3, <1>5 DEF Under, Follows
  <1>7. FollowingOn(own, n) = Top.depth
    BY <1>1, <1>2, <1>6, FollowsLine
  <1>8. LastOf(own) = Current
    BY <1>1, <1>5, <1>6, OwnRoute
  <1> QED
    BY <1>2, <1>3, <1>5, <1>6, <1>7, <1>8 DEF own

\* What the top frame is told is a reason met.
LEMMA TopRejections ==
  ASSUME ChainInv, SearchInv, stack # <<>>
  PROVE  LET own == RouteTo(stack, Len(stack)) IN
         /\ Rejections(own) \subseteq Heard
         /\ \A issuer \in Candidates(own) :
              LET answer == IssuedBy(Current, issuer, call.now, Top.depth)
              IN  Current.inner = Current.alg /\ answer # "ok" => answer \in Heard
         /\ AnchorCerts \subseteq Candidates(own)
         /\ Hops < MaxPathLen => \A i \in DOMAIN Inters : i \notin Used => Inters[i] \in Candidates(own)
PROOF
  <1> DEFINE n == Len(stack)
             own == RouteTo(stack, n)
  <1>1. /\ own \in LinkedRoutes /\ LastOf(own) = Current /\ FollowingOn(own, n) = Top.depth
        /\ Len(own) = n - 1 /\ own \in Under(stack, n)
    BY TopRoute
  <1>2. n \in DOMAIN stack /\ n \in Nat \ {0} /\ CallType /\ IsLine(stack) /\ Used = UsedBy(stack, n)
    BY AtTheTop
  <1>3. DOMAIN Inters \ {own[k] : k \in DOMAIN own} = DOMAIN Inters \ Used
    BY <1>1, <1>2, OwnRoute
  <1>4. Len(own) + 1 = n /\ Len(own) = Hops
    BY <1>1, <1>2 DEF Hops
  <1>5. Rejections(own) \subseteq Heard
    BY <1>1 DEF Heard, RejectionsMet, LinkedRoutes
  <1> HIDE DEF own, n
  <1>6. ASSUME NEW issuer \in Candidates(own), Current.inner = Current.alg,
               IssuedBy(Current, issuer, call.now, Top.depth) # "ok"
        PROVE  IssuedBy(Current, issuer, call.now, Top.depth) \in Heard
    <2>1. IssuedBy(LastOf(own), issuer, call.now, FollowingOn(own, Len(own) + 1))
            = IssuedBy(Current, issuer, call.now, Top.depth)
      BY <1>1, <1>4
    <2>2. IssuedBy(Current, issuer, call.now, Top.depth) = "IssuerMismatch"
            \/ IssuedBy(Current, issuer, call.now, Top.depth) \in Rejections(own)
      BY <1>1, <1>6, <2>1 DEF Rejections
    <2> QED
      BY <1>5, <2>2 DEF Heard
  <1>7. AnchorCerts \subseteq Candidates(own)
    BY DEF Candidates
  <1>8. Hops < MaxPathLen => \A i \in DOMAIN Inters : i \notin Used => Inters[i] \in Candidates(own)
    BY <1>3, <1>4 DEF Candidates
  <1> QED
    BY <1>5, <1>6, <1>7, <1>8 DEF own, n

LEMMA EnterSearch == ASSUME ChainInv, SearchInv, Enter PROVE SearchInv'
PROOF
  <1> DEFINE n == Len(stack)
  <1>1. stack # <<>> /\ Top.next = 0 /\ UNCHANGED <<call, budget>>
    BY DEF Enter
  <1>2. /\ CallType /\ IsLine(stack) /\ n \in DOMAIN stack /\ Top = stack[n] /\ Current = CertAt(stack[n].at)
        /\ lastErr \in Reasons /\ lastErr \in Heard /\ Len(Anchors) \in Nat /\ DOMAIN Anchors = 1..Len(Anchors)
        /\ DOMAIN Inters = 1..Len(Inters)
    BY <1>1, AtTheTop
  <1>3. CASE IsPinned(Current) /\ Reached(Current) /\ UNCHANGED lastErr
    <2>1. EndsAtAnchor(RouteTo(stack, n))
      BY <1>1, <1>3, TopRoute DEF EndsAtAnchor
    <2> QED
      BY <1>1, <1>3, <2>1, ReachedSearch
  <1>4. CASE /\ ~IsPinned(Current) /\ Current.inner # Current.alg
             /\ lastErr' = MoreSpecific(lastErr, "SignatureAlgorithmMismatch")
             /\ Return("DeadEnd", lastErr')
    <2> DEFINE err == MoreSpecific(lastErr, "SignatureAlgorithmMismatch")
    <2>1. err \in Reasons /\ err # "IssuerMismatch"
      BY <1>2 DEF MoreSpecific, GenericReasons, Reasons
    <2>4. err \in Heard
      <3>1. Rejections(RouteTo(stack, n)) = {"SignatureAlgorithmMismatch"}
        BY <1>1, <1>4, TopRoute DEF Rejections
      <3>2. "SignatureAlgorithmMismatch" \in Heard
        BY <1>1, <3>1, TopRejections
      <3> QED
        BY <1>2, <3>2 DEF MoreSpecific
    <2>2. Under(stack, n) \subseteq DeadRoutes /\ Under(stack, n) \intersect CutRoutes = {}
      BY <1>2, <1>4, NothingUnder
    <2>3. Return("DeadEnd", err) /\ lastErr' = err /\ "DeadEnd" # "TooLong"
      BY <1>4
    <2> HIDE DEF err
    <2> QED
      BY <1>1, <2>1, <2>2, <2>3, <2>4, ReturnSearch
  <1>5. CASE ~IsPinned(Current) /\ Current.inner = Current.alg /\ Advance /\ UNCHANGED <<lastErr, result>>
    <2>1. IsEntered(stack[n])
      BY <1>2, <1>5 DEF IsEntered
    <2>2. stack[n].next = 0
      BY <1>1, <1>2
    <2>3. AtHand(stack, n) = {}
      BY <1>2, <2>2, NoneAtHand
    <2>4. \A a \in DOMAIN Anchors : a # stack[n].next
      BY <1>2, <2>2
    <2>5. \A i \in DOMAIN Inters : i + Len(Anchors) # stack[n].next
      BY <1>2, <2>2
    <2> QED
      BY <1>1, <1>2, <1>5, <2>1, <2>3, <2>4, <2>5, AdvanceSearch
  <1> QED
    BY <1>3, <1>4, <1>5 DEF Enter

LEMMA ExhaustedSearch == ASSUME ChainInv, SearchInv, stack # <<>>, Exhausted PROVE SearchInv'
PROOF
  <1>1. lastErr \in Reasons /\ lastErr \in Heard
    BY AtTheTop
  <1>2. budget = 0 /\ Return("TooLong", lastErr) /\ UNCHANGED <<call, budget>> /\ lastErr' = lastErr
    BY DEF Exhausted
  <1>3. ~(budget > 0)
    BY <1>2
  <1> QED
    BY <1>1, <1>2, <1>3, ReturnSearch

\* What issued_by may answer.
LEMMA AnswerType ==
  ASSUME NEW child, NEW issuer, NEW now, NEW following
  PROVE  LET answer == IssuedBy(child, issuer, now, following)
         IN  /\ answer \in Reasons \union {"ok"}
             /\ \A last \in Reasons : answer # "ok" =>
                  /\ MoreSpecific(last, answer) \in Reasons
                  /\ MoreSpecific(last, answer) = "IssuerMismatch" => last = "IssuerMismatch" /\ IsQuiet(answer)
                  /\ MoreSpecific(last, answer) \in {last, answer}
  BY DEF IssuedBy, Reasons, MoreSpecific, GenericReasons, IsQuiet

LEMMA TryAnchorSearch == ASSUME ChainInv, SearchInv, TryAnchor PROVE SearchInv'
PROOF
  <1> DEFINE n == Len(stack)
             anchor == Anchors[NextAnchor]
             answer == IssuedBy(Current, anchor, call.now, Top.depth)
  <1>1. stack # <<>> /\ Top.next > 0 /\ NextAnchor <= Len(Anchors)
    BY DEF TryAnchor
  <1>2. /\ CallType /\ IsLine(stack) /\ n \in DOMAIN stack /\ Top = stack[n] /\ Current = CertAt(stack[n].at)
        /\ lastErr \in Reasons /\ lastErr \in Heard /\ Len(Anchors) \in Nat /\ DOMAIN Anchors = 1..Len(Anchors)
        /\ Top.next \in Nat /\ DOMAIN Inters = 1..Len(Inters)
        /\ answer = FrameAnswer(stack[n], anchor)
        /\ FrameEntered(stack, n)
    BY <1>1, AtTheTop
  <1>3. /\ NextAnchor = stack[n].next /\ NextAnchor \in DOMAIN Anchors
        /\ \A i \in DOMAIN Inters : i + Len(Anchors) # stack[n].next
        /\ stack[n].next <= Len(Anchors)
    BY <1>1, <1>2 DEF NextAnchor
  <1>4. IsEntered(stack[n])
    BY <1>1, <1>2 DEF FrameEntered
  <1>5. AtHand(stack, n) = {}
    BY <1>2, <1>3, NoneAtHand
  <1>6. \A a \in DOMAIN Anchors : a = stack[n].next => Anchors[a] = anchor
    BY <1>3
  <1>7. CASE ~IsCert(anchor) /\ Advance /\ UNCHANGED <<call, budget, lastErr, result>>
    <2>1. anchor = Garbage
      BY <1>7 DEF IsCert
    <2> HIDE DEF anchor
    <2> QED
      BY <1>1, <1>2, <1>3, <1>4, <1>5, <1>6, <1>7, <2>1, AdvanceSearch
  <1>8. CASE IsCert(anchor) /\ Exhausted
    BY <1>1, <1>8, ExhaustedSearch
  <1>9. CASE /\ IsCert(anchor) /\ budget > 0 /\ budget' = budget - 1 /\ UNCHANGED call
             /\ answer = "ok" /\ Reached(anchor) /\ UNCHANGED lastErr
    <2> DEFINE own == RouteTo(stack, n)
    <2>1. /\ Len(own) + 1 = n /\ LastOf(own) = Current /\ FollowingOn(own, n) = Top.depth
      BY <1>1, <1>2, TopRoute DEF IsLine
    <2>2. anchor \in AnchorCerts
      BY <1>3, <1>9 DEF AnchorCerts, IsCert
    <2>3. Current.inner = Current.alg
      BY <1>2, <1>4 DEF IsEntered
    <2>4. IssuedBy(LastOf(own), anchor, call.now, FollowingOn(own, Len(own) + 1)) = "ok"
      BY <1>9, <2>1
    <2> HIDE DEF own, anchor, answer
    <2>5. EndsAtAnchor(own)
      BY <2>1, <2>2, <2>3, <2>4 DEF EndsAtAnchor
    <2> QED
      BY <1>1, <1>9, <2>5, ReachedSearch DEF own
  <1>10. CASE /\ budget > 0 /\ budget' = budget - 1 /\ UNCHANGED call
              /\ answer # "ok" /\ lastErr' = MoreSpecific(lastErr, answer) /\ Advance /\ UNCHANGED result
              /\ IsCert(anchor)
    <2>1. /\ lastErr' \in Reasons
          /\ lastErr' = "IssuerMismatch" => lastErr = "IssuerMismatch" /\ IsQuiet(answer)
          /\ lastErr' \in {lastErr, answer}
      BY <1>2, <1>10, AnswerType
    <2>2. anchor \in Candidates(RouteTo(stack, n))
      <3>1. anchor \in AnchorCerts
        BY <1>3, <1>10 DEF AnchorCerts, IsCert
      <3> QED
        BY <1>1, <3>1, TopRejections
    <2>3. answer \in Heard
      BY <1>1, <1>2, <1>4, <1>10, <2>2, TopRejections DEF IsEntered
    <2>4. lastErr' \in Heard
      BY <1>2, <2>1, <2>3
    <2> HIDE DEF answer, anchor
    <2> QED
      BY <1>1, <1>2, <1>3, <1>4, <1>5, <1>6, <1>10, <2>1, <2>4, AdvanceSearch
  <1> QED
    BY <1>7, <1>8, <1>9, <1>10 DEF TryAnchor

\* A return from a frame that is done.
LEMMA DoneSearch ==
  ASSUME ChainInv, SearchInv, stack # <<>>, NEW n, n = Len(stack), IsDone(stack, n), NEW res,
         res = "TooLong" <=> Cut(stack, n), Return(res, lastErr), UNCHANGED <<call, budget, lastErr>>
  PROVE  SearchInv'
PROOF
  <1>1. /\ CallType /\ IsLine(stack) /\ n \in DOMAIN stack /\ FrameEntered(stack, n)
        /\ lastErr \in Reasons /\ lastErr \in Heard
        /\ budget > 0 => FrameMisses(stack, n)
        /\ lastErr = "IssuerMismatch" => FrameIsQuiet(stack, n)
    BY AtTheTop
  <1>2. budget > 0 => /\ Under(stack, n) \subseteq DeadRoutes
                      /\ res = "TooLong" <=> Under(stack, n) \intersect CutRoutes # {}
    BY <1>1, DoneMisses
  <1>3. lastErr = "IssuerMismatch" /\ res # "TooLong" => Under(stack, n) \subseteq QuietRoutes
    BY <1>1, DoneIsQuiet
  <1> QED
    BY <1>1, <1>2, <1>3, ReturnSearch

LEMMA AtCapSearch == ASSUME ChainInv, SearchInv, AtCap PROVE SearchInv'
PROOF
  <1> DEFINE n == Len(stack)
             further == \E i \in DOMAIN Inters : i \notin Used /\ Current.issuer = Inters[i].subject
             res == IF further THEN "TooLong" ELSE "DeadEnd"
  <1>1. /\ stack # <<>> /\ Top.next > Len(Anchors) /\ Hops >= MaxPathLen
        /\ Return(res, lastErr) /\ UNCHANGED <<call, budget, lastErr>>
    BY DEF AtCap
  <1>2. /\ n - 1 <= MaxPathLen /\ MaxPathLen \in Nat /\ n \in Nat \ {0}
        /\ Top = stack[n] /\ Current = CertAt(stack[n].at) /\ Used = UsedBy(stack, n)
    BY <1>1, AtTheTop
  <1>3. n - 1 = MaxPathLen
    BY <1>1, <1>2 DEF Hops
  <1>4. IsDone(stack, n)
    BY <1>1, <1>2, <1>3 DEF IsDone
  <1>5. res = "TooLong" <=> Cut(stack, n)
    BY <1>2, <1>3 DEF Cut
  <1> HIDE DEF res
  <1> QED
    BY <1>1, <1>4, <1>5, DoneSearch

LEMMA LeaveSearch == ASSUME ChainInv, SearchInv, Leave PROVE SearchInv'
PROOF
  <1> DEFINE n == Len(stack)
             res == IF Top.tooLong THEN "TooLong" ELSE "DeadEnd"
  <1>1. /\ stack # <<>> /\ Hops < MaxPathLen /\ NextInter > Len(Inters)
        /\ Return(res, lastErr) /\ UNCHANGED <<call, budget, lastErr>>
    BY DEF Leave
  <1>2. /\ MaxPathLen \in Nat /\ n \in Nat \ {0} /\ Top = stack[n]
        /\ Top.next \in Nat /\ Len(Anchors) \in Nat /\ Len(Inters) \in Nat
    BY <1>1, AtTheTop
  <1>3. n - 1 < MaxPathLen /\ n - 1 # MaxPathLen
    BY <1>1, <1>2 DEF Hops
  <1>4. IsDone(stack, n)
    BY <1>1, <1>2, <1>3 DEF IsDone, NextInter
  <1>5. res = "TooLong" <=> Cut(stack, n)
    BY <1>2, <1>3 DEF Cut
  <1> HIDE DEF res
  <1> QED
    BY <1>1, <1>4, <1>5, DoneSearch

\* An intermediate that answers well is the next on the route.
LEMMA RouteGrows ==
  ASSUME ChainInv, SearchInv, stack # <<>>, NEW n, n = Len(stack), n - 1 < MaxPathLen,
         NEW i \in DOMAIN Inters, i \notin Used, IsEntered(stack[n]),
         FrameAnswer(stack[n], Inters[i]) = "ok",
         NEW other, SameAts(stack, other, n), other[n + 1].at = i
  PROVE  RouteTo(other, n + 1) \in LinkedRoutes
PROOF
  <1> DEFINE own == RouteTo(stack, n)
             new == RouteTo(other, n + 1)
  <1>1. /\ CallType /\ IsLine(stack) /\ call.chain # <<>> /\ n \in DOMAIN stack /\ n \in Nat \ {0}
        /\ MaxPathLen \in Nat /\ Used = UsedBy(stack, n) /\ Current = CertAt(stack[n].at)
        /\ DOMAIN Inters = 1..Len(Inters) /\ Len(Inters) \in Nat
    BY AtTheTop
  <1>2. /\ own \in Under(stack, n) /\ own \in LinkedRoutes /\ Len(own) = n - 1
        /\ \A j \in 1..(n - 1) : own[j] = stack[j + 1].at
    BY TopRoute
  <1>3. own \in Routes /\ IsLinked(own)
    BY <1>2 DEF LinkedRoutes
  <1>4. /\ own \in Seq(DOMAIN Inters)
        /\ \A a, c \in 1..(n - 1) : own[a] = own[c] => a = c
    BY <1>1, <1>2, <1>3, RoutesAre
  <1>5. {own[j] : j \in 1..(n - 1)} \subseteq Used
    BY <1>1, <1>2, FollowsLine DEF Under
  <1>6. /\ DOMAIN new = 1..n /\ new[n] = i
        /\ \A j \in 1..(n - 1) : new[j] = own[j] /\ new[j] = stack[j + 1].at
    <2>1. n + 1 - 1 = n /\ \A j \in 1..(n - 1) : j \in 1..n /\ j + 1 \in 1..n
      BY <1>1
    <2>2. new = [j \in 1..n |-> other[j + 1].at]
      BY <2>1 DEF RouteTo
    <2>3. n \in 1..n
      BY <1>1
    <2>4. \A j \in 1..(n - 1) : other[j + 1].at = stack[j + 1].at
      BY <2>1 DEF SameAts
    <2> HIDE DEF own, new
    <2> QED
      BY <1>2, <2>1, <2>2, <2>3, <2>4
  <1> HIDE DEF own, new
  <1>7. \A j \in 1..n : j = n \/ j \in 1..(n - 1)
    BY <1>1
  <1>8. new \in Seq(DOMAIN Inters) /\ Len(new) = n
    <2>1. \A j \in 1..n : new[j] \in DOMAIN Inters
      <3>1. \A j \in 1..(n - 1) : own[j] \in DOMAIN Inters
        BY <1>2, <1>4, ElementOfSeq
      <3> QED
        BY <1>6, <1>7, <3>1
    <2>2. new = [j \in 1..n |-> new[j]]
      BY <1>6, <1>1, Zenon DEF new, RouteTo
    <2>3. new \in [1..n -> DOMAIN Inters]
      BY <2>1, <2>2
    <2>4. n \in Nat
      BY <1>1
    <2> QED
      BY <2>3, <2>4
  <1>9. new \in Routes
    <2>1. \A j \in 1..(n - 1) : new[j] # i
      BY <1>5, <1>6
    <2>2. \A a, c \in 1..n : new[a] = new[c] => a = c
      <3> SUFFICES ASSUME NEW a \in 1..n, NEW c \in 1..n, new[a] = new[c] PROVE a = c
        OBVIOUS
      <3>1. CASE a \in 1..(n - 1) /\ c \in 1..(n - 1)
        BY <1>4, <1>6, <3>1
      <3>2. CASE a = n \/ c = n
        BY <1>6, <1>7, <2>1, <3>2
      <3> QED
        BY <1>7, <3>1, <3>2
    <2>3. n <= MaxPathLen
      BY <1>1
    <2> QED
      BY <1>1, <1>8, <2>2, <2>3, RoutesAre
  <1>10. Follows(new, stack, n)
    BY <1>1, <1>6, <1>8 DEF Follows
  <1>11. /\ RouteCert(new, n - 1) = CertAt(stack[n].at)
         /\ FollowingOn(new, n) = stack[n].depth
    BY <1>1, <1>9, <1>10, FollowsLine
  <1>12. RouteCert(new, n) = Inters[i]
    BY <1>1, <1>6 DEF RouteCert
  <1>13. /\ RouteCert(new, n - 1).inner = RouteCert(new, n - 1).alg
         /\ IssuedBy(RouteCert(new, n - 1), RouteCert(new, n), call.now, FollowingOn(new, n)) = "ok"
    BY <1>11, <1>12 DEF IsEntered, FrameAnswer
  <1>14. ASSUME NEW k \in 1..(n - 1)
         PROVE  /\ RouteCert(new, k - 1).inner = RouteCert(new, k - 1).alg
                /\ IssuedBy(RouteCert(new, k - 1), RouteCert(new, k), call.now, FollowingOn(new, k)) = "ok"
    <2>1. RouteCert(new, k) = RouteCert(own, k)
      BY <1>6 DEF RouteCert
    <2>2. RouteCert(new, k - 1) = RouteCert(own, k - 1)
      <3>1. k - 1 = 0 \/ k - 1 \in 1..(n - 1)
        BY <1>1
      <3> QED
        BY <1>6, <3>1 DEF RouteCert
    <2>3. FollowingOn(new, k) = FollowingOn(own, k)
      <3>1. \A j \in 1..(k - 1) : j \in 1..(n - 1)
        BY <1>1
      <3>2. {j \in 1..(k - 1) : ~IsSelfIssued(Inters[new[j]])} = {j \in 1..(k - 1) : ~IsSelfIssued(Inters[own[j]])}
        BY <1>6, <3>1
      <3> QED
        BY <3>2 DEF FollowingOn
    <2>4. k \in 1..Len(own)
      BY <1>2
    <2> QED
      BY <1>3, <2>1, <2>2, <2>3, <2>4 DEF IsLinked
  <1>15. IsLinked(new)
    BY <1>7, <1>8, <1>13, <1>14 DEF IsLinked
  <1> QED
    BY <1>9, <1>15 DEF LinkedRoutes, new

\* A frame that has tried nothing misses nothing.
LEMMA FreshFrame ==
  ASSUME CallType, call.chain # <<>>, NEW line, NEW k \in Nat \ {0},
         RouteTo(line, k) \in LinkedRoutes, line[k].next = 0, ~line[k].tooLong
  PROVE  FrameEntered(line, k) /\ FrameMisses(line, k) /\ FrameIsQuiet(line, k)
PROOF
  <1>1. /\ Len(Anchors) \in Nat /\ DOMAIN Anchors = 1..Len(Anchors)
        /\ Len(Inters) \in Nat /\ DOMAIN Inters = 1..Len(Inters)
    BY TailType DEF CallType, Anchors
  <1>2. Tried(line, k) = {}
    <2> SUFFICES ASSUME NEW r \in Tried(line, k) PROVE FALSE
      OBVIOUS
    <2>1. r \in Routes /\ Len(r) >= k /\ r[k] + Len(Anchors) < 0
      BY DEF Tried, Under
    <2>2. r \in Seq(DOMAIN Inters) /\ Len(r) \in Nat
      BY <2>1, RoutesAre
    <2>3. r[k] \in 1..Len(Inters)
      BY <1>1, <2>1, <2>2
    <2> QED
      BY <1>1, <2>1, <2>3
  <1>3. /\ \A a \in DOMAIN Anchors : ~(a < line[k].next)
        /\ \A i \in DOMAIN Inters : ~(i + Len(Anchors) < line[k].next)
    BY <1>1
  <1> QED
    BY <1>2, <1>3 DEF FrameEntered, FrameMisses, FrameIsQuiet

LEMMA DescendSearch ==
  ASSUME ChainInv, SearchInv, stack # <<>>, Hops < MaxPathLen, NEW i \in DOMAIN Inters, i \notin Used,
         IsEntered(stack[Len(stack)]),
         FrameAnswer(stack[Len(stack)], Inters[i]) = "ok",
         NEW depth, stack' = Append(stack, Frame(i, depth)),
         budget > 0, UNCHANGED <<call, lastErr>>
  PROVE  SearchInv'
PROOF
  <1> DEFINE n == Len(stack)
             f == Frame(i, depth)
  <1>1. /\ CallType /\ IsLine(stack) /\ call.chain # <<>> /\ n \in Nat \ {0} /\ DOMAIN stack = 1..n
        /\ MaxPathLen \in Nat /\ lastErr \in Reasons /\ lastErr \in Heard
    BY AtTheTop
  <1>2. f.at = i /\ f.next = 0 /\ ~f.tooLong
    BY DEF Frame
  <1> HIDE DEF f
  <1>3. /\ stack' # <<>> /\ DOMAIN stack' = 1..(n + 1) /\ stack'[n + 1] = f
        /\ \A k \in 1..n : stack'[k] = stack[k]
    <2>1. stack \in Seq(Frames) /\ stack' = Append(stack, f)
      BY <1>1 DEF IsLine, f
    <2>2. stack \in Seq(Frames \union {f}) /\ f \in Frames \union {f}
      BY <2>1
    <2> QED
      BY <1>1, <2>1, <2>2
  <1>4. \A k \in 1..n : SameAts(stack, stack', k)
    BY <1>1, <1>3 DEF SameAts
  <1>5. ASSUME NEW k \in 1..n
        PROVE  /\ FrameEntered(stack', k)
               /\ budget' > 0 => FrameMisses(stack', k)
               /\ lastErr' = "IssuerMismatch" => FrameIsQuiet(stack', k)
    <2>1. k \in Nat \ {0} /\ k \in DOMAIN stack /\ stack'[k] = stack[k] /\ SameAts(stack, stack', k)
      BY <1>1, <1>3, <1>4
    <2> QED
      BY <2>1, SameFrame DEF SearchInv
  <1>6. RouteTo(stack', n + 1) \in LinkedRoutes
    <2>1. n - 1 < MaxPathLen /\ SameAts(stack, stack', n) /\ stack'[n + 1].at = i
      BY <1>1, <1>2, <1>3, <1>4 DEF Hops
    <2> QED
      BY <2>1, RouteGrows
  <1>7. FrameEntered(stack', n + 1) /\ FrameMisses(stack', n + 1) /\ FrameIsQuiet(stack', n + 1)
    <2> DEFINE top == n + 1
    <2>1. top \in Nat \ {0} /\ stack'[top].next = 0 /\ ~stack'[top].tooLong
      BY <1>1, <1>2, <1>3
    <2>2. RouteTo(stack', top) \in LinkedRoutes
      BY <1>6
    <2> HIDE DEF top
    <2>3. FrameEntered(stack', top) /\ FrameMisses(stack', top) /\ FrameIsQuiet(stack', top)
      BY <1>1, <2>1, <2>2, FreshFrame
    <2> QED
      BY <2>3 DEF top
  <1>8. \A k \in DOMAIN stack' : k \in 1..n \/ k = n + 1
    BY <1>1, <1>3
  <1> QED
    BY <1>1, <1>3, <1>5, <1>7, <1>8, SearchGoesOn

LEMMA TryIntermediateSearch == ASSUME ChainInv, SearchInv, TryIntermediate PROVE SearchInv'
PROOF
  <1> DEFINE n == Len(stack)
             i == NextInter
             candidate == Inters[NextInter]
             answer == IssuedBy(Current, candidate, call.now, Top.depth)
  <1>1. /\ stack # <<>> /\ Hops < MaxPathLen /\ NextInter > 0 /\ NextInter <= Len(Inters)
    BY DEF TryIntermediate
  <1>2. /\ CallType /\ IsLine(stack) /\ n \in DOMAIN stack /\ Top = stack[n] /\ Used = UsedBy(stack, n)
        /\ Current = CertAt(stack[n].at)
        /\ lastErr \in Reasons /\ lastErr \in Heard /\ Len(Anchors) \in Nat /\ DOMAIN Anchors = 1..Len(Anchors)
        /\ Top.next \in Nat /\ Len(Inters) \in Nat /\ DOMAIN Inters = 1..Len(Inters)
        /\ answer = FrameAnswer(stack[n], candidate)
        /\ FrameEntered(stack, n)
    BY <1>1, AtTheTop
  <1>3. /\ i = stack[n].next - Len(Anchors) /\ i \in DOMAIN Inters /\ stack[n].next > 0
        /\ \A a \in DOMAIN Anchors : a # stack[n].next
        /\ \A j \in DOMAIN Inters : j + Len(Anchors) = stack[n].next => j = i
    BY <1>1, <1>2 DEF NextInter
  <1>4. IsEntered(stack[n])
    BY <1>2, <1>3 DEF FrameEntered
  <1>5. CASE NextInter \in Used /\ Advance /\ UNCHANGED <<call, budget, lastErr, result>>
    <2>1. AtHand(stack, n) = {}
      BY <1>2, <1>3, <1>5, NoneAtHand
    <2>2. \A j \in DOMAIN Inters : j + Len(Anchors) = stack[n].next => j \in UsedBy(stack, n)
      BY <1>2, <1>3, <1>5
    <2> QED
      BY <1>1, <1>2, <1>3, <1>4, <1>5, <2>1, <2>2, AdvanceSearch
  <1>6. CASE NextInter \notin Used /\ Exhausted
    BY <1>1, <1>6, ExhaustedSearch
  <1>7. CASE /\ NextInter \notin Used /\ budget > 0 /\ budget' = budget - 1 /\ UNCHANGED <<call, result>>
             /\ answer = "ok"
             /\ stack' = Append(stack, Frame(NextInter,
                           IF IsSelfIssued(candidate) THEN Top.depth ELSE Top.depth + 1))
             /\ UNCHANGED lastErr
    BY <1>1, <1>2, <1>3, <1>4, <1>7, DescendSearch
  <1>8. CASE /\ budget > 0 /\ budget' = budget - 1 /\ UNCHANGED <<call, result>>
             /\ answer # "ok" /\ lastErr' = MoreSpecific(lastErr, answer) /\ Advance
             /\ NextInter \notin Used
    <2>1. /\ lastErr' \in Reasons
          /\ lastErr' = "IssuerMismatch" => lastErr = "IssuerMismatch" /\ IsQuiet(answer)
          /\ lastErr' \in {lastErr, answer}
      BY <1>2, <1>8, AnswerType
    <2>4. candidate \in Candidates(RouteTo(stack, n))
      BY <1>1, <1>3, <1>8, TopRejections
    <2>5. answer \in Heard
      <3>1. Current.inner = Current.alg
        BY <1>2, <1>4 DEF IsEntered
      <3>2. Current.inner = Current.alg /\ IssuedBy(Current, candidate, call.now, Top.depth) # "ok"
              => IssuedBy(Current, candidate, call.now, Top.depth) \in Heard
        <4> HIDE DEF candidate
        <4> QED
          BY <1>1, <2>4, TopRejections
      <3> QED
        BY <1>8, <3>1, <3>2
    <2>6. lastErr' \in Heard
      BY <1>2, <2>1, <2>5
    <2>2. /\ AtHand(stack, n) \subseteq DeadRoutes /\ AtHand(stack, n) \subseteq QuietRoutes
          /\ AtHand(stack, n) \intersect CutRoutes = {}
      BY <1>2, <1>3, <1>8, RefusedAtHand
    <2>3. \A j \in DOMAIN Inters : j + Len(Anchors) = stack[n].next =>
            FrameAnswer(stack[n], Inters[j]) = answer
      BY <1>2, <1>3
    <2> HIDE DEF answer
    <2> QED
      BY <1>1, <1>2, <1>3, <1>4, <1>8, <2>1, <2>2, <2>3, <2>6, AdvanceSearch
  <1> QED
    BY <1>5, <1>6, <1>7, <1>8 DEF TryIntermediate

\* A call starts a search at its leaf, or answers at once.
LEMMA FirstFrame ==
  CallType /\ call.chain # <<>> /\ stack[1].next = 0 /\ ~stack[1].tooLong
    => FrameEntered(stack, 1) /\ FrameMisses(stack, 1) /\ FrameIsQuiet(stack, 1)
PROOF
  <1> SUFFICES ASSUME CallType, call.chain # <<>>, stack[1].next = 0, ~stack[1].tooLong
               PROVE  FrameEntered(stack, 1) /\ FrameMisses(stack, 1) /\ FrameIsQuiet(stack, 1)
    OBVIOUS
  <1> DEFINE own == RouteTo(stack, 1)
  <1>1. own = <<>>
    BY DEF RouteTo
  <1>2. <<>> \in Routes
    <2>1. <<>> \in Seq(DOMAIN Inters) /\ Len(<<>>) = 0 /\ 0 <= MaxPathLen /\ 1..0 = {}
      BY BoundsAssumption
    <2>2. \A i, j \in 1..Len(<<>>) : <<>>[i] = <<>>[j] => i = j
      BY <2>1
    <2> QED
      BY <2>1, <2>2, RoutesAre
  <1>3. IsLinked(<<>>)
    BY DEF IsLinked
  <1>4. own \in LinkedRoutes
    BY <1>1, <1>2, <1>3 DEF LinkedRoutes
  <1> QED
    BY <1>4, FreshFrame

LEMMA VerifyChainSearch ==
  ASSUME ChainInv, SearchInv, NEW c, IsCall(c), VerifyChain(c)
  PROVE  SearchInv'
PROOF
  <1>1. lastErr' \in Reasons /\ lastErr' \in Heard'
    BY DEF VerifyChain, FirstReason, MoreSpecific, GenericReasons, Reasons, Heard
  <1>2. CASE BeforeWalk(c) # "ok"
    <2>1. stack' = <<>> /\ call' = c /\ DOMAIN stack' = {}
      BY <1>2 DEF VerifyChain
    <2>2. BeforeWalk(call') # "ok"
      BY <1>2, <2>1
    <2>3. SearchIsExhaustive' /\ ReasonIsKept'
      BY <2>2 DEF SearchIsExhaustive, ReasonIsKept
    <2> QED
      BY <1>1, <2>1, <2>3 DEF SearchInv
  <1>3. CASE BeforeWalk(c) = "ok"
    <2>1. stack' = <<Frame(0, 0)>> /\ call' = c
      BY <1>3 DEF VerifyChain
    <2>2. stack' # <<>> /\ DOMAIN stack' = {1} /\ stack'[1].next = 0 /\ ~stack'[1].tooLong
      BY <2>1 DEF Frame
    <2>3. CallType' /\ call'.chain # <<>>
      BY <1>3, <2>1 DEF IsCall, CallType, BeforeWalk
    <2>4. (CallType /\ call.chain # <<>> /\ stack[1].next = 0 /\ ~stack[1].tooLong
             => FrameEntered(stack, 1) /\ FrameMisses(stack, 1) /\ FrameIsQuiet(stack, 1))'
      BY FirstFrame, PTL
    <2>5. FrameEntered(stack, 1)' /\ FrameMisses(stack, 1)' /\ FrameIsQuiet(stack, 1)'
      BY <2>2, <2>3, <2>4
    <2>6. SearchIsExhaustive' /\ ReasonIsKept'
      BY <2>2 DEF SearchIsExhaustive, ReasonIsKept, Answered
    <2> QED
      BY <1>1, <2>2, <2>5, <2>6 DEF SearchInv
  <1> QED
    BY <1>2, <1>3

LEMMA InitSearch == ChainInit => SearchInv
  BY DEF ChainInit, SearchInv, SearchIsExhaustive, ReasonIsKept, Answered, Reasons

LEMMA StutterSearch == ASSUME SearchInv, UNCHANGED chainVars PROVE SearchInv'
PROOF
  <1>1. /\ call' = call /\ stack' = stack /\ budget' = budget
        /\ lastErr' = lastErr /\ result' = result
    BY DEF chainVars
  <1>2. \A k \in DOMAIN stack' : /\ FrameEntered(stack, k)'
                                 /\ budget' > 0 => FrameMisses(stack, k)'
                                 /\ lastErr' = "IssuerMismatch" => FrameIsQuiet(stack, k)'
    BY <1>1, SameFrameCall DEF SearchInv
  <1>3. HasRoute' <=> HasRoute
    BY <1>1, SameCall DEF HasRoute
  <1>4. IsCutShort' <=> IsCutShort
    <2>1. (IsCutShort <=> CutRoutes # {})'
      BY RoutesDecide, PTL
    <2> QED
      BY <1>1, <2>1, RoutesDecide, SameCall
  <1>5. SearchIsExhaustive'
    BY <1>1, <1>3, <1>4 DEF SearchInv, SearchIsExhaustive, Answered
  <1>6. ReasonIsKept'
    BY <1>1, SameCall DEF SearchInv, ReasonIsKept, Answered
  <1>7. stack' # <<>> => lastErr' \in Heard'
    BY <1>1, SameCall DEF SearchInv
  <1> QED
    BY <1>1, <1>2, <1>5, <1>6, <1>7 DEF SearchInv

LEMMA SearchKept == ChainInv /\ SearchInv /\ ChainStep => SearchInv'
PROOF
  <1> SUFFICES ASSUME ChainInv, SearchInv, ChainStep PROVE SearchInv'
    OBVIOUS
  <1>1. CASE \E c : IsCall(c) /\ VerifyChain(c)
    BY <1>1, VerifyChainSearch
  <1>2. CASE Walk
    BY <1>2, EnterSearch, TryAnchorSearch, AtCapSearch, TryIntermediateSearch, LeaveSearch DEF Walk
  <1>3. CASE UNCHANGED chainVars
    BY <1>3, StutterSearch
  <1> QED
    BY <1>1, <1>2, <1>3 DEF ChainStep

LEMMA SearchInvHolds == ChainSpec => []SearchInv
  BY InitSearch, SearchKept, NextIsStep, ChainInvHolds, PTL DEF ChainSpec

(* For any certificates, anchors, cap and budget: a search that was not out of budget ends at an anchor
   exactly if a route of certified steps leads to one, however many wrong turns, loops and
   cross-signed certificates there are; and it calls a chain too long exactly if the cap cut a
   route that could have gone on (walk). *)
THEOREM SearchMissesNoRoute == ChainSpec => []SearchIsExhaustive
PROOF
  <1>1. SearchInv => SearchIsExhaustive
    BY DEF SearchInv
  <1> QED
    BY <1>1, SearchInvHolds, PTL

(* For any certificates and anchors, whatever the search backed out of and whether or not every anchor
   parses: the reason it answers is one a certificate within its reach was turned down for, and "no
   issuer found" is answered only where there was none such (record_more_specific). *)
THEOREM SpecificReasonIsKept == ChainSpec => []ReasonIsKept
PROOF
  <1>1. SearchInv => ReasonIsKept
    BY DEF SearchInv
  <1> QED
    BY <1>1, SearchInvHolds, PTL

=============================================================================
