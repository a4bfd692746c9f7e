--------------------------- MODULE LwipLink_proofs ---------------------------
(***************************************************************************)
(* Theorems about the network link, its ring first, for every size of the  *)
(* ring, every width of the indices and every number of characters and     *)
(* connections.                                                            *)
(*   TypeCorrect   the types of the ring.                                  *)
(*   NoInvention   NothingInvented: until Size characters are printed the  *)
(*                 ring is filled from its start and the sender stays      *)
(*                 behind the last one; from then on no slot is empty.     *)
(*   OrderKept     SentInOrder: as long as the ring has not overrun, the   *)
(*                 slots between the two indices hold the characters not   *)
(*                 sent yet, in their order.                               *)
(*   SenderOver    SenderIsOver of the two threads: a sender that has no   *)
(*                 ring yet exists only while connect_status is            *)
(*                 LINK_WAITING, which is what the other thread waits for  *)
(*                 before it looks at txbuf.                               *)
(*   LinkImplementsRing   and the link drives the ring as TxRing says, so  *)
(*                 that the ring's theorems hold of it.                    *)
(***************************************************************************)
EXTENDS LwipLink, TLAPS

-----------------------------------------------------------------------------
(* The ring. *)

LEMMA ModBounds ==
  ASSUME NEW m \in Nat \ {0}, NEW x \in Int
  PROVE  x % m \in 0 .. m - 1
OBVIOUS

LEMMA ModSmall ==
  ASSUME NEW m \in Nat \ {0}, NEW x \in 0 .. m - 1
  PROVE  x % m = x
OBVIOUS

LEMMA Constants ==
  /\ Size \in Nat \ {0} /\ IndexMod \in Nat \ {0} /\ Size < IndexMod
  /\ MaxPrinted \in Nat
BY SizeAssumption, IndexAssumption, BoundAssumption

LEMMA Zero ==
  0 \in Chars /\ 0 \in Indices /\ 0 \in 0 .. Size /\ <<>> \in Seq(Chars)
BY Constants DEF Chars, Indices

LEMMA IndexTypes ==
  ASSUME NEW i \in Int, NEW j \in Int
  PROVE  Plus(i, j) \in Indices /\ Minus(i, j) \in Indices /\ i % Size \in Slots
<1>1. i + j \in Int /\ i - j \in Int
  OBVIOUS
<1> QED
  BY <1>1, ModBounds, Constants DEF Plus, Minus, Indices, Slots

\* The length of a round is at most Size - 1, and each of its characters has a
\* slot.
LEMMA LengthType ==
  ASSUME TypeOK
  PROVE  Length \in Slots
<1>1. wt \in Int /\ rd \in Int
  BY Constants DEF TypeOK, Indices
<1>2. Minus(wt, rd) \in Int
  BY <1>1, IndexTypes, Constants DEF Indices
<1> QED
  BY <1>2, IndexTypes DEF Length

LEMMA SlotType ==
  ASSUME TypeOK, NEW i \in 0 .. Size - 1
  PROVE  Slot(i) \in Slots
<1>1. rd % Size \in 0 .. Size - 1
  BY ModBounds, Constants DEF TypeOK, Indices
<1> QED
  BY <1>1, Constants DEF Slot, Slots

LEMMA TypeStep == TypeOK /\ [Next]_vars => TypeOK'
<1> SUFFICES ASSUME TypeOK, [Next]_vars PROVE TypeOK'
  OBVIOUS
<1> USE Constants
<1>1. CASE Fputc
  <2>1. printed' \in Chars /\ pWrite % Size \in Slots /\ pWrite' \in Indices
    BY <1>1, IndexTypes DEF Fputc, TypeOK, Chars, Indices
  <2>2. overrun' \in BOOLEAN
    BY <1>1 DEF Fputc
  <2> QED
    BY <1>1, <2>1, <2>2 DEF Fputc, TypeOK
<1>2. CASE Connected
  BY <1>2 DEF Connected, TypeOK
<1>3. CASE See
  BY <1>3 DEF See, TypeOK
<1>4. CASE Snapshot
  BY <1>4 DEF Snapshot, TypeOK
<1>5. CASE Copy
  <2>1. pos \in 0 .. Size - 1 /\ pos' \in 0 .. Size
    BY <1>5, LengthType DEF Copy, TypeOK, Slots
  <2>2. ring[Slot(pos)] \in Chars
    BY <2>1, SlotType DEF TypeOK
  <2> QED
    BY <1>5, <2>1, <2>2 DEF Copy, TypeOK
<1>6. CASE Copied
  BY <1>6 DEF Copied, TypeOK
<1>7. CASE Update
  <2>1. pRead' \in Indices
    <3>1. wt \in Int /\ rd \in Int /\ pRead \in Int
      BY DEF TypeOK, Indices
    <3>2. Minus(wt, rd) \in Int
      BY <3>1, IndexTypes DEF Indices
    <3> QED
      BY <1>7, <3>1, <3>2, IndexTypes DEF Update
  <2> QED
    BY <1>7, <2>1 DEF Update, TypeOK
<1>8. CASE Free
  BY <1>8 DEF Free, TypeOK
<1>9. CASE Restart
  BY <1>9, Zero DEF Restart, TypeOK
<1>10. CASE UNCHANGED vars
  BY <1>10 DEF vars, TypeOK
<1> QED
  <2>1. Next \/ UNCHANGED vars
    OBVIOUS
  <2> QED
    BY <2>1, <1>1, <1>2, <1>3, <1>4, <1>5, <1>6, <1>7, <1>8, <1>9, <1>10
    DEF Next, Sender

\* Indices, slots and the sender's copies always hold values of their types:
\* an index never leaves its 16 bits, and a slot never the buffer.
THEOREM TypeCorrect == Spec => []TypeOK
<1>1. Init => TypeOK
  <2> SUFFICES ASSUME Init PROVE TypeOK
    OBVIOUS
  <2> QED
    BY Zero DEF Init, TypeOK
<1> QED
  BY <1>1, TypeStep, PTL DEF Spec

-----------------------------------------------------------------------------
\* The ring has not been full yet.
Filling ==
  /\ pWrite = printed
  /\ \A s \in Slots : s < printed => ring[s] # 0
  /\ pRead <= printed
  /\ pc = "snap" => pRead <= wt /\ wt <= printed
  /\ pc \in {"copy", "update"} => rd = pRead /\ rd <= wt /\ wt <= printed

Filled ==
  /\ printed < Size => Filling
  /\ printed >= Size => \A s \in Slots : ring[s] # 0

\* The characters of a round have been printed.
LEMMA CopiedIsPrinted ==
  ASSUME TypeOK, Filled, Copy
  PROVE  ring[Slot(pos)] # 0
<1> USE Constants
<1>1. pos \in 0 .. Size - 1
  BY LengthType DEF Copy, TypeOK, Slots
<1>2. CASE printed >= Size
  BY <1>1, <1>2, SlotType DEF Filled
<1>3. CASE printed < Size
  <2>1. rd \in 0 .. Size - 1 /\ wt \in 0 .. Size - 1 /\ rd <= wt /\ wt <= printed
    BY <1>3 DEF Filled, Filling, Copy, TypeOK, Indices, Chars
  <2>2. wt - rd \in 0 .. Size - 1 /\ wt - rd \in 0 .. IndexMod - 1
    BY <2>1
  <2>3. Length = wt - rd
    BY <2>2, ModSmall DEF Length, Minus
  <2>4. rd % Size = rd
    BY <2>1, ModSmall
  <2>5. pos < wt - rd
    BY <2>3 DEF Copy
  <2>6. Slot(pos) = rd + pos
    BY <1>1, <2>1, <2>4, <2>5, <1>3 DEF Slot, TypeOK, Chars
  <2>7. rd + pos \in Slots /\ rd + pos < printed
    BY <1>1, <2>1, <2>5, <1>3 DEF Slots, TypeOK, Chars
  <2> QED
    BY <1>3, <2>6, <2>7 DEF Filled, Filling
<1> QED
  BY <1>2, <1>3 DEF TypeOK, Chars

LEMMA FilledByPrinting ==
  ASSUME TypeOK, Filled, Fputc
  PROVE  Filled'
<1> USE Constants
<1>1. printed' = printed + 1 /\ printed \in Nat /\ printed' # 0
  BY DEF Fputc, TypeOK, Chars
<1>2. CASE printed >= Size
  BY <1>1, <1>2, IndexTypes DEF Filled, Fputc, TypeOK, Indices
<1>3. CASE printed < Size
  <2>1. pWrite = printed /\ pWrite % Size = printed
    BY <1>1, <1>3, ModSmall DEF Filled, Filling
  <2>2. pWrite' = printed'
    <3>1. pWrite + 1 \in 0 .. IndexMod - 1
      BY <1>1, <1>3, <2>1
    <3> QED
      BY <3>1, <1>1, <2>1, ModSmall DEF Fputc, Plus
  <2>3. \A s \in Slots : s < printed' => ring'[s] # 0
    BY <1>1, <1>3, <2>1 DEF Fputc, Filled, Filling, TypeOK, Slots
  <2>4. pRead <= printed' /\ UNCHANGED <<pRead, rd, wt, pc>>
    BY <1>1, <1>3 DEF Fputc, Filled, Filling, TypeOK, Indices
  <2>5. /\ pc = "snap" => pRead <= wt /\ wt <= printed'
        /\ pc \in {"copy", "update"} => rd = pRead /\ rd <= wt /\ wt <= printed'
    BY <1>1, <1>3 DEF Filled, Filling, TypeOK, Indices
  <2>6. Filling'
    BY <2>2, <2>3, <2>4, <2>5 DEF Filling
  <2>7. printed' >= Size => \A s \in Slots : ring'[s] # 0
    BY <1>1, <1>3, <2>3 DEF Slots
  <2> QED
    BY <2>6, <2>7 DEF Filled
<1> QED
  BY <1>1, <1>2, <1>3

LEMMA FilledByUpdate ==
  ASSUME TypeOK, Filled, Update
  PROVE  Filled'
<1> USE Constants
<1>1. UNCHANGED <<ring, pWrite, printed, rd, wt>> /\ pc' = "loop"
  BY DEF Update
<1>2. CASE printed >= Size
  BY <1>1, <1>2 DEF Filled, TypeOK, Chars
<1>3. CASE printed < Size
  <2>1. rd = pRead /\ rd <= wt /\ wt <= printed /\ rd \in Nat /\ wt \in Nat
    BY <1>3 DEF Filled, Filling, Update, TypeOK, Indices
  <2>2. wt - rd \in 0 .. IndexMod - 1 /\ wt \in 0 .. IndexMod - 1
    BY <1>3, <2>1 DEF TypeOK, Chars
  <2>3. Minus(wt, rd) = wt - rd
    BY <2>2, ModSmall DEF Minus
  <2>4. pRead + (wt - rd) = wt
    BY <2>1
  <2>5. pRead' = wt
    BY <2>2, <2>3, <2>4, ModSmall DEF Update, Plus
  <2> QED
    BY <1>1, <1>3, <2>1, <2>5 DEF Filled, Filling, TypeOK, Chars
<1> QED
  BY <1>2, <1>3 DEF TypeOK, Chars

LEMMA FilledStep == TypeOK /\ Filled /\ [Next]_vars => Filled'
<1> SUFFICES ASSUME TypeOK, Filled, [Next]_vars PROVE Filled'
  OBVIOUS
<1> USE Constants DEF Filled, Filling
<1>1. CASE Connected
  BY <1>1 DEF Connected
<1>2. CASE See
  BY <1>2 DEF See, TypeOK, Chars, Indices
<1>3. CASE Snapshot
  BY <1>3 DEF Snapshot, TypeOK, Chars, Indices
<1>4. CASE Copy
  BY <1>4 DEF Copy
<1>5. CASE Copied
  BY <1>5 DEF Copied
<1>6. CASE Free
  BY <1>6 DEF Free
<1>7. CASE Restart
  BY <1>7 DEF Restart, Slots
<1>8. CASE UNCHANGED vars
  BY <1>8 DEF vars
<1> QED
  BY <1>1, <1>2, <1>3, <1>4, <1>5, <1>6, <1>7, <1>8, FilledByPrinting,
     FilledByUpdate DEF Next, Sender

\* Whatever is printed when, and however often the ring overruns, the sender
\* never sends a slot that no character was written to.
THEOREM NoInvention == Spec => []NothingInvented
<1>1. Init => Filled /\ NothingInvented
  BY Constants DEF Init, Filled, Filling, NothingInvented, Slots
<1>2. TypeOK /\ Filled /\ NothingInvented /\ [Next]_vars => NothingInvented'
  <2> SUFFICES ASSUME TypeOK, Filled, NothingInvented, [Next]_vars
               PROVE  NothingInvented'
    OBVIOUS
  <2>1. CASE Copy
    <3>1. sent' = Append(sent, ring[Slot(pos)]) /\ ring[Slot(pos)] # 0
      BY <2>1, CopiedIsPrinted DEF Copy
    <3> QED
      BY <3>1 DEF NothingInvented, TypeOK
  <2>2. CASE Restart
    BY <2>2 DEF Restart, NothingInvented
  <2>3. CASE UNCHANGED sent
    BY <2>3 DEF NothingInvented
  <2> QED
    BY <2>1, <2>2, <2>3
    DEF Next, Sender, Fputc, Connected, See, Snapshot, Copied, Update, Free, vars
<1>3. Spec => []TypeOK
  BY TypeCorrect
<1> QED
  BY <1>1, <1>2, <1>3, FilledStep, PTL DEF Spec

-----------------------------------------------------------------------------
(* Arithmetic modulo a width: an index is a count of characters, reduced.    *)

LEMMA ModSplit ==
  ASSUME NEW m \in Nat \ {0}, NEW x \in Int
  PROVE  \E k \in Int : x = m * k + (x % m)
<1>1. x \div m \in Int /\ x = m * (x \div m) + (x % m)
  OBVIOUS
<1> QED
  BY <1>1

LEMMA ModUnique ==
  ASSUME NEW m \in Nat \ {0}, NEW k \in Int, NEW r \in 0 .. m - 1
  PROVE  (m * k + r) % m = r
OBVIOUS

\* Values that differ by a multiple of m have one remainder.
LEMMA ModCongruent ==
  ASSUME NEW m \in Nat \ {0}, NEW x \in Int, NEW q \in Int
  PROVE  (x + m * q) % m = x % m
<1>1. PICK k \in Int : x = m * k + (x % m)
  BY ModSplit
<1>2. PICK r \in 0 .. m - 1 : r = x % m
  OBVIOUS
<1>3. x + m * q = m * (k + q) + r
  BY <1>1, <1>2
<1>4. k + q \in Int
  OBVIOUS
<1>5. (m * (k + q) + r) % m = r
  BY <1>4, ModUnique
<1> QED
  BY <1>2, <1>3, <1>5

\* The index of a sum or a difference is that of the reduced operands.
LEMMA ModSum ==
  ASSUME NEW m \in Nat \ {0}, NEW x \in Int, NEW y \in Int
  PROVE  ((x % m) + y) % m = (x + y) % m
<1>1. PICK k \in Int : x = m * k + (x % m)
  BY ModSplit
<1>2. PICK r \in Int : r = x % m
  OBVIOUS
<1>3. x + y = (r + y) + m * k /\ r + y \in Int
  BY <1>1, <1>2
<1>4. ((r + y) + m * k) % m = (r + y) % m
  BY <1>3, ModCongruent
<1> QED
  BY <1>2, <1>3, <1>4

LEMMA ModDifference ==
  ASSUME NEW m \in Nat \ {0}, NEW x \in Int, NEW y \in Int
  PROVE  ((x % m) - (y % m)) % m = (x - y) % m
<1>1. PICK k \in Int : x = m * k + (x % m)
  BY ModSplit
<1>2. PICK l \in Int : y = m * l + (y % m)
  BY ModSplit
<1>3. PICK r \in Int, s \in Int : r = x % m /\ s = y % m
  OBVIOUS
<1>4. x - y = (r - s) + m * (k - l) /\ r - s \in Int /\ k - l \in Int
  <2>1. m * k - m * l = m * (k - l) /\ m * k \in Int /\ m * l \in Int
    OBVIOUS
  <2>2. x = m * k + r /\ y = m * l + s
    BY <1>1, <1>2, <1>3
  <2> QED
    BY <2>1, <2>2
<1>5. ((r - s) + m * (k - l)) % m = (r - s) % m
  BY <1>4, ModCongruent
<1> QED
  BY <1>3, <1>4, <1>5

\* An index that wraps at a multiple of the ring's size keeps its slot.
LEMMA ModMod ==
  ASSUME NEW m \in Nat \ {0}, NEW s \in Nat \ {0}, m % s = 0, NEW x \in Int
  PROVE  (x % m) % s = x % s
<1>1. PICK k \in Int : x = m * k + (x % m)
  BY ModSplit
<1>2. PICK l \in Int : m = s * l
  <2>1. m \in Int
    OBVIOUS
  <2>2. PICK l \in Int : m = s * l + (m % s)
    BY <2>1, ModSplit
  <2> QED
    BY <2>2
<1>3. PICK r \in Int : r = x % m
  OBVIOUS
<1>4. m * k = s * (l * k) /\ l * k \in Int
  BY <1>2
<1>5. x = r + s * (l * k)
  BY <1>1, <1>3, <1>4
<1>6. (r + s * (l * k)) % s = r % s
  BY <1>4, ModCongruent
<1> QED
  BY <1>3, <1>5, <1>6

\* Two counts less than a width apart have different remainders.
LEMMA ModDistinct ==
  ASSUME NEW m \in Nat \ {0}, NEW x \in Int, NEW y \in Int,
         0 < x - y, x - y < m
  PROVE  x % m # y % m
<1>1. x - y \in 0 .. m - 1
  OBVIOUS
<1>2. (x - y) % m = x - y
  BY <1>1, ModSmall
<1>3. ((x % m) - (y % m)) % m = x - y
  BY <1>2, ModDifference
<1>4. ASSUME x % m = y % m PROVE FALSE
  <2>1. (x % m) - (y % m) = 0
    BY <1>4
  <2>2. 0 % m = 0
    BY ModSmall
  <2> QED
    BY <1>3, <2>1, <2>2
<1> QED
  BY <1>4

-----------------------------------------------------------------------------
(* Characters in order.  The invariant counts: Committed is how many of the  *)
(* characters are behind p_read, and the two indices are the counts, reduced *)
(* to 16 bits.                                                               *)

Committed == IF pc \in {"copy", "update"} THEN Len(sent) - pos ELSE Len(sent)

\* The last Size characters are in the ring, overrun or not.
Written ==
  /\ pWrite = printed % IndexMod
  /\ \A n \in 1 .. printed : n > printed - Size => ring[(n - 1) % Size] = n

\* The sender's copies of the indices lie between what it has committed and
\* what is printed, and a round has sent what it has copied.
Accounted ==
  /\ Committed >= 0 /\ Committed <= printed /\ printed - Committed < Size
  /\ pRead = Committed % IndexMod
  /\ pc = "snap" => Minus(wt, pRead) <= printed - Committed
  /\ pc \in {"copy", "update"} =>
       rd = pRead /\ Minus(wt, rd) <= printed - Committed
  /\ pc = "copy" => pos <= Length
  /\ pc = "update" => pos = Length

InOrder ==
  ~overrun => /\ sent = [i \in 1 .. Len(sent) |-> i]
              /\ pc # "none" => Accounted

LEMMA Counts ==
  ASSUME TypeOK
  PROVE  /\ printed \in Nat /\ Len(sent) \in Nat /\ pos \in Nat
         /\ Committed \in Int /\ rd \in Int /\ wt \in Int
         /\ pRead \in Int /\ pWrite \in Int
BY Constants DEF TypeOK, Committed, Chars, Indices

LEMMA WrittenByPrinting ==
  ASSUME TypeOK, Written, Fputc
  PROVE  Written'
<1> USE Constants
<1>1. printed' = printed + 1 /\ printed \in Nat
  BY Counts DEF Fputc
<1>2. pWrite' = printed' % IndexMod
  <2>1. printed \in Int /\ 1 \in Int
    BY <1>1
  <2>2. ((printed % IndexMod) + 1) % IndexMod = (printed + 1) % IndexMod
    BY <2>1, ModSum
  <2> QED
    BY <1>1, <2>2 DEF Fputc, Plus, Written
<1>3. pWrite % Size = printed % Size
  <2>1. printed \in Int /\ IndexMod % Size = 0
    BY <1>1, IndexAssumption
  <2>2. (printed % IndexMod) % Size = printed % Size
    BY <2>1, ModMod
  <2> QED
    BY <2>2 DEF Written
<1>4. printed % Size \in Slots
  BY <1>1, ModBounds DEF Slots
<1>5. \A k \in Slots : ring'[k] = IF k = printed % Size THEN printed' ELSE ring[k]
  BY <1>3 DEF Fputc, TypeOK
<1>6. ASSUME NEW n \in 1 .. printed', n > printed' - Size
      PROVE  ring'[(n - 1) % Size] = n
  <2>1. CASE n = printed'
    BY <1>1, <1>4, <1>5, <2>1
  <2>2. CASE n # printed'
    <3>1. n \in 1 .. printed /\ n > printed - Size
      BY <1>1, <1>6, <2>2
    <3>2. 0 < printed - (n - 1) /\ printed - (n - 1) < Size /\ n - 1 \in Int
      BY <1>1, <1>6, <3>1
    <3>3. printed % Size # (n - 1) % Size
      <4>1. printed \in Int
        BY <1>1
      <4> QED
        BY <3>2, <4>1, ModDistinct
    <3>4. (n - 1) % Size \in Slots
      BY <3>2, ModBounds DEF Slots
    <3> QED
      BY <1>5, <3>1, <3>3, <3>4 DEF Written
  <2> QED
    BY <2>1, <2>2
<1> QED
  BY <1>2, <1>6 DEF Written

\* What seems pending is what is pending, as long as no more than Size are.
LEMMA PendingCount ==
  ASSUME NEW a \in Nat, NEW b \in Nat, a <= b, b - a <= Size
  PROVE  Minus(b % IndexMod, a % IndexMod) = b - a
<1>1. (b - a) % IndexMod = b - a
  <2>1. b - a \in 0 .. IndexMod - 1
    BY Constants
  <2> QED
    BY <2>1, ModSmall, Constants
<1>2. a \in Int /\ b \in Int
  OBVIOUS
<1>3. ((b % IndexMod) - (a % IndexMod)) % IndexMod = (b - a) % IndexMod
  BY <1>2, ModDifference, Constants
<1> QED
  BY <1>1, <1>3 DEF Minus

LEMMA OrderByPrinting ==
  ASSUME TypeOK, Written, InOrder, Fputc
  PROVE  InOrder'
<1> SUFFICES ASSUME ~overrun' PROVE InOrder'
  BY DEF InOrder
<1> USE Constants
<1>1. ~overrun /\ Minus(pWrite', pRead) < Size
  <2>1. overrun' = (overrun \/ Minus(pWrite', pRead) >= Size)
    BY DEF Fputc
  <2>2. pWrite' \in Int
    <3>1. Plus(pWrite, 1) \in Indices
      BY Counts, IndexTypes
    <3> QED
      BY <3>1 DEF Fputc, Indices
  <2>3. Minus(pWrite', pRead) \in Indices
    BY <2>2, Counts, IndexTypes
  <2>4. Minus(pWrite', pRead) \in Int
    BY <2>3 DEF Indices
  <2>5. ~overrun /\ ~(Minus(pWrite', pRead) >= Size)
    BY <2>1, Zenon
  <2> QED
    BY <2>4, <2>5
<1>2. Accounted /\ sent = [i \in 1 .. Len(sent) |-> i]
  BY <1>1 DEF InOrder, Fputc
<1>3. /\ Committed' = Committed /\ Committed \in Nat /\ printed \in Nat
      /\ printed' = printed + 1
  BY <1>2, Counts DEF Fputc, Committed, Accounted
<1>4. pWrite' = printed' % IndexMod
  BY WrittenByPrinting DEF Written
<1>5. Minus(pWrite', pRead) = printed' - Committed
  <2>1. printed' \in Nat /\ Committed <= printed' /\ printed' - Committed <= Size
    BY <1>2, <1>3 DEF Accounted
  <2>2. pRead = Committed % IndexMod
    BY <1>2 DEF Accounted
  <2> QED
    BY <1>3, <1>4, <2>1, <2>2, PendingCount
<1>6. printed' - Committed < Size
  BY <1>1, <1>5
<1>7. UNCHANGED <<pRead, pc, rd, wt, pos, sent>>
  BY DEF Fputc
<1>8. Minus(wt, pRead) \in Int /\ Minus(wt, rd) \in Int
  BY Counts, IndexTypes DEF Indices
<1>9. Accounted'
  BY <1>2, <1>3, <1>6, <1>7, <1>8 DEF Accounted, Minus, Length
<1> QED
  BY <1>2, <1>7, <1>9 DEF InOrder

\* During a round the length is the distance of its two indices, and the
\* sender's next slot is the one of the next character.
LEMMA RoundLength ==
  ASSUME TypeOK, Accounted, pc \in {"copy", "update"}
  PROVE  Length = Minus(wt, rd) /\ Length \in 0 .. printed - Committed
<1>1. Minus(wt, rd) \in Indices
  BY Counts, IndexTypes
<1>2. Minus(wt, rd) \in 0 .. Size - 1
  BY <1>1, Counts, Constants DEF Accounted, Indices
<1> QED
  BY <1>1, <1>2, ModSmall, Constants, Counts DEF Length, Accounted

LEMMA NextSlot ==
  ASSUME TypeOK, Accounted, Copy
  PROVE  Slot(pos) = Len(sent) % Size
<1> USE Constants
<1>1. pos \in 0 .. Size - 1
  BY LengthType DEF Copy, TypeOK, Slots
<1>2. Committed \in Nat /\ Len(sent) = Committed + pos
  BY Counts, SMTT(30) DEF Copy, Committed, Accounted
<1>3. rd % Size = Committed % Size
  <2>1. Committed \in Int /\ IndexMod % Size = 0
    BY <1>2, IndexAssumption
  <2>2. (Committed % IndexMod) % Size = Committed % Size
    BY <2>1, ModMod
  <2> QED
    BY <2>2 DEF Accounted, Copy
<1>4. PICK a \in 0 .. Size - 1 : a = Committed % Size
  <2>1. Committed \in Int
    BY <1>2
  <2>2. Committed % Size \in 0 .. Size - 1
    BY <2>1, ModBounds
  <2> QED
    BY <2>2
<1>5. Len(sent) % Size = (a + pos) % Size
  <2>1. Committed \in Int /\ pos \in Int
    BY <1>1, <1>2
  <2>2. ((Committed % Size) + pos) % Size = (Committed + pos) % Size
    BY <2>1, ModSum
  <2> QED
    BY <1>2, <1>4, <2>2
<1>6. CASE a + pos < Size
  <2>1. a + pos \in 0 .. Size - 1
    BY <1>1, <1>6
  <2> QED
    BY <1>3, <1>4, <1>5, <1>6, <2>1, ModSmall DEF Slot
<1>7. CASE a + pos >= Size
  <2>1. a + pos - Size \in 0 .. Size - 1
    BY <1>1, <1>7
  <2>2. a + pos = Size * 1 + (a + pos - Size)
    BY <1>1
  <2>3. (a + pos) % Size = a + pos - Size
    BY <2>1, <2>2, ModUnique
  <2> QED
    BY <1>1, <1>3, <1>4, <1>5, <1>7, <2>3 DEF Slot
<1> QED
  BY <1>1, <1>6, <1>7

LEMMA OrderByCopying ==
  ASSUME TypeOK, Written, InOrder, Copy
  PROVE  InOrder'
<1> SUFFICES ASSUME ~overrun' PROVE InOrder'
  BY DEF InOrder
<1> USE Constants
<1>1. Accounted /\ sent = [i \in 1 .. Len(sent) |-> i]
  BY DEF InOrder, Copy
<1>2. Length = Minus(wt, rd) /\ Length \in 0 .. printed - Committed
  BY <1>1, RoundLength DEF Copy
<1>3. /\ Committed \in Nat /\ printed \in Nat /\ Len(sent) = Committed + pos
      /\ pos \in Nat /\ pos < Length
  BY <1>1, Counts, SMTT(30) DEF Copy, Committed, Accounted
<1>4. ring[Slot(pos)] = Len(sent) + 1
  <2> DEFINE n == Len(sent) + 1
  <2>1. n \in 1 .. printed /\ n > printed - Size /\ n - 1 = Len(sent)
    BY <1>1, <1>2, <1>3 DEF Accounted
  <2>2. ring[(n - 1) % Size] = n
    BY <2>1 DEF Written
  <2> QED
    BY <1>1, <2>1, <2>2, NextSlot
<1>5. sent' = Append(sent, Len(sent) + 1)
  BY <1>4 DEF Copy
<1>6. Len(sent') = Len(sent) + 1 /\ sent' = [i \in 1 .. Len(sent') |-> i]
  <2>1. sent \in Seq(Nat) /\ Len(sent) + 1 \in Nat
    BY <1>3 DEF TypeOK, Chars
  <2>2. Len(sent') = Len(sent) + 1
    BY <1>5, <2>1
  <2>3. \A i \in 1 .. Len(sent') : sent'[i] = i
    BY <1>1, <1>5, <2>1, <2>2
  <2>4. sent' = [i \in 1 .. Len(sent') |-> sent'[i]]
    BY <1>5, <2>1
  <2> QED
    BY <2>2, <2>3, <2>4
<1>7. Committed' = Committed /\ pos' = pos + 1
  BY <1>3, <1>6 DEF Copy, Committed
<1>8. pos' <= Length'
  BY <1>2, <1>3, <1>7 DEF Copy, Length, Minus
<1>9. UNCHANGED <<pRead, rd, wt, printed, pc>> /\ pc = "copy"
  BY DEF Copy
<1>10. Accounted'
  BY <1>1, <1>7, <1>8, <1>9 DEF Accounted, Minus
<1> QED
  BY <1>6, <1>9, <1>10 DEF InOrder

LEMMA OrderByUpdate ==
  ASSUME TypeOK, InOrder, Update
  PROVE  InOrder'
<1> SUFFICES ASSUME ~overrun' PROVE InOrder'
  BY DEF InOrder
<1> USE Constants
<1>1. Accounted /\ sent = [i \in 1 .. Len(sent) |-> i]
  BY DEF InOrder, Update
<1>2. pos = Minus(wt, rd) /\ pos \in 0 .. printed - Committed
  BY <1>1, RoundLength DEF Update, Accounted
<1>3. Committed \in Nat /\ printed \in Nat /\ Len(sent) = Committed + pos
  BY <1>1, Counts, SMTT(30) DEF Update, Committed, Accounted
<1>4. Committed' = Len(sent) /\ pc' = "loop" /\ UNCHANGED <<printed, sent>>
  BY DEF Update, Committed
<1>5. pRead' = Len(sent) % IndexMod
  <2>1. Committed \in Int /\ pos \in Int
    BY <1>2, <1>3
  <2>2. ((Committed % IndexMod) + pos) % IndexMod = (Committed + pos) % IndexMod
    BY <2>1, ModSum
  <2> QED
    BY <1>1, <1>2, <1>3, <2>2 DEF Update, Plus, Accounted
<1>6. Accounted'
  BY <1>1, <1>2, <1>3, <1>4, <1>5, SMTT(30) DEF Accounted
<1> QED
  BY <1>1, <1>4, <1>6 DEF InOrder

\* The copies of the indices are taken between the two writes of a round.
LEMMA OrderBySnapshot ==
  ASSUME TypeOK, Written, InOrder, See \/ Snapshot
  PROVE  InOrder'
<1> SUFFICES ASSUME ~overrun' PROVE InOrder'
  BY DEF InOrder
<1> USE Constants
<1>1. Accounted /\ sent = [i \in 1 .. Len(sent) |-> i]
  BY DEF InOrder, See, Snapshot
<1>2. /\ Committed \in Nat /\ printed \in Nat /\ Committed = Len(sent)
      /\ pRead = Committed % IndexMod
  BY <1>1, Counts DEF See, Snapshot, Committed, Accounted
<1>3. Minus(pWrite, pRead) = printed - Committed
  <2>1. Committed <= printed /\ printed - Committed <= Size
    BY <1>1, <1>2 DEF Accounted
  <2> QED
    BY <1>2, <2>1, PendingCount DEF Written
<1>4. CASE See
  <2>1. Minus(wt', pRead') <= printed - Committed
    BY <1>2, <1>3, <1>4 DEF See
  <2>2. /\ Committed' = Committed /\ UNCHANGED <<pRead, printed, sent>>
        /\ pc' = "snap"
    BY <1>2, <1>4 DEF See, Committed
  <2>3. Accounted'
    BY <1>1, <2>1, <2>2 DEF Accounted, Minus
  <2> QED
    BY <1>1, <2>2, <2>3 DEF InOrder
<1>5. CASE Snapshot
  <2>1. Minus(wt', rd') <= printed - Committed /\ rd' = pRead'
    BY <1>1, <1>2, <1>3, <1>5 DEF Snapshot, Accounted
  <2>2. /\ Committed' = Committed /\ UNCHANGED <<pRead, printed, sent>>
        /\ pc' = "copy" /\ pos' = 0
    BY <1>2, <1>5, Counts DEF Snapshot, Committed
  <2>3. 0 <= Length'
    <3>1. wt' \in Int /\ rd' \in Int
      BY <1>5, Counts DEF Snapshot
    <3>2. Minus(wt', rd') \in Int
      BY <3>1, IndexTypes DEF Indices
    <3>3. Minus(wt', rd') % Size \in Slots
      BY <3>2, IndexTypes
    <3> QED
      BY <3>3 DEF Length, Minus, Slots
  <2>4. Accounted'
    BY <1>1, <2>1, <2>2, <2>3 DEF Accounted, Minus
  <2> QED
    BY <1>1, <2>2, <2>4 DEF InOrder
<1> QED
  BY <1>4, <1>5

LEMMA OrderStep ==
  ASSUME TypeOK, Written, InOrder, [Next]_vars
  PROVE  Written' /\ InOrder'
<1> USE Constants
<1>1. CASE Fputc
  BY <1>1, WrittenByPrinting, OrderByPrinting
<1>2. CASE Restart
  <2>1. 0 % IndexMod = 0
    BY ModSmall
  <2>2. Written'
    BY <1>2, <2>1 DEF Restart, Written
  <2>3. sent' = [i \in 1 .. Len(sent') |-> i] /\ Committed' = 0
    BY <1>2 DEF Restart, Committed
  <2>4. Accounted'
    BY <1>2, <2>1, <2>3 DEF Restart, Accounted
  <2> QED
    BY <2>2, <2>3, <2>4 DEF InOrder
<1>3. CASE Sender \/ Free \/ UNCHANGED vars
  <2>1. UNCHANGED <<ring, pWrite, printed, overrun>>
    BY <1>3
    DEF Sender, Connected, See, Snapshot, Copy, Copied, Update, Free, vars
  <2>2. Written'
    BY <2>1 DEF Written
  <2>3. CASE Connected \/ Copied
    BY <2>1, <2>2, <2>3
    DEF Connected, Copied, InOrder, Accounted, Committed, Length, Minus
  <2>4. CASE Free
    BY <2>1, <2>2, <2>4 DEF Free, InOrder
  <2>5. CASE UNCHANGED vars
    BY <2>2, <2>5 DEF vars, InOrder, Accounted, Committed, Length, Minus
  <2> QED
    BY <1>3, <2>2, <2>3, <2>4, <2>5, OrderByCopying, OrderByUpdate,
       OrderBySnapshot DEF Sender
<1> QED
  BY <1>1, <1>2, <1>3 DEF Next

\* As long as the ring never overran, the connection is given exactly what was
\* printed, each character once and in order, through every wrap of the ring
\* and of the indices and whatever is printed during a round; and a sender
\* that sees nothing pending has sent everything.
THEOREM OrderKept == Spec => []SentInOrder
<1>1. Init => Written /\ InOrder
  <2> SUFFICES ASSUME Init PROVE Written /\ InOrder
    OBVIOUS
  <2>1. 0 % IndexMod = 0
    BY ModSmall, Constants
  <2> QED
    BY <2>1, Constants DEF Init, Written, InOrder
<1>2. TypeOK /\ Written /\ InOrder => SentInOrder
  <2> SUFFICES ASSUME TypeOK, Written, InOrder, ~overrun, pc = "loop", ~Pending
               PROVE  Len(sent) = printed
    BY DEF SentInOrder, InOrder
  <2>1. Accounted /\ Committed = Len(sent) /\ Len(sent) \in Nat /\ printed \in Nat
    BY Counts DEF InOrder, Committed
  <2>2. pWrite = printed % IndexMod /\ pRead = Len(sent) % IndexMod
    BY <2>1 DEF Written, Accounted
  <2>3. ASSUME Len(sent) # printed PROVE FALSE
    <3>1. /\ 0 < printed - Len(sent) /\ printed - Len(sent) < IndexMod
          /\ printed \in Int /\ Len(sent) \in Int
      BY <2>1, <2>3, Constants DEF Accounted
    <3>2. printed % IndexMod # Len(sent) % IndexMod
      BY <3>1, ModDistinct, Constants
    <3> QED
      BY <2>2, <3>2 DEF Pending
  <2> QED
    BY <2>3
<1> QED
  BY <1>1, <1>2, OrderStep, TypeCorrect, PTL DEF Spec

-----------------------------------------------------------------------------
(* The two threads. *)


Idle == {"top", "create", "terminate", "close", "undefined"}

Phasing ==
  /\ main \in Idle => thread \notin {"new", "on"}
  /\ thread = "new" => main = "waiting" /\ status = "WAITING"
  /\ thread = "on" <=> pc # "none"
  /\ main = "create" => status = "WAITING"

\* The ring's own steps move the sender among its states with a ring.
LEMMA RingStep ==
  ASSUME Sender \/ Fputc \/ UNCHANGED vars, Phasing
  PROVE  pc' # "none" <=> pc # "none"
BY DEF Sender, Connected, See, Snapshot, Copy, Copied, Update, Fputc, vars

LEMMA MainStep == Phasing /\ Main => Phasing'
<1> SUFFICES ASSUME Phasing, Main PROVE Phasing'
  OBVIOUS
<1>1. pc' = pc
  BY DEF Main, Open, CreateSender, Waited, ReceiveEnds, Drained, Terminate,
         Close, vars
<1>2. CASE Open
  BY <1>1, <1>2 DEF Open, Phasing, Idle
<1>3. CASE CreateSender
  BY <1>1, <1>3 DEF CreateSender, Phasing, Idle
<1>4. CASE Waited
  BY <1>1, <1>4 DEF Waited, Phasing, Idle
<1>5. CASE ReceiveEnds
  BY <1>1, <1>5 DEF ReceiveEnds, Phasing, Idle
<1>6. CASE Drained
  BY <1>1, <1>6 DEF Drained, Phasing, Idle
<1>7. CASE Terminate
  BY <1>1, <1>7 DEF Terminate, Phasing, Idle
<1>8. CASE Close
  BY <1>1, <1>8 DEF Close, Phasing, Idle
<1> QED
  BY <1>2, <1>3, <1>4, <1>5, <1>6, <1>7, <1>8 DEF Main

LEMMA SendThreadStep == Phasing /\ SendThread => Phasing'
<1> SUFFICES ASSUME Phasing, SendThread PROVE Phasing'
  OBVIOUS
<1>1. CASE SenderStarts
  BY <1>1 DEF SenderStarts, Restart, vars, Phasing, Idle
<1>2. CASE SenderConnects
  BY <1>2, RingStep DEF SenderConnects, Connected, vars, Phasing, Idle
<1>3. CASE SenderSends
  BY <1>3, RingStep DEF SenderSends, link, Phasing, Idle
<1>4. CASE SenderFrees
  BY <1>4 DEF SenderFrees, Free, Phasing, Idle
<1>5. CASE SenderEnds
  BY <1>5 DEF SenderEnds, vars, Phasing, Idle
<1> QED
  BY <1>1, <1>2, <1>3, <1>4, <1>5 DEF SendThread

LEMMA PhasingStep == Phasing /\ [LinkNext]_<<vars, link>> => Phasing'
<1> SUFFICES ASSUME Phasing, [LinkNext]_<<vars, link>> PROVE Phasing'
  OBVIOUS
<1>1. CASE Main
  BY <1>1, MainStep
<1>2. CASE SendThread
  BY <1>2, SendThreadStep
<1>3. CASE IdleFrees
  BY <1>3 DEF IdleFrees, vars, Phasing, Idle
<1>4. CASE Breaks
  BY <1>4 DEF Breaks, vars, Phasing, Idle
<1>5. CASE PrintChar
  BY <1>5, RingStep DEF PrintChar, link, Phasing, Idle
<1>6. CASE UNCHANGED <<vars, link>>
  BY <1>6, RingStep DEF link, Phasing, Idle
<1> QED
  BY <1>1, <1>2, <1>3, <1>4, <1>5, <1>6 DEF LinkNext

\* start_lwip_thread_seq never terminates a sender that still runs, and never
\* deletes the connection of one.
THEOREM SenderOver == LinkSpec => []SenderIsOver
<1>1. LinkInit => Phasing
  BY DEF LinkInit, Init, Phasing, Idle
<1>2. Phasing => SenderIsOver
  BY DEF Phasing, Idle, SenderIsOver
<1> QED
  BY <1>1, <1>2, PhasingStep, PTL DEF LinkSpec

\* The two threads drive the ring as TxRing says: each of their steps is a step
\* of the ring or leaves it alone.
THEOREM LinkImplementsRing == LinkSpec => Spec
<1>1. LinkInit => Init
  BY DEF LinkInit
<1>2. [LinkNext]_<<vars, link>> => [Next]_vars
  <2> SUFFICES ASSUME LinkNext \/ UNCHANGED <<vars, link>>
               PROVE  Next \/ UNCHANGED vars
    OBVIOUS
  <2>1. CASE Main
    BY <2>1 DEF Main, Open, CreateSender, Waited, ReceiveEnds, Drained,
                Terminate, Close
  <2>2. CASE SendThread
    BY <2>2 DEF SendThread, SenderStarts, SenderConnects, SenderSends,
                SenderFrees, SenderEnds, Next, Sender
  <2>3. CASE IdleFrees \/ Breaks \/ PrintChar
    BY <2>3 DEF IdleFrees, Breaks, PrintChar, Next
  <2> QED
    BY <2>1, <2>2, <2>3 DEF LinkNext
<1> QED
  BY <1>1, <1>2, PTL DEF LinkSpec, Spec

\* So no connection is ever given a character that was not printed.
THEOREM LinkInventsNothing == LinkSpec => []NothingInvented
BY LinkImplementsRing, NoInvention, PTL

\* And over any number of connections, each is given what was printed while it
\* stood, complete and in order, unless its ring overran.
THEOREM LinkKeepsOrder == LinkSpec => []SentInOrder
BY LinkImplementsRing, OrderKept, PTL
=============================================================================
