-------------------------- MODULE FileChunkProofs --------------------------
(***************************************************************************)
(* Proofs about FileChunk, for any number of calls, any file, any ranges   *)
(* and any buffer.  The loop of a call keeps its account (Accounts); two   *)
(* calls that run at once are both marked (Apart); and the position of the *)
(* file object is where a call that runs alone has left it (Alone).        *)
(***************************************************************************)
EXTENDS FileChunk, TLAPS, SequenceTheorems

\* What a call has read and what it has still to read are what it was asked.
Accounts ==
  \A r \in Readers :
    /\ Len(appended[r]) + length[r] = ask[r].length
    /\ pc[r] \in {"new", "duplicate", "seek"} => Len(appended[r]) = 0
    /\ result[r] >= 0 => pc[r] = "done" /\ result[r] = Len(appended[r])

\* An open handle belongs to a call that is going to close it, or threw.
Handles ==
  \A r \in handles : pc[r] \in {"seek", "read", "close"} \/ r \in threw

Busy(r) == pc[r] \notin {"new", "done"}

Apart == \A r, s \in Readers : Busy(r) /\ Busy(s) /\ r # s => r \in mixed

\* Request r has appended the beginning of its range.
ReadsRange(r) == appended[r] = Bytes(ask[r].start, ask[r].start + Len(appended[r]))

Alone ==
  \A r \in Readers : r \notin mixed =>
    /\ ReadsRange(r)
    /\ pc[r] = "read" => position = ask[r].start + Len(appended[r])

\* The inductive invariant.
IInv == TypeOK /\ Accounts /\ Handles /\ Apart /\ Alone

(***************************************************************************)
(* Lemmas about the operators.                                             *)
(***************************************************************************)

\* The bytes after offset lo up to hi.
LEMMA BytesProperties ==
  ASSUME NEW lo \in Nat, NEW hi \in Nat, lo <= hi
  PROVE  /\ Bytes(lo, hi) \in Seq(Nat)
         /\ Len(Bytes(lo, hi)) = hi - lo
         /\ \A i \in 1..(hi - lo) : Bytes(lo, hi)[i] = lo + i
  <1> DEFINE b == Bytes(lo, hi)
  <1>1. hi - lo \in Nat
    OBVIOUS
  <1>2. /\ b \in [1..(hi - lo) -> Nat] /\ DOMAIN b = 1..(hi - lo)
        /\ \A i \in 1..(hi - lo) : b[i] = lo + i
    BY DEF Bytes
  <1> HIDE DEF b
  <1>3. b \in Seq(Nat)
    BY <1>1, <1>2, SeqDef
  <1>4. Len(b) \in Nat /\ DOMAIN b = 1..Len(b)
    BY <1>3, LenProperties
  <1>5. Len(b) = hi - lo
    BY <1>1, <1>2, <1>4
  <1> QED BY <1>2, <1>3, <1>5 DEF b

\* A range continued where it ended is a range.
LEMMA BytesJoin ==
  ASSUME NEW lo \in Nat, NEW mid \in Nat, NEW hi \in Nat, lo <= mid, mid <= hi
  PROVE  Bytes(lo, mid) \o Bytes(mid, hi) = Bytes(lo, hi)
  <1> DEFINE a == Bytes(lo, mid)
             b == Bytes(mid, hi)
             c == Bytes(lo, hi)
  <1>1. /\ a \in Seq(Nat) /\ Len(a) = mid - lo /\ \A i \in 1..(mid - lo) : a[i] = lo + i
        /\ b \in Seq(Nat) /\ Len(b) = hi - mid /\ \A i \in 1..(hi - mid) : b[i] = mid + i
        /\ c \in Seq(Nat) /\ Len(c) = hi - lo /\ \A i \in 1..(hi - lo) : c[i] = lo + i
    <2>0. lo <= hi
      OBVIOUS
    <2>1. a \in Seq(Nat) /\ Len(a) = mid - lo /\ \A i \in 1..(mid - lo) : a[i] = lo + i
      BY BytesProperties
    <2>2. b \in Seq(Nat) /\ Len(b) = hi - mid /\ \A i \in 1..(hi - mid) : b[i] = mid + i
      BY BytesProperties
    <2>3. c \in Seq(Nat) /\ Len(c) = hi - lo /\ \A i \in 1..(hi - lo) : c[i] = lo + i
      BY <2>0, BytesProperties
    <2> QED BY <2>1, <2>2, <2>3
  <1> HIDE DEF a, b, c
  <1>2. /\ a \o b \in Seq(Nat)
        /\ Len(a \o b) = Len(a) + Len(b)
        /\ \A i \in 1..Len(a) + Len(b) : (a \o b)[i] = IF i <= Len(a) THEN a[i] ELSE b[i - Len(a)]
    BY <1>1, ConcatProperties
  <1> DEFINE d == a \o b
  <1>3. d \in Seq(Nat) /\ Len(d) = Len(c)
    BY <1>1, <1>2
  <1>4. ASSUME NEW i \in 1..Len(d)
        PROVE  d[i] = c[i]
    <2>1. i \in 1..(hi - lo) /\ i \in 1..Len(a) + Len(b)
      BY <1>1, <1>2
    <2>2. CASE i <= Len(a)
      <3>1. d[i] = a[i]
        BY <1>2, <2>1, <2>2
      <3>2. i \in 1..(mid - lo)
        BY <1>1, <2>1, <2>2
      <3> QED BY <1>1, <2>1, <3>1, <3>2
    <2>3. CASE i > Len(a)
      <3>1. d[i] = b[i - Len(a)]
        BY <1>1, <1>2, <2>1, <2>3, SMTT(30)
      <3>2. i - Len(a) \in 1..(hi - mid) /\ mid + (i - Len(a)) = lo + i
        BY <1>1, <2>1, <2>3
      <3> HIDE DEF d
      <3> QED BY <1>1, <2>1, <3>1, <3>2
    <2> QED BY <1>1, <2>1, <2>2, <2>3
  <1> HIDE DEF d
  <1>5. d = c
    BY <1>1, <1>3, <1>4, SeqEqual
  <1> QED BY <1>5 DEF a, b, c, d

\* What ReadFile can return is within the range and the file.
LEMMA GotBounds ==
  ASSUME TypeOK, NEW r \in Readers, NEW got \in 1..Lesser(Want(r), FileSize - position)
  PROVE  got \in Nat /\ 1 <= got /\ got <= length[r] /\ position + got <= FileSize
  BY FileSizeAssumption, BufSizeAssumption, RangeAssumption DEF TypeOK, Lesser, Want

\* The parts of a range have their types.
LEMMA AskTypes ==
  ASSUME TypeOK, NEW r \in Readers
  PROVE  /\ ask[r].start \in Nat
         /\ ask[r].length \in 1..MaxLength
         /\ Len(appended[r]) \in Nat
         /\ length[r] \in 0..MaxLength
  <1>1. ask[r] \in ByteRange /\ appended[r] \in Seq(Nat) /\ length[r] \in 0..MaxLength
    BY DEF TypeOK
  <1>2. Len(appended[r]) \in Nat
    BY <1>1, LenProperties
  <1>3. ask[r].start \in Nat /\ ask[r].length \in 1..MaxLength
    BY <1>1, RangeAssumption DEF ByteRange
  <1> QED BY <1>1, <1>2, <1>3

(***************************************************************************)
(* What a read does to the bytes appended.                                 *)
(***************************************************************************)
Reads(r, got) ==
  /\ position' = position + got
  /\ appended' = [appended EXCEPT ![r] = @ \o Bytes(position, position + got)]
  /\ length' = [length EXCEPT ![r] = @ - got]

\* The account stays right, and a range that is read on stays a range.
LEMMA ReadEffect ==
  ASSUME TypeOK, NEW r \in Readers, NEW got \in 1..Lesser(Want(r), FileSize - position),
         Reads(r, got)
  PROVE  /\ appended' \in [Readers -> Seq(Nat)]
         /\ \A s \in Readers : s # r => appended'[s] = appended[s] /\ length'[s] = length[s]
         /\ Len(appended'[r]) = Len(appended[r]) + got
         /\ length'[r] = length[r] - got
         /\ length' \in [Readers -> 0..MaxLength]
         /\ position' \in Nat /\ position' = position + got
         /\ ReadsRange(r) /\ position = ask[r].start + Len(appended[r]) =>
              appended'[r] = Bytes(ask[r].start, ask[r].start + Len(appended'[r]))
  <1>1. /\ got \in Nat /\ 1 <= got /\ got <= length[r]
        /\ position \in Nat /\ position + got \in Nat /\ position <= position + got
    BY GotBounds DEF TypeOK
  <1>2. /\ ask[r].start \in Nat /\ Len(appended[r]) \in Nat /\ length[r] \in 0..MaxLength
        /\ appended \in [Readers -> Seq(Nat)] /\ length \in [Readers -> 0..MaxLength]
    BY AskTypes DEF TypeOK
  <1> DEFINE b == Bytes(position, position + got)
             q == appended[r] \o b
  <1>3. b \in Seq(Nat) /\ Len(b) = got
    <2> DEFINE hi == position + got
    <2>1. hi \in Nat /\ position <= hi /\ hi - position = got /\ position \in Nat
      BY <1>1
    <2>2. Bytes(position, hi) \in Seq(Nat) /\ Len(Bytes(position, hi)) = hi - position
      <3> HIDE DEF hi
      <3> QED BY <2>1, BytesProperties
    <2> QED BY <2>1, <2>2
  <1>4. appended' = [appended EXCEPT ![r] = q]
    BY DEF Reads
  <1>5. ReadsRange(r) /\ position = ask[r].start + Len(appended[r]) =>
          q = Bytes(ask[r].start, ask[r].start + (Len(appended[r]) + got))
    <2> SUFFICES ASSUME ReadsRange(r), position = ask[r].start + Len(appended[r])
                 PROVE  q = Bytes(ask[r].start, ask[r].start + (Len(appended[r]) + got))
      OBVIOUS
    <2>1. /\ appended[r] = Bytes(ask[r].start, position)
          /\ ask[r].start <= position
          /\ position + got = ask[r].start + (Len(appended[r]) + got)
      BY <1>1, <1>2 DEF ReadsRange
    <2> DEFINE lo == ask[r].start
               hi == position + got
    <2>2. lo \in Nat /\ position \in Nat /\ hi \in Nat /\ lo <= position /\ position <= hi
      BY <1>1, <1>2, <2>1
    <2>3. Bytes(lo, position) \o Bytes(position, hi) = Bytes(lo, hi)
      <3> HIDE DEF lo, hi
      <3> QED BY <2>2, BytesJoin
    <2> QED BY <2>1, <2>3
  <1> HIDE DEF b
  <1>6. q \in Seq(Nat) /\ Len(q) = Len(appended[r]) + got
    <2>1. appended[r] \in Seq(Nat)
      BY <1>2
    <2> QED BY <1>3, <2>1, ConcatProperties
  <1> HIDE DEF q
  <1>7. /\ appended' \in [Readers -> Seq(Nat)]
        /\ appended'[r] = q
        /\ \A s \in Readers : s # r => appended'[s] = appended[s]
    BY <1>2, <1>4, <1>6
  <1>8. /\ length'[r] = length[r] - got
        /\ length' \in [Readers -> 0..MaxLength]
        /\ \A s \in Readers : s # r => length'[s] = length[s]
    BY <1>1, <1>2, RangeAssumption DEF Reads
  <1>9. position' \in Nat /\ position' = position + got
    BY <1>1 DEF Reads
  <1>10. ReadsRange(r) /\ position = ask[r].start + Len(appended[r]) =>
              appended'[r] = Bytes(ask[r].start, ask[r].start + Len(appended'[r]))
    <2>1. Len(appended'[r]) = Len(appended[r]) + got
      BY <1>6, <1>7
    <2> QED BY <1>5, <1>7, <2>1
  <1> QED BY <1>6, <1>7, <1>8, <1>9, <1>10

(***************************************************************************)
(* The invariant is inductive.                                             *)
(***************************************************************************)

\* The invariant holds initially,
LEMMA InvInit == Init => IInv
  <1> SUFFICES ASSUME Init
               PROVE  IInv
    OBVIOUS
  <1> USE DEF Init
  <1>1. \A r \in Readers : appended[r] = <<>> /\ Len(appended[r]) = 0
    BY EmptySeq
  <1>2. \A r \in Readers :
          ask[r].start \in 0..MaxStart /\ ask[r].start \in Nat /\ ask[r].length \in 1..MaxLength
    BY RangeAssumption DEF ByteRange
  <1>3. appended \in [Readers -> Seq(Nat)]
    BY EmptySeq
  <1>4. length \in [Readers -> 0..MaxLength]
    BY <1>2, RangeAssumption
  <1>5. TypeOK
    BY <1>3, <1>4, RangeAssumption DEF TypeOK
  <1>6. Accounts
    BY <1>1, <1>2, RangeAssumption DEF Accounts
  <1>7. Handles /\ Apart
    BY DEF Handles, Apart, Busy
  <1>8. Alone
    <2>1. ASSUME NEW r \in Readers
          PROVE  ReadsRange(r) /\ pc[r] # "read"
      <3> DEFINE lo == ask[r].start
      <3>1. lo \in Nat /\ lo + 0 = lo /\ lo - lo = 0
        BY <1>2
      <3> HIDE DEF lo
      <3>2. Bytes(lo, lo) \in Seq(Nat) /\ Len(Bytes(lo, lo)) = 0
        BY <3>1, BytesProperties
      <3>3. Bytes(lo, lo) = <<>>
        BY <3>2, EmptySeq
      <3> QED BY <1>1, <3>1, <3>3 DEF ReadsRange, lo
    <2> QED BY <2>1 DEF Alone
  <1> QED BY <1>5, <1>6, <1>7, <1>8 DEF IInv

\* every step keeps the types,
LEMMA TypeStep == IInv /\ [Next]_vars => TypeOK'
  <1> SUFFICES ASSUME IInv, [Next]_vars
               PROVE  TypeOK'
    OBVIOUS
  <1>0. TypeOK
    BY DEF IInv
  <1> USE DEF Goto
  <1>1. ASSUME NEW r \in Readers, Call(r)
        PROVE  TypeOK'
    BY <1>0, <1>1 DEF Call, Running, TypeOK
  <1>2. ASSUME NEW r \in Readers, Duplicate(r)
        PROVE  TypeOK'
    <2>1. CASE UNCHANGED result
      BY <1>0, <1>2, <2>1 DEF Duplicate, TypeOK
    <2>2. CASE result' = [result EXCEPT ![r] = 0] /\ UNCHANGED handles
      <3>1. result' \in [Readers -> -1..MaxLength]
        BY <1>0, <2>2, RangeAssumption DEF TypeOK
      <3> QED BY <1>0, <1>2, <2>2, <3>1 DEF Duplicate, TypeOK
    <2> QED BY <1>2, <2>1, <2>2 DEF Duplicate
  <1>3. ASSUME NEW r \in Readers, Seek(r)
        PROVE  TypeOK'
    <2>1. ask[r].start \in Nat
      BY <1>0, AskTypes
    <2> QED BY <1>0, <1>3, <2>1 DEF Seek, TypeOK
  <1>4. ASSUME NEW r \in Readers, Read(r)
        PROVE  TypeOK'
    <2>1. PICK got \in 1..Lesser(Want(r), FileSize - position) : Reads(r, got)
      BY <1>4 DEF Read, Reads
    <2>2. /\ appended' \in [Readers -> Seq(Nat)]
          /\ length' \in [Readers -> 0..MaxLength]
          /\ position' \in Nat
      BY <1>0, <2>1, ReadEffect
    <2> QED BY <1>0, <1>4, <2>2 DEF Read, TypeOK
  <1>5. ASSUME NEW r \in Readers, RangeCovered(r) \/ ReadEnds(r)
        PROVE  TypeOK'
    BY <1>0, <1>5 DEF RangeCovered, ReadEnds, TypeOK
  <1>6. ASSUME NEW r \in Readers, AppendThrows(r)
        PROVE  TypeOK'
    <2>1. PICK got \in 1..Lesser(Want(r), FileSize - position) : position' = position + got
      BY <1>6 DEF AppendThrows
    <2>2. got \in Nat
      BY <1>0, <2>1, GotBounds
    <2> QED BY <1>0, <1>6, <2>1, <2>2 DEF AppendThrows, TypeOK
  <1>7. ASSUME NEW r \in Readers, Close(r)
        PROVE  TypeOK'
    <2>1. ask[r].length - length[r] \in -1..MaxLength
      <3>1. Len(appended[r]) + length[r] = ask[r].length
        BY DEF IInv, Accounts
      <3> QED BY <1>0, <3>1, AskTypes, RangeAssumption
    <2> QED BY <1>0, <1>7, <2>1 DEF Close, TypeOK
  <1>8. ASSUME UNCHANGED vars
        PROVE  TypeOK'
    BY <1>0, <1>8 DEF vars, TypeOK
  <1> QED BY <1>1, <1>2, <1>3, <1>4, <1>5, <1>6, <1>7, <1>8 DEF Next, ReaderStep

\* the account and the handles,
LEMMA AccountsStep == IInv /\ [Next]_vars => Accounts' /\ Handles'
  <1> SUFFICES ASSUME IInv, [Next]_vars
               PROVE  Accounts' /\ Handles'
    OBVIOUS
  <1>0. TypeOK /\ Accounts /\ Handles /\ DOMAIN pc = Readers /\ DOMAIN result = Readers
    BY DEF IInv, TypeOK
  <1> USE DEF Goto, Accounts, Handles
  <1>1. ASSUME NEW r \in Readers, Call(r)
        PROVE  Accounts' /\ Handles'
    BY <1>0, <1>1 DEF Call
  <1>2. ASSUME NEW r \in Readers, Duplicate(r)
        PROVE  Accounts' /\ Handles'
    <2>1. /\ pc[r] = "duplicate"
          /\ \/ handles' = handles \cup {r} /\ pc'[r] = "seek" /\ result' = result
             \/ /\ result'[r] = 0 /\ pc'[r] = "done" /\ handles' = handles
                /\ \A s \in Readers : s # r => result'[s] = result[s]
          /\ \A s \in Readers : s # r => pc'[s] = pc[s]
          /\ UNCHANGED <<ask, length, appended, threw>>
      BY <1>0, <1>2 DEF Duplicate
    <2>2. Accounts'
      BY <1>0, <2>1
    <2>3. \A s \in handles : s \in Readers
      BY <1>0 DEF TypeOK
    <2>4. Handles'
      BY <1>0, <2>1, <2>3
    <2> QED BY <2>2, <2>4
  <1>3. ASSUME NEW r \in Readers, Seek(r) \/ RangeCovered(r) \/ ReadEnds(r)
        PROVE  Accounts' /\ Handles'
    <2>1. /\ pc[r] \in {"seek", "read"} /\ pc'[r] \in {"read", "close"}
          /\ \A s \in Readers : s # r => pc'[s] = pc[s]
          /\ UNCHANGED <<handles, ask, length, appended, result, threw>>
      BY <1>0, <1>3 DEF Seek, RangeCovered, ReadEnds
    <2>2. Accounts'
      BY <1>0, <2>1
    <2>3. \A s \in handles : s \in Readers
      BY <1>0 DEF TypeOK
    <2>4. Handles'
      BY <1>0, <2>1, <2>3
    <2> QED BY <2>2, <2>4
  <1>4. ASSUME NEW r \in Readers, Read(r)
        PROVE  Accounts' /\ Handles'
    <2>1. PICK got \in 1..Lesser(Want(r), FileSize - position) : Reads(r, got)
      BY <1>4 DEF Read, Reads
    <2>2. got \in Nat
      BY <1>0, <2>1, GotBounds
    <2>3. /\ \A s \in Readers : s # r => appended'[s] = appended[s] /\ length'[s] = length[s]
          /\ Len(appended'[r]) = Len(appended[r]) + got
          /\ length'[r] = length[r] - got
      BY <1>0, <2>1, ReadEffect
    <2>4. /\ UNCHANGED <<handles, pc, ask, result, threw>> /\ pc[r] = "read"
          /\ Len(appended[r]) \in Nat /\ length[r] \in Nat
      BY <1>0, <1>4, AskTypes DEF Read
    <2>5. Len(appended'[r]) + length'[r] = ask'[r].length
      BY <1>0, <2>2, <2>3, <2>4
    <2>6. \A s \in Readers : s # r => /\ Len(appended'[s]) + length'[s] = ask'[s].length
                                     /\ Len(appended'[s]) = Len(appended[s])
      BY <1>0, <2>3, <2>4
    <2>7. Accounts'
      BY <1>0, <2>4, <2>5, <2>6
    <2> QED BY <1>0, <2>4, <2>7
  <1>5. ASSUME NEW r \in Readers, AppendThrows(r)
        PROVE  Accounts' /\ Handles'
    BY <1>0, <1>5 DEF AppendThrows
  <1>6. ASSUME NEW r \in Readers, Close(r)
        PROVE  Accounts' /\ Handles'
    <2>1. ask[r].length - length[r] = Len(appended[r])
      BY <1>0, AskTypes
    <2> QED BY <1>0, <1>6, <2>1 DEF Close
  <1>7. ASSUME UNCHANGED vars
        PROVE  Accounts' /\ Handles'
    BY <1>0, <1>7 DEF vars
  <1> QED BY <1>1, <1>2, <1>3, <1>4, <1>5, <1>6, <1>7 DEF Next, ReaderStep

\* and what runs alone.
LEMMA AloneStep == IInv /\ [Next]_vars => Apart' /\ Alone'
  <1> SUFFICES ASSUME IInv, [Next]_vars
               PROVE  Apart' /\ Alone'
    OBVIOUS
  <1>0. TypeOK /\ Accounts /\ Apart /\ Alone /\ DOMAIN pc = Readers
    BY DEF IInv, TypeOK
  <1>1. ASSUME NEW r \in Readers, Call(r)
        PROVE  Apart' /\ Alone'
    <2>1. /\ pc[r] = "new" /\ pc'[r] = "duplicate"
          /\ \A s \in Readers : s # r => pc'[s] = pc[s]
          /\ UNCHANGED <<position, ask, appended>>
          /\ mixed \subseteq mixed'
          /\ \A s \in Readers : Busy(s) => s \in mixed' /\ r \in mixed'
      BY <1>0, <1>1 DEF Call, Goto, Running, Busy
    <2>2. Apart'
      BY <1>0, <2>1 DEF Apart, Busy
    <2>3. Alone'
      BY <1>0, <2>1 DEF Alone, ReadsRange
    <2> QED BY <2>2, <2>3
  <1>2. ASSUME NEW r \in Readers, ReaderStep(r)
        PROVE  /\ Busy(r)
               /\ \A s \in Readers : s # r => pc'[s] = pc[s] /\ appended'[s] = appended[s]
               /\ UNCHANGED <<ask, mixed>>
    <2>1. CASE Read(r)
      <3>1. PICK got \in 1..Lesser(Want(r), FileSize - position) : Reads(r, got)
        BY <2>1 DEF Read, Reads
      <3> QED BY <1>0, <2>1, <3>1, ReadEffect DEF Read, Busy
    <2>2. CASE ~Read(r)
      BY <1>0, <1>2, <2>2 DEF ReaderStep, Duplicate, Seek, RangeCovered, ReadEnds,
         AppendThrows, Close, Goto, Busy
    <2> QED BY <2>1, <2>2
  <1>3. ASSUME NEW r \in Readers, ReaderStep(r),
               r \notin mixed => /\ ReadsRange(r)'
                                 /\ pc'[r] = "read" => position' = ask[r].start + Len(appended'[r])
        PROVE  Apart' /\ Alone'
    <2>1. /\ Busy(r)
          /\ \A s \in Readers : s # r => pc'[s] = pc[s] /\ appended'[s] = appended[s]
          /\ UNCHANGED <<ask, mixed>>
      BY <1>2, <1>3
    <2>2. Apart'
      BY <1>0, <2>1 DEF Apart, Busy
    <2>3. ASSUME NEW s \in Readers, s # r, s \notin mixed
          PROVE  ReadsRange(s)' /\ pc'[s] # "read"
      <3>1. pc[s] # "read"
        BY <1>0, <2>1, <2>3 DEF Apart, Busy
      <3> QED BY <1>0, <2>1, <2>3, <3>1 DEF Alone, ReadsRange
    <2>4. Alone'
      BY <1>3, <2>1, <2>3 DEF Alone
    <2> QED BY <2>2, <2>4
  <1>4. ASSUME NEW r \in Readers, Read(r)
        PROVE  Apart' /\ Alone'
    <2>1. PICK got \in 1..Lesser(Want(r), FileSize - position) : Reads(r, got)
      BY <1>4 DEF Read, Reads
    <2>2. /\ Len(appended'[r]) = Len(appended[r]) + got
          /\ position' = position + got
          /\ ReadsRange(r) /\ position = ask[r].start + Len(appended[r]) =>
               appended'[r] = Bytes(ask[r].start, ask[r].start + Len(appended'[r]))
      BY <1>0, <2>1, ReadEffect
    <2>3. pc[r] = "read" /\ UNCHANGED <<ask, mixed>>
      BY <1>4 DEF Read
    <2>4. /\ got \in Nat /\ Len(appended[r]) \in Nat /\ ask[r].start \in Nat
      BY <1>0, <2>1, GotBounds, AskTypes
    <2>5. ASSUME r \notin mixed
          PROVE  ReadsRange(r)' /\ position' = ask[r].start + Len(appended'[r])
      <3>1. ReadsRange(r) /\ position = ask[r].start + Len(appended[r])
        BY <1>0, <2>3, <2>5 DEF Alone
      <3>2. position' = ask[r].start + Len(appended'[r])
        BY <2>2, <2>4, <3>1
      <3> QED BY <2>2, <2>3, <3>1, <3>2 DEF ReadsRange
    <2> QED BY <1>3, <1>4, <2>5 DEF ReaderStep
  <1>5. ASSUME NEW r \in Readers, Seek(r)
        PROVE  Apart' /\ Alone'
    <2>1. /\ UNCHANGED <<ask, mixed, appended>>
          /\ pc'[r] = "read" => position' = ask[r].start
          /\ Len(appended[r]) = 0
      BY <1>0, <1>5 DEF Seek, Goto, Accounts
    <2>2. ask[r].start + 0 = ask[r].start
      BY <1>0, AskTypes
    <2> QED BY <1>0, <1>3, <1>5, <2>1, <2>2 DEF ReaderStep, Alone, ReadsRange
  <1>6. ASSUME NEW r \in Readers,
               Duplicate(r) \/ RangeCovered(r) \/ ReadEnds(r) \/ AppendThrows(r) \/ Close(r)
        PROVE  Apart' /\ Alone'
    <2>1. UNCHANGED <<ask, mixed, appended>> /\ pc'[r] # "read"
      BY <1>0, <1>6 DEF Duplicate, RangeCovered, ReadEnds, AppendThrows, Close, Goto
    <2> QED BY <1>0, <1>3, <1>6, <2>1 DEF ReaderStep, Alone, ReadsRange
  <1>7. ASSUME UNCHANGED vars
        PROVE  Apart' /\ Alone'
    BY <1>0, <1>7 DEF vars, Apart, Alone, Busy, ReadsRange
  <1> QED BY <1>1, <1>4, <1>5, <1>6, <1>7 DEF Next, ReaderStep

\* The invariant holds always.
LEMMA InvHolds == Spec => []IInv
  <1>1. IInv /\ [Next]_vars => IInv'
    BY TypeStep, AccountsStep, AloneStep DEF IInv
  <1> QED BY InvInit, <1>1, PTL DEF Spec

\* Type correctness, for any number of calls on a file object.
THEOREM TypeCorrect == Spec => []TypeOK
  <1>1. IInv => TypeOK
    BY DEF IInv
  <1> QED BY <1>1, InvHolds, PTL

\* AppendResponseFileChunk returns the number of bytes the engine was given,
\* whoever moves the position and wherever the loop ends.
THEOREM ReturnsWhatItAppended == Spec => []AccountedExactly
  <1>1. IInv => AccountedExactly
    <2> SUFFICES ASSUME IInv, NEW r \in Readers
                 PROVE  /\ Len(appended[r]) <= ask[r].length
                        /\ result[r] >= 0 => result[r] = Len(appended[r])
      BY DEF AccountedExactly
    <2>1. Len(appended[r]) \in Nat /\ length[r] \in Nat
      BY AskTypes DEF IInv
    <2> QED BY <2>1 DEF IInv, Accounts
  <1> QED BY <1>1, InvHolds, PTL

\* A call that no other call meets gives the engine the range that is sent.
THEOREM AloneReadsItsRange == Spec => []AloneReadsRange
  <1>1. IInv => AloneReadsRange
    BY DEF IInv, Alone, ReadsRange, AloneReadsRange
  <1> QED BY <1>1, InvHolds, PTL

\* Only the engine's exception leaves the duplicated handle open.
THEOREM ClosesItsHandle == Spec => []HandlesClosed
  <1>1. IInv => HandlesClosed
    BY DEF IInv, TypeOK, Handles, HandlesClosed, Running
  <1> QED BY <1>1, InvHolds, PTL
=============================================================================
