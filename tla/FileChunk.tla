----------------------------- MODULE FileChunk -----------------------------
(***************************************************************************)
(* AppendResponseFileChunk (src/ModSecurityIIS.cpp): the bytes of a file   *)
(* range that a response sends are read through a duplicated handle and    *)
(* appended to the engine's response body.                                 *)
(*                                                                         *)
(* IIS hands the same cached file handle to every response that sends the  *)
(* file, so several calls work on ONE file object at a time.               *)
(* DuplicateHandle makes a second handle to that object; the position is   *)
(* kept in the object, not in the handle.                                  *)
(*                                                                         *)
(* A byte of the file is its offset (1, 2, ...).  OnSendResponse replaces  *)
(* HTTP_BYTE_RANGE_TO_EOF by what is left of the cap (lines 1532-1541), so *)
(* the branch for it in this function is not taken and lengths are finite. *)
(***************************************************************************)
EXTENDS Integers, Sequences, FiniteSets

CONSTANTS
  Readers,      \* calls of AppendResponseFileChunk, one per response
  FileSize,
  MaxStart,     \* bound: the largest starting offset asked for
  MaxLength,    \* bound: the longest range asked for
  BufSize       \* sizeof(buf) (65536 in the code)

ASSUME FileSizeAssumption == FileSize \in Nat
ASSUME RangeAssumption == MaxStart \in Nat /\ MaxLength \in Nat \ {0}
ASSUME BufSizeAssumption == BufSize \in Nat \ {0}

VARIABLES
  position,   \* the current position of the file object
  handles,    \* duplicated handles that are open
  pc,         \* where each call is
  ask,        \* start and length each call was given
  length,     \* bytes each call has still to read
  appended,   \* what each call has appended, in order
  result,     \* what each call returned; -1: not yet, or it threw
  threw,      \* calls that ended with an exception
  mixed       \* history: calls that ran while another one was running

vars == <<position, handles, pc, ask, length, appended, result, threw, mixed>>

Lesser(a, b) == IF a <= b THEN a ELSE b

Bytes(lo, hi) == [i \in 1..(hi - lo) |-> lo + i]

\* What a call can be asked for: the caller never asks for an empty range.
ByteRange == [start : 0..MaxStart, length : 1..MaxLength]

TypeOK ==
  /\ position \in Nat
  /\ handles \in SUBSET Readers
  /\ pc \in [Readers -> {"new", "duplicate", "seek", "read", "close", "done"}]
  /\ ask \in [Readers -> ByteRange]
  /\ length \in [Readers -> 0..MaxLength]
  /\ appended \in [Readers -> Seq(Nat)]
  /\ result \in [Readers -> -1..MaxLength]
  /\ threw \in SUBSET Readers
  /\ mixed \in SUBSET Readers

Init ==
  /\ position = 0
  /\ handles = {}
  /\ pc = [r \in Readers |-> "new"]
  /\ ask \in [Readers -> ByteRange]
  /\ length = [r \in Readers |-> ask[r].length]
  /\ appended = [r \in Readers |-> <<>>]
  /\ result = [r \in Readers |-> -1]
  /\ threw = {}
  /\ mixed = {}

Goto(r, where) == pc' = [pc EXCEPT ![r] = where]

Running == {r \in Readers : pc[r] \notin {"new", "done"}}

\* OnSendResponse of r's request comes to a file chunk.
Call(r) ==
  /\ pc[r] = "new"
  /\ Goto(r, "duplicate")
  /\ mixed' = IF Running = {} THEN mixed ELSE mixed \cup Running \cup {r}
  /\ UNCHANGED <<position, handles, ask, length, appended, result, threw>>

\* DuplicateHandle succeeds, or fails and nothing is inspected.
Duplicate(r) ==
  /\ pc[r] = "duplicate"
  /\ \/ /\ handles' = handles \cup {r}
        /\ Goto(r, "seek")
        /\ UNCHANGED result
     \/ /\ result' = [result EXCEPT ![r] = 0]
        /\ Goto(r, "done")
        /\ UNCHANGED handles
  /\ UNCHANGED <<position, ask, length, appended, threw, mixed>>

\* Fault: a range that starts at 0 is read from wherever the position is.
SeekOnlyIfNonzero(r) ==
  /\ pc[r] = "seek"
  /\ \/ /\ position' = IF ask[r].start = 0 THEN position ELSE ask[r].start
        /\ Goto(r, "read")
     \/ /\ Goto(r, "close")
        /\ UNCHANGED position
  /\ UNCHANGED <<handles, ask, length, appended, result, threw, mixed>>

\* Fault: a failed SetFilePointerEx returns at once.
SeekFailureReturns(r) ==
  /\ pc[r] = "seek"
  /\ \/ /\ position' = ask[r].start
        /\ Goto(r, "read")
     \/ /\ Goto(r, "done")
        /\ UNCHANGED position
  /\ UNCHANGED <<handles, ask, length, appended, result, threw, mixed>>

\* SetFilePointerEx moves the position of the file object, or fails.
Seek(r) ==
  /\ pc[r] = "seek"
  /\ \/ /\ position' = ask[r].start
        /\ Goto(r, "read")
     \/ /\ Goto(r, "close")
        /\ UNCHANGED position
  /\ UNCHANGED <<handles, ask, length, appended, result, threw, mixed>>

\* Fault: a whole buffer is asked for, whatever is left of the range.
WantWholeBuffer(r) == BufSize

\* How many bytes the next ReadFile asks for.
Want(r) == Lesser(length[r], BufSize)

\* Fault: a read of no bytes does not end the loop.
EmptyReadRetries(r) ==
  /\ pc[r] = "read"
  /\ length[r] > 0
  /\ FileSize > position
  /\ Goto(r, "close")
  /\ UNCHANGED <<position, handles, ask, length, appended, result, threw, mixed>>

\* The loop ends: ReadFile fails or finds no byte at the position.
ReadEnds(r) ==
  /\ pc[r] = "read"
  /\ length[r] > 0
  /\ Goto(r, "close")
  /\ UNCHANGED <<position, handles, ask, length, appended, result, threw, mixed>>

\* The range is covered.
RangeCovered(r) ==
  /\ pc[r] = "read"
  /\ length[r] = 0
  /\ Goto(r, "close")
  /\ UNCHANGED <<position, handles, ask, length, appended, result, threw, mixed>>

\* ReadFile reads at the position of the file object, all that was asked for
\* or less, and moves it; the bytes are appended and accounted for.  At the end
\* of the file it finds none, and ReadEnds follows.
Read(r) ==
  /\ pc[r] = "read"
  /\ length[r] > 0
  /\ \E got \in 1..Lesser(Want(r), FileSize - position) :
       /\ position' = position + got
       /\ appended' = [appended EXCEPT ![r] = @ \o Bytes(position, position + got)]
       /\ length' = [length EXCEPT ![r] = @ - got]
  /\ UNCHANGED <<handles, pc, ask, result, threw, mixed>>

\* The engine throws on the block that was read: the exception leaves the
\* function, past CloseHandle.
AppendThrows(r) ==
  /\ pc[r] = "read"
  /\ length[r] > 0
  /\ \E got \in 1..Lesser(Want(r), FileSize - position) : position' = position + got
  /\ threw' = threw \cup {r}
  /\ Goto(r, "done")
  /\ UNCHANGED <<handles, ask, length, appended, result, mixed>>

\* Fault: the requested length is returned, not what was appended.
CloseReturnsRequest(r) ==
  /\ pc[r] = "close"
  /\ handles' = handles \ {r}
  /\ result' = [result EXCEPT ![r] = ask[r].length]
  /\ Goto(r, "done")
  /\ UNCHANGED <<position, ask, length, appended, threw, mixed>>

\* CloseHandle; the number of bytes actually appended is returned.
Close(r) ==
  /\ pc[r] = "close"
  /\ handles' = handles \ {r}
  /\ result' = [result EXCEPT ![r] = ask[r].length - length[r]]
  /\ Goto(r, "done")
  /\ UNCHANGED <<position, ask, length, appended, threw, mixed>>

ReaderStep(r) ==
  \/ Duplicate(r) \/ Seek(r) \/ Read(r) \/ RangeCovered(r) \/ ReadEnds(r)
  \/ AppendThrows(r) \/ Close(r)

Next == \E r \in Readers : Call(r) \/ ReaderStep(r)

Spec == Init /\ [][Next]_vars

\* A call that has begun is scheduled: it waits for nobody.
FairSpec == Spec /\ \A r \in Readers : WF_vars(ReaderStep(r))

(***************************************************************************)
(* Properties.                                                             *)
(***************************************************************************)

\* "Returns the number of bytes ACTUALLY appended" (lines 379-381): whatever
\* fails, and whoever moves the position, the caller accounts for exactly the
\* bytes the engine was given, and they are no more than it asked for.
AccountedExactly ==
  \A r \in Readers :
    /\ Len(appended[r]) <= ask[r].length
    /\ result[r] >= 0 => result[r] = Len(appended[r])

\* A call during which no other call touches the file object gives the engine
\* the range that is sent, from its first byte on, wherever earlier calls have
\* left the position.
AloneReadsRange ==
  \A r \in Readers \ mixed :
    appended[r] = Bytes(ask[r].start, ask[r].start + Len(appended[r]))

\* A duplicated handle is open only inside its call; the one exception is a
\* call the engine's exception has ended (line 418).
HandlesClosed ==
  \A r \in handles : r \in Running \/ r \in threw

\* The read loop ends: at a covered range, the end of the file or an error.
EventuallyReturned ==
  \A r \in Readers : pc[r] = "duplicate" ~> pc[r] = "done"

\* "so pass a duplicated handle with its own file position" (lines 368-371):
\* what a call appends is its own range, also when the handle is shared with
\* another consumer.
OwnPosition ==
  \A r \in Readers :
    appended[r] = Bytes(ask[r].start, ask[r].start + Len(appended[r]))
=============================================================================
