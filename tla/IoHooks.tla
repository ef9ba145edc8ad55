------------------------------- MODULE IoHooks -------------------------------
(***************************************************************************)
(* The loops of the I/O hooks over a non-blocking descriptor (hook_libc):   *)
(* write, sendto, writev, pwrite, pwritev and pwritev2 go on after a short  *)
(* write until everything is written or an error occurs; read, recvfrom,    *)
(* accept and their variants return what the first call that does not fail  *)
(* with EAGAIN gives; connect waits once and asks for the outcome.  A byte  *)
(* is represented by its position in the caller's data.                     *)
(***************************************************************************)
EXTENDS Integers, Sequences, FiniteSets, SequencesExt, FiniteSetsExt

CONSTANTS MaxSegments,  \* bound: segments of a vector
          MaxLength,    \* bound: bytes of a segment
          Offsets       \* offsets of positional writes

ASSUME IoConstants ==
  /\ MaxSegments \in Nat \ {0} /\ MaxLength \in Nat /\ Offsets \subseteq Nat

VARIABLES io,       \* the call in progress: its kind, data and offset
          liov,     \* what is left to write, as segments [base, len]
          nbytes,   \* bytes left
          offset,   \* current_offset
          rv,       \* return value so far
          file,     \* the file: byte at each written offset
          pos,      \* its position
          hook,     \* "idle", "loop", "wait", "woken", "done" or "aborted"
          failed,   \* the last wait ended with a FAILED event
          peer      \* the connection: "none", "trying", "up", "refused"

ioVars == <<io, liov, nbytes, offset, rv, file, pos, hook, failed, peer>>
callVars == <<io, liov, nbytes, offset, rv>>

Current == -1    \* the offset that means "at the file position"
Positional == {"pwrite", "pwritev", "pwritev2"}
Writes == {"write", "writev"} \cup Positional
Reads == {"read", "accept"}

\* Vectors laid out one segment after the other; write and pwrite have one.
Lengths(kind) ==
  [1 .. 1 -> 1 .. MaxLength] \cup
  (IF kind \in {"write", "pwrite"} THEN {}
   ELSE UNION {[1 .. n -> 0 .. MaxLength] : n \in 1 .. MaxSegments})
Bytes(lens) == FoldLeft(LAMBDA a, b : a + b, 0, lens)
Layout(lens) == [i \in DOMAIN lens |->
                   [base |-> 1 + Bytes(SubSeq(lens, 1, i - 1)), len |-> lens[i]]]
Flatten(iov) == FlattenSeq([i \in DOMAIN iov |->
                  [k \in 1 .. iov[i].len |-> iov[i].base + k - 1]])

IoInit ==
  /\ io = [kind |-> "read", data |-> <<>>, offset |-> Current, start |-> 0]
  /\ liov = <<>> /\ nbytes = 0 /\ offset = Current /\ rv = 0
  /\ file = <<>> /\ pos \in {0} \cup Offsets
  /\ hook = "idle" /\ failed = FALSE /\ peer = "none"

-----------------------------------------------------------------------------
\* apth_writev_iov_advance.
RECURSIVE IovAdvance(_, _)
IovAdvance(iov, n) ==
  IF iov = <<>> \/ n = 0 THEN iov
  ELSE IF Head(iov).len > n
         THEN <<[base |-> Head(iov).base + n, len |-> Head(iov).len - n]>>
              \o Tail(iov)
         ELSE IovAdvance(Tail(iov), n - Head(iov).len)

\* The kernel writes these bytes at this offset, or at the position.
Put(bytes, o) ==
  LET from == IF o = Current THEN pos ELSE o
      dom == {k \in DOMAIN bytes : TRUE}
  IN  /\ file' = [x \in DOMAIN file \cup {from + k : k \in dom} |->
                    IF x - from \in dom THEN bytes[x - from] ELSE file[x]]
      /\ pos' = IF o = Current THEN pos + Len(bytes) ELSE pos

-----------------------------------------------------------------------------
\* A write hook is called; a call for no bytes with write returns at once.
BeginWrite(kind, lens, o) ==
  /\ hook = "idle"
  /\ io' = [kind |-> kind, data |-> Layout(lens), offset |-> o,
            start |-> IF o = Current THEN pos ELSE o]
  /\ liov' = Layout(lens) /\ nbytes' = Bytes(lens) /\ offset' = o /\ rv' = 0
  /\ hook' = "loop"
  /\ UNCHANGED <<file, pos, failed, peer>>

\* Mutant: a positional write goes on at its first offset.
WrittenRestarts(s) ==
  /\ hook = "loop" /\ io.kind \in Writes
  /\ Put(SubSeq(Flatten(liov), 1, s), offset)
  /\ rv' = rv + s
  /\ offset' = offset
  /\ IF s > 0 /\ s < nbytes
       THEN /\ nbytes' = nbytes - s /\ liov' = IovAdvance(liov, s)
            /\ UNCHANGED hook
       ELSE hook' = "done" /\ UNCHANGED <<nbytes, liov>>
  /\ UNCHANGED <<io, failed, peer>>

\* The raw call took s bytes: return, or advance and go on.
Written(s) ==
  /\ hook = "loop" /\ io.kind \in Writes
  /\ Put(SubSeq(Flatten(liov), 1, s), offset)
  /\ rv' = rv + s
  /\ offset' = IF io.kind \in Positional THEN offset + s ELSE offset
  /\ IF s > 0 /\ s < nbytes
       THEN /\ nbytes' = nbytes - s /\ liov' = IovAdvance(liov, s)
            /\ UNCHANGED hook
       ELSE hook' = "done" /\ UNCHANGED <<nbytes, liov>>
  /\ UNCHANGED <<io, failed, peer>>

\* The raw call failed for good: the error is reported if nothing was
\* written.
WriteError ==
  /\ hook = "loop" /\ io.kind \in Writes
  /\ rv' = IF rv = 0 THEN -1 ELSE rv
  /\ hook' = "done"
  /\ UNCHANGED <<io, liov, nbytes, offset, file, pos, failed, peer>>

\* EBADF: a number that is not open is refused before the first call.
Refuse(kind) ==
  /\ hook = "idle"
  /\ io' = [kind |-> kind, data |-> <<>>, offset |-> Current, start |-> pos]
  /\ rv' = -1 /\ hook' = "done"
  /\ UNCHANGED <<liov, nbytes, offset, file, pos, failed, peer>>

\* EAGAIN: wait for the descriptor, then try again, whatever the outcome.
Again ==
  /\ hook = "loop" /\ io.kind # "connect"
  /\ hook' = "wait"
  /\ UNCHANGED <<callVars, file, pos, failed, peer>>

WaitEnds ==
  /\ hook = "wait"
  /\ failed' \in IF io.kind = "connect" /\ peer = "trying"
                   THEN {TRUE} ELSE BOOLEAN
  /\ hook' = IF io.kind = "connect" THEN "woken" ELSE "loop"
  /\ UNCHANGED <<callVars, file, pos, peer>>

\* A wait that a cancellation request ended while cancellation is disabled
\* leaves the event pending, which the assertion behind it does not allow.
WaitAsserts ==
  /\ hook = "wait"
  /\ hook' = "aborted"
  /\ UNCHANGED <<callVars, file, pos, failed, peer>>

\* read, recvfrom, readv, pread, preadv and accept.
BeginRead(kind) ==
  /\ hook = "idle"
  /\ io' = [kind |-> kind, data |-> <<>>, offset |-> Current, start |-> pos]
  /\ liov' = <<>> /\ nbytes' = MaxLength /\ offset' = Current /\ rv' = 0
  /\ hook' = "loop"
  /\ UNCHANGED <<file, pos, failed, peer>>

ReadReturns(s) ==
  /\ hook = "loop" /\ io.kind \in Reads
  /\ rv' = s
  /\ hook' = "done"
  /\ UNCHANGED <<io, liov, nbytes, offset, file, pos, failed, peer>>

-----------------------------------------------------------------------------
\* connect: done at once, or EINPROGRESS and one wait.
BeginConnect ==
  /\ hook = "idle" /\ peer = "none"
  /\ io' = [kind |-> "connect", data |-> <<>>, offset |-> Current, start |-> pos]
  /\ liov' = <<>> /\ nbytes' = 0 /\ offset' = Current
  /\ \/ rv' = 0 /\ peer' = "up" /\ hook' = "done"
     \/ rv' = -1 /\ peer' = "refused" /\ hook' = "done"
     \/ rv' = -1 /\ peer' = "trying" /\ hook' = "wait"
  /\ UNCHANGED <<file, pos, failed>>

PeerAnswers ==
  /\ peer = "trying"
  /\ peer' \in {"up", "refused"}
  /\ UNCHANGED <<callVars, file, pos, hook, failed>>

\* Mutant: takes the wait for the outcome.
ConnectIgnoresError ==
  /\ hook = "woken"
  /\ rv' = 0
  /\ hook' = "done"
  /\ UNCHANGED <<io, liov, nbytes, offset, file, pos, failed, peer>>

\* SO_ERROR is 0 unless the connection was refused; getsockopt itself may fail.
ConnectResult ==
  /\ hook = "woken"
  /\ rv' \in {-1, IF peer = "refused" THEN -1 ELSE 0}
  /\ hook' = "done"
  /\ UNCHANGED <<io, liov, nbytes, offset, file, pos, failed, peer>>

OffsetsOf(kind) ==
  CASE kind = "pwritev2" -> Offsets \cup {Current}
    [] kind \in Positional -> Offsets
    [] OTHER -> {Current}

\* One call is followed to its return.
Returned == hook \in {"done", "aborted"} /\ UNCHANGED ioVars

IoNext ==
  \/ \E kind \in Writes : \E lens \in Lengths(kind), o \in OffsetsOf(kind) :
       BeginWrite(kind, lens, o)
  \/ \E s \in 0 .. nbytes : Written(s)
  \/ WriteError \/ Again \/ WaitEnds \/ WaitAsserts
  \/ \E kind \in Writes \cup Reads \cup {"connect"} : Refuse(kind)
  \/ \E kind \in Reads : BeginRead(kind)
  \/ \E s \in -1 .. MaxLength : ReadReturns(s)
  \/ BeginConnect \/ PeerAnswers \/ ConnectResult
  \/ Returned

IoSpec == IoInit /\ [][IoNext]_ioVars

-----------------------------------------------------------------------------
(* Properties *)

\* At every step exactly the first rv bytes of the caller's data are in the
\* file, in order and side by side from where the call was to start, and
\* what is left to write is the rest: a retry after a short write repeats
\* and skips nothing.  The exception is pwritev2 at the file position: after
\* a short write its loop turns the offset -1 into a position of its own.
PrefixIsWritten ==
  hook # "idle" /\ io.kind \in Writes /\ rv >= 0
    /\ ~(io.kind = "pwritev2" /\ io.offset = Current) =>
      /\ DOMAIN file = {io.start + k : k \in 1 .. rv}
      /\ \A k \in 1 .. rv : file[io.start + k] = Flatten(io.data)[k]
      /\ hook # "done" =>
           Flatten(liov) = SubSeq(Flatten(io.data), rv + 1,
                                  Len(Flatten(io.data)))

\* -1 means that nothing was written, and a call that wrote something says
\* how much.
ErrorMeansNothingWritten ==
  hook = "done" /\ io.kind \in Writes =>
    IF rv = -1 THEN DOMAIN file = {} ELSE Cardinality(DOMAIN file) <= rv

\* connect reports success only for a connection that is up, unless its
\* single wait ended with a failed event.
ConnectSucceedsWhenUp ==
  hook = "done" /\ io.kind = "connect" /\ rv = 0 => peer = "up" \/ failed

\* A write loop reports what it wrote, and wrote the caller's data.
WritesAreFaithful == PrefixIsWritten /\ ErrorMeansNothingWritten
=============================================================================
