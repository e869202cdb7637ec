------------------------------ MODULE VConsole ------------------------------
(***************************************************************************)
(* The VConsole2 protocol as libvconsole/src/vconsole.cpp speaks it on one *)
(* link to the console: readChunk() and processIncomingData() on the       *)
(* stream the console sends, and createCommandPayload() for the commands.  *)
(*                                                                         *)
(* The stream is the chunks 1, 2, ... end to end.  A byte is its offset in *)
(* the stream, so that the unread part is what lies between taken and the  *)
(* end of what was sent.  recv() on this blocking socket returns any part, *)
(* but never nothing, of what it is asked for; asked for nothing, on Linux *)
(* it waits for a byte all the same.  The sizes of headers and bodies are  *)
(* scaled down; those of channel records are the real ones.                *)
(***************************************************************************)
EXTENDS Integers, Sequences

CONSTANTS
  N,           (* Number of chunks the console sends.                      *)
  Start,       (* Where each chunk starts; Start[N + 1] is the end.        *)
  Records,     (* Channel records in each chunk, 0 unless its type is CHAN. *)
  HeaderSize,  (* sizeof(VConChunk)                                        *)
  MaxGarbage,  (* Bound on what a header read out of step makes us read.   *)
  CmdHeader,   (* Bytes of a command's header.                             *)
  MaxField,    (* Largest value of its 16 bit length field.                *)
  CmdLengths   (* Lengths of the commands typed in the user interface.     *)

Chunk == 1..N

ASSUME LayoutAssumption ==
  /\ N \in Nat
  /\ HeaderSize \in Nat \ {0}
  /\ MaxGarbage \in Nat
  /\ Start \in [1..(N + 1) -> Nat]
  /\ Start[1] = 0
  /\ \A i \in Chunk, j \in 1..(N + 1) : i < j => Start[i] + HeaderSize <= Start[j]
  /\ Records \in [Chunk -> Nat]

ASSUME CommandAssumption ==
  /\ CmdHeader \in Nat
  /\ MaxField \in Nat
  /\ CmdHeader < MaxField
  /\ CmdLengths \subseteq Nat

VARIABLES
  sent,       (* Chunks the console has sent.                              *)
  taken,      (* Bytes recv() has returned.                                *)
  readPc,     (* What readChunk() is about to read.                        *)
  headerAt,   (* Where the header it holds was read.                       *)
  processed,  (* Chunks handed to processPacket(); 0 stands for garbage.   *)
  registered, (* Channels of each chunk handed to onCHANReceived, those    *)
              (* read out of garbage under 0.                              *)
  shortRead,  (* History: some recv() returned part of a header or body.   *)
  frames      (* Command frames sent to the console.                       *)

readVars == <<taken, readPc, headerAt, processed, registered, shortRead>>
consoleVars == <<sent, readVars, frames>>

Available == Start[sent + 1] - taken
Body(i)   == Start[i + 1] - Start[i] - HeaderSize

ConsoleSends ==
  /\ sent < N
  /\ sent' = sent + 1
  /\ UNCHANGED <<readVars, frames>>

-----------------------------------------------------------------------------
(***************************************************************************)
(* readChunk().  After a short read it gives up what it has read, but the  *)
(* link is not lost: isConnected() is true and the listener calls again.   *)
(***************************************************************************)
ReadHeader ==
  /\ readPc = "header"
  /\ \E n \in 1..HeaderSize :
        /\ n <= Available
        /\ taken' = taken + n
        /\ IF n = HeaderSize
           THEN headerAt' = taken /\ readPc' = "body" /\ UNCHANGED shortRead
           ELSE shortRead' = TRUE /\ UNCHANGED <<headerAt, readPc>>
  /\ UNCHANGED <<sent, processed, registered, frames>>

\* parseCHAN() counts by sizeof(Channel), 60 with its padding, and reads the
\* fields, 58 bytes a record: of the records sent it misses the last.
RecordsRead(k) == (58 * k) \div 60

\* Fault: the header is counted in what is left to read.
WholeLength(i) == Body(i) + HeaderSize

\* header.length - sizeof(VConChunk)
RestOf(i) == Body(i)

\* Fault: recv() of nothing is taken for the end of the stream.
NeverEmpty(i) == FALSE

Empty(i) == RestOf(i) = 0

\* Fault: only an error of recv() is told from success.
WholeUnlessError(n, i) == TRUE

Whole(n, i) == n = RestOf(i)

ReadBody ==
  /\ readPc = "body"
  /\ Available > 0
  /\ \E i \in Chunk :
        /\ headerAt = Start[i]
        /\ \E n \in 0..RestOf(i) :
              /\ n <= Available
              /\ n = 0 => Empty(i)
              /\ taken' = taken + n
              /\ IF Whole(n, i)
                 THEN /\ processed' = Append(processed, i)
                      /\ registered' = [registered EXCEPT ![i] = RecordsRead(Records[i])]
                      /\ UNCHANGED shortRead
                 ELSE shortRead' = TRUE /\ UNCHANGED <<processed, registered>>
  /\ readPc' = "header"
  /\ UNCHANGED <<sent, headerAt, frames>>

OutOfStep == readPc = "body" /\ \A i \in Chunk : headerAt # Start[i]

\* Any length, and any type: mostly one that processPacket() ignores, but it
\* dispatches on the four bytes that happen to be there, so that channels may be
\* registered that the console never sent (1 stands for any number of them).
ReadGarbage ==
  /\ OutOfStep
  /\ Available > 0
  /\ \E n \in 0..MaxGarbage : n <= Available /\ taken' = taken + n
  /\ \/ UNCHANGED <<processed, registered>>
     \/ /\ processed' = Append(processed, 0)
        /\ registered' \in {registered, [registered EXCEPT ![0] = 1]}
  /\ readPc' = "header"
  /\ UNCHANGED <<sent, headerAt, shortRead, frames>>

\* A length below the header's makes the body's wrap, and the header is
\* copied over the end of the buffer; the parsers check no length either.
ReadOverruns ==
  /\ OutOfStep
  /\ readPc' = "crashed"
  /\ UNCHANGED <<sent, taken, headerAt, processed, registered, shortRead, frames>>

ReadStep == ReadHeader \/ ReadBody \/ ReadGarbage \/ ReadOverruns

-----------------------------------------------------------------------------
(***************************************************************************)
(* createCommandPayload() and sendCmd(): header, command, terminating 0.   *)
(***************************************************************************)
\* Fault: no room is left for the terminator.
TruncatedToField(n) == IF n > MaxField - CmdHeader THEN MaxField - CmdHeader ELSE n

Truncated(n) == IF n > MaxField - CmdHeader - 1 THEN MaxField - CmdHeader - 1 ELSE n

FrameSize(n) == CmdHeader + Truncated(n) + 1

Frame(n) == [size |-> FrameSize(n), length |-> FrameSize(n) % (MaxField + 1)]

SendCmd(n) == frames' = frames \cup {Frame(n)}

TypeCommand ==
  /\ \E n \in CmdLengths : SendCmd(n)
  /\ UNCHANGED <<sent, readVars>>

-----------------------------------------------------------------------------
Init ==
  /\ sent = 0
  /\ taken = 0
  /\ readPc = "header"
  /\ headerAt = 0
  /\ processed = <<>>
  /\ registered = [i \in 0..N |-> 0]
  /\ shortRead = FALSE
  /\ frames = {}

-----------------------------------------------------------------------------
(***************************************************************************)
(* The shape of the state.                                                 *)
(***************************************************************************)
ConsoleTypeOK ==
  /\ sent \in 0..N
  /\ taken \in Nat /\ taken <= Start[sent + 1]
  /\ readPc \in {"header", "body", "crashed"}
  /\ headerAt \in Nat
  /\ processed \in Seq(0..N)
  /\ registered \in [0..N -> Nat]
  /\ shortRead \in BOOLEAN
  /\ frames \subseteq [size : Nat, length : Nat]

(***************************************************************************)
(* As long as recv() returned headers and bodies whole, readChunk() is in  *)
(* step with the stream: it has processed the chunks in order, missed none *)
(* and stands where the next one starts, or past its header.  In           *)
(* particular a length that makes it crash comes after a short read.       *)
(***************************************************************************)
Following == Len(processed) + 1

InStep ==
  ~shortRead =>
    /\ \A k \in 1..Len(processed) : processed[k] = k
    /\ Following \in 1..(N + 1)
    /\ \/ readPc = "header" /\ taken = Start[Following]
       \/ /\ readPc = "body" /\ Following <= N
          /\ headerAt = Start[Following]
          /\ taken = Start[Following] + HeaderSize

(***************************************************************************)
(* The console can tell where a command ends: its length field, of 16      *)
(* bits, holds the size of the frame, whatever the length of the command.  *)
(***************************************************************************)
FramesDelimited == \A f \in frames : f.length = f.size /\ f.size <= MaxField

(***************************************************************************)
(* onCHANReceived is given no record that the console did not send: none   *)
(* past the end of a chunk, none of a chunk that was not read whole, and   *)
(* none made out of other bytes of the stream, unless a short read came    *)
(* before.                                                                 *)
(***************************************************************************)
ChannelsInside ==
  /\ \A i \in Chunk :
       /\ registered[i] <= Records[i]
       /\ registered[i] > 0 => \E k \in 1..Len(processed) : processed[k] = i
  /\ registered[0] > 0 => shortRead
=============================================================================
