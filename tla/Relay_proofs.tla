---------------------------- MODULE Relay_proofs ----------------------------
(***************************************************************************)
(* What holds of the console's protocol and of the relay for any layout of *)
(* the stream, any lengths of commands and lines, and any buffer.          *)
(***************************************************************************)
EXTENDS Relay, TLAPS

-----------------------------------------------------------------------------
(***************************************************************************)
(* The layout of the stream: chunks start in order, a header apart.        *)
(***************************************************************************)
LEMMA StartGrows ==
  ASSUME NEW i \in 1..(N + 1), NEW j \in 1..(N + 1), i <= j
  PROVE  Start[i] \in Nat /\ Start[j] \in Nat /\ Start[i] <= Start[j]
BY LayoutAssumption DEF Chunk

LEMMA StartApart ==
  ASSUME NEW i \in Chunk, NEW j \in Chunk, Start[i] = Start[j]
  PROVE  i = j
BY LayoutAssumption DEF Chunk

LEMMA BodyIsNat ==
  ASSUME NEW i \in Chunk
  PROVE  Body(i) \in Nat /\ Start[i] + HeaderSize + Body(i) = Start[i + 1]
BY LayoutAssumption DEF Chunk, Body

(***************************************************************************)
(* parseCHAN() never reads past the records of a chunk.                    *)
(***************************************************************************)
LEMMA RecordsInside ==
  ASSUME NEW k \in Nat
  PROVE  RecordsRead(k) \in Nat /\ RecordsRead(k) <= k
BY DEF RecordsRead

(***************************************************************************)
(* Counting by the padded size misses a record of every chunk that has any. *)
(***************************************************************************)
THEOREM LastChannelLost ==
  ASSUME NEW k \in Nat \ {0}
  PROVE  RecordsRead(k) < k
BY DEF RecordsRead

-----------------------------------------------------------------------------
(***************************************************************************)
(* createCommandPayload(): the size of a frame fits its length field.      *)
(***************************************************************************)
LEMMA FrameFits ==
  ASSUME NEW n \in Nat
  PROVE  FrameSize(n) \in 0..MaxField
BY CommandAssumption DEF FrameSize, Truncated

LEMMA SmallModulus ==
  ASSUME NEW m \in Nat, NEW a \in 0..m
  PROVE  a % (m + 1) = a
OBVIOUS

LEMMA FrameDelimited ==
  ASSUME NEW n \in Nat
  PROVE  Frame(n) \in [size : Nat, length : Nat]
         /\ Frame(n).length = Frame(n).size
         /\ Frame(n).size <= MaxField
<1>1. FrameSize(n) \in 0..MaxField /\ MaxField \in Nat
  BY FrameFits, CommandAssumption
<1>2. FrameSize(n) % (MaxField + 1) = FrameSize(n)
  BY <1>1, SmallModulus
<1> QED BY <1>1, <1>2 DEF Frame

-----------------------------------------------------------------------------
(***************************************************************************)
(* The inductive invariant of the link to the console.                     *)
(***************************************************************************)
ConsoleInv == ConsoleTypeOK /\ InStep /\ FramesDelimited /\ ChannelsInside

LEMMA ConsoleInit == Init => ConsoleInv
<1> SUFFICES ASSUME Init PROVE ConsoleInv
  OBVIOUS
<1> USE LayoutAssumption DEF Init, Chunk
<1>1. ConsoleTypeOK
  <2>1. sent \in 0..N /\ taken \in Nat /\ taken <= Start[sent + 1]
    OBVIOUS
  <2>2. processed \in Seq(0..N) /\ registered \in [0..N -> Nat]
    OBVIOUS
  <2> QED BY <2>1, <2>2 DEF ConsoleTypeOK
<1>2. InStep
  BY DEF InStep, Following
<1>3. FramesDelimited /\ ChannelsInside
  BY DEF FramesDelimited, ChannelsInside
<1> QED BY <1>1, <1>2, <1>3 DEF ConsoleInv

LEMMA ConsoleSendsKeeps == ConsoleInv /\ ConsoleSends => ConsoleInv'
<1> SUFFICES ASSUME ConsoleInv, ConsoleSends PROVE ConsoleInv'
  OBVIOUS
<1> USE DEF ConsoleInv, ConsoleSends, readVars
<1>1. /\ sent + 1 \in 1..(N + 1) /\ sent' + 1 \in 1..(N + 1)
      /\ sent + 1 <= sent' + 1 /\ sent' \in 0..N
  BY LayoutAssumption DEF ConsoleTypeOK
<1>2. /\ Start[sent + 1] \in Nat /\ Start[sent' + 1] \in Nat
      /\ Start[sent + 1] <= Start[sent' + 1]
  BY ONLY <1>1, StartGrows
<1>3. ConsoleTypeOK'
  BY <1>1, <1>2 DEF ConsoleTypeOK
<1>4. InStep'
  BY DEF InStep, Following
<1>5. FramesDelimited' /\ ChannelsInside'
  BY DEF FramesDelimited, ChannelsInside
<1> QED BY <1>3, <1>4, <1>5

LEMMA ReadHeaderKeeps == ConsoleInv /\ ReadHeader => ConsoleInv'
<1> SUFFICES ASSUME ConsoleInv, ReadHeader PROVE ConsoleInv'
  OBVIOUS
<1>1. PICK n \in 1..HeaderSize :
        /\ n <= Available
        /\ taken' = taken + n
        /\ IF n = HeaderSize
           THEN headerAt' = taken /\ readPc' = "body" /\ UNCHANGED shortRead
           ELSE shortRead' = TRUE /\ UNCHANGED <<headerAt, readPc>>
  BY DEF ReadHeader
<1>2. /\ UNCHANGED <<sent, processed, registered, frames>>
      /\ readPc = "header"
  BY DEF ReadHeader
<1>3. /\ sent + 1 \in 1..(N + 1) /\ Start[sent + 1] \in Nat /\ taken \in Nat
      /\ HeaderSize \in Nat \ {0} /\ N \in Nat
  BY StartGrows, LayoutAssumption DEF ConsoleInv, ConsoleTypeOK
<1>4. ConsoleTypeOK'
  <2>1. taken' \in Nat /\ taken' <= Start[sent' + 1]
    BY <1>1, <1>2, <1>3 DEF Available
  <2>2. /\ headerAt' \in Nat /\ shortRead' \in BOOLEAN
        /\ readPc' \in {"header", "body", "crashed"}
    BY <1>1, <1>2, <1>3 DEF ConsoleInv, ConsoleTypeOK
  <2> QED BY <1>2, <2>1, <2>2 DEF ConsoleInv, ConsoleTypeOK
<1>5. InStep'
  <2> SUFFICES ASSUME ~shortRead' PROVE InStep'
    BY DEF InStep
  <2>1. /\ n = HeaderSize /\ headerAt' = taken /\ readPc' = "body" /\ ~shortRead
    BY <1>1
  <2>2. /\ \A k \in 1..Len(processed) : processed[k] = k
        /\ Following \in 1..(N + 1)
        /\ taken = Start[Following]
    BY <1>2, <2>1 DEF ConsoleInv, InStep
  <2>3. Following # N + 1
    <3> SUFFICES ASSUME Following = N + 1 PROVE FALSE
      OBVIOUS
    <3>1. Start[sent + 1] <= Start[N + 1]
      BY <1>3, StartGrows
    <3> QED BY <3>1, <2>2, <1>1, <1>3 DEF Available
  <2> QED BY <1>1, <1>2, <1>3, <2>1, <2>2, <2>3 DEF InStep, Following
<1>6. FramesDelimited' /\ ChannelsInside'
  <2>1. shortRead => shortRead'
    BY <1>1
  <2> QED BY <1>2, <2>1 DEF ConsoleInv, FramesDelimited, ChannelsInside
<1> QED BY <1>4, <1>5, <1>6 DEF ConsoleInv

LEMMA ReadBodyKeeps == ConsoleInv /\ ReadBody => ConsoleInv'
<1> SUFFICES ASSUME ConsoleInv, ReadBody PROVE ConsoleInv'
  OBVIOUS
<1>1. PICK i \in Chunk, n \in Nat :
        /\ n \in 0..RestOf(i)
        /\ headerAt = Start[i]
        /\ n <= Available
        /\ n = 0 => Empty(i)
        /\ taken' = taken + n
        /\ IF Whole(n, i)
           THEN /\ processed' = Append(processed, i)
                /\ registered' = [registered EXCEPT ![i] = RecordsRead(Records[i])]
                /\ UNCHANGED shortRead
           ELSE shortRead' = TRUE /\ UNCHANGED <<processed, registered>>
  BY DEF ReadBody
<1>2. /\ UNCHANGED <<sent, headerAt, frames>>
      /\ readPc = "body" /\ readPc' = "header"
  BY DEF ReadBody
<1>3. /\ sent + 1 \in 1..(N + 1) /\ Start[sent + 1] \in Nat /\ taken \in Nat
      /\ N \in Nat /\ i \in 1..N /\ processed \in Seq(0..N)
      /\ registered \in [0..N -> Nat]
  BY StartGrows, LayoutAssumption DEF ConsoleInv, ConsoleTypeOK, Chunk
<1>4. /\ RestOf(i) \in Nat /\ Start[i] + HeaderSize + RestOf(i) = Start[i + 1]
      /\ Start[i] \in Nat /\ Start[i + 1] \in Nat
  BY <1>3, BodyIsNat, StartGrows DEF RestOf, Chunk
<1>5. RecordsRead(Records[i]) \in Nat /\ RecordsRead(Records[i]) <= Records[i]
  BY RecordsInside, LayoutAssumption
<1>6. ConsoleTypeOK'
  <2>1. processed' \in Seq(0..N)
    <3>1. i \in 0..N
      BY <1>3
    <3>2. Append(processed, i) \in Seq(0..N)
      BY <3>1, <1>3
    <3> QED BY <3>2, <1>1, <1>3
  <2>2. registered' \in [0..N -> Nat]
    BY <1>1, <1>3, <1>5
  <2>3. taken' \in Nat /\ taken' <= Start[sent' + 1]
    BY <1>1, <1>2, <1>3, <1>4 DEF Available
  <2>4. shortRead' \in BOOLEAN
    BY <1>1 DEF ConsoleInv, ConsoleTypeOK
  <2> QED BY <1>2, <2>1, <2>2, <2>3, <2>4 DEF ConsoleInv, ConsoleTypeOK
<1>7. InStep'
  <2> SUFFICES ASSUME ~shortRead' PROVE InStep'
    BY DEF InStep
  <2>1. /\ n = RestOf(i) /\ processed' = Append(processed, i) /\ ~shortRead
    BY <1>1 DEF Whole
  <2>2. /\ \A k \in 1..Len(processed) : processed[k] = k
        /\ Following <= N /\ Following \in 1..(N + 1)
        /\ headerAt = Start[Following]
        /\ taken = Start[Following] + HeaderSize
    BY <1>2, <2>1 DEF ConsoleInv, InStep
  <2>3. i = Following
    <3>1. Following \in Chunk /\ Start[i] = Start[Following]
      BY <1>1, <1>3, <2>2 DEF Chunk
    <3> HIDE DEF Following
    <3> QED BY ONLY <3>1, StartApart, i \in Chunk
  <2>4. taken' = Start[i + 1]
    BY <1>1, <1>4, <2>1, <2>2, <2>3
  <2>5. Following' = i + 1 /\ i + 1 \in 1..(N + 1)
    BY <1>3, <2>1, <2>3 DEF Following
  <2>6. \A k \in 1..Len(processed') : processed'[k] = k
    BY <1>3, <2>1, <2>2, <2>3 DEF Following
  <2> QED BY <1>2, <2>4, <2>5, <2>6 DEF InStep
<1>8. ChannelsInside'
  <2>0. registered'[0] > 0 => shortRead'
    <3>1. registered'[0] = registered[0]
      BY <1>1, <1>3
    <3>2. shortRead => shortRead'
      BY <1>1
    <3> QED BY <3>1, <3>2 DEF ConsoleInv, ChannelsInside
  <2> SUFFICES ASSUME NEW j \in Chunk
               PROVE  /\ registered'[j] <= Records[j]
                      /\ registered'[j] > 0 =>
                           \E k \in 1..Len(processed') : processed'[k] = j
    BY <2>0 DEF ChannelsInside
  <2>1. /\ registered[j] <= Records[j]
        /\ registered[j] > 0 => \E k \in 1..Len(processed) : processed[k] = j
    BY DEF ConsoleInv, ChannelsInside
  <2>2. CASE ~Whole(n, i)
    BY <1>1, <2>1, <2>2
  <2>3. CASE Whole(n, i)
    <3>1. /\ processed' = Append(processed, i)
          /\ registered' = [registered EXCEPT ![i] = RecordsRead(Records[i])]
      BY <1>1, <2>3
    <3>2. /\ Len(processed') = Len(processed) + 1
          /\ processed'[Len(processed')] = i
          /\ \A k \in 1..Len(processed) : processed'[k] = processed[k]
      BY <3>1, <1>3
    <3>3. CASE j = i
      BY <3>1, <3>2, <3>3, <1>3, <1>5
    <3>4. CASE j # i
      <4>1. registered'[j] = registered[j]
        BY <3>1, <3>4, <1>3 DEF Chunk
      <4> QED BY <3>2, <4>1, <1>3, <2>1
    <3> QED BY <3>3, <3>4
  <2> QED BY <2>2, <2>3
<1>9. FramesDelimited'
  BY <1>2 DEF ConsoleInv, FramesDelimited
<1> QED BY <1>6, <1>7, <1>8, <1>9 DEF ConsoleInv

(***************************************************************************)
(* A header read where no chunk starts is never met in step.               *)
(***************************************************************************)
LEMMA OutOfStepIsShort == ConsoleInv /\ OutOfStep => shortRead
<1> SUFFICES ASSUME ConsoleInv, OutOfStep, ~shortRead PROVE FALSE
  BY DEF ConsoleInv, ConsoleTypeOK
<1>1. /\ readPc = "body" /\ \A i \in Chunk : headerAt # Start[i]
  BY DEF OutOfStep
<1>2. /\ Following \in 1..(N + 1) /\ Following <= N
      /\ headerAt = Start[Following]
  BY <1>1 DEF ConsoleInv, InStep
<1> HIDE DEF Following
<1> QED BY <1>1, <1>2, LayoutAssumption DEF Chunk

LEMMA ReadGarbageKeeps == ConsoleInv /\ ReadGarbage => ConsoleInv'
<1> SUFFICES ASSUME ConsoleInv, ReadGarbage PROVE ConsoleInv'
  OBVIOUS
<1>1. PICK n \in 0..MaxGarbage : n <= Available /\ taken' = taken + n
  BY DEF ReadGarbage
<1>2. /\ \/ UNCHANGED <<processed, registered>>
         \/ /\ processed' = Append(processed, 0)
            /\ registered' \in {registered, [registered EXCEPT ![0] = 1]}
      /\ readPc' = "header"
      /\ UNCHANGED <<sent, headerAt, shortRead, frames>>
      /\ OutOfStep
  BY DEF ReadGarbage
<1>3. /\ sent + 1 \in 1..(N + 1) /\ Start[sent + 1] \in Nat /\ taken \in Nat
      /\ N \in Nat /\ MaxGarbage \in Nat /\ processed \in Seq(0..N)
      /\ registered \in [0..N -> Nat]
  BY StartGrows, LayoutAssumption DEF ConsoleInv, ConsoleTypeOK
<1>4. shortRead'
  BY <1>2, OutOfStepIsShort
<1>5. ConsoleTypeOK'
  <2>1. taken' \in Nat /\ taken' <= Start[sent' + 1]
    BY <1>1, <1>2, <1>3 DEF Available
  <2>2. processed' \in Seq(0..N)
    <3>1. Append(processed, 0) \in Seq(0..N)
      BY <1>3
    <3> QED BY <3>1, <1>2, <1>3
  <2>3. registered' \in [0..N -> Nat]
    <3>1. [registered EXCEPT ![0] = 1] \in [0..N -> Nat]
      BY <1>3
    <3> QED BY <3>1, <1>2, <1>3
  <2> QED BY <1>2, <2>1, <2>2, <2>3 DEF ConsoleInv, ConsoleTypeOK
<1>6. InStep'
  BY <1>4 DEF InStep
<1>7. FramesDelimited'
  BY <1>2 DEF ConsoleInv, FramesDelimited
<1>8. ChannelsInside'
  <2> SUFFICES ASSUME NEW j \in Chunk
               PROVE  /\ registered'[j] <= Records[j]
                      /\ registered'[j] > 0 =>
                           \E k \in 1..Len(processed') : processed'[k] = j
    BY <1>4 DEF ChannelsInside
  <2>1. registered'[j] = registered[j]
    <3>1. j \in 0..N /\ j # 0
      BY <1>3 DEF Chunk
    <3> QED BY <3>1, <1>2, <1>3
  <2>2. /\ registered[j] <= Records[j]
        /\ registered[j] > 0 => \E k \in 1..Len(processed) : processed[k] = j
    BY DEF ConsoleInv, ChannelsInside
  <2>3. ASSUME NEW k \in 1..Len(processed)
        PROVE  k \in 1..Len(processed') /\ processed'[k] = processed[k]
    <3>1. CASE processed' = processed
      BY <3>1
    <3>2. CASE processed' = Append(processed, 0)
      BY <3>2, <1>3
    <3> QED BY <3>1, <3>2, <1>2
  <2> QED BY <2>1, <2>2, <2>3
<1> QED BY <1>5, <1>6, <1>7, <1>8 DEF ConsoleInv

LEMMA ReadOverrunsKeeps == ConsoleInv /\ ReadOverruns => ConsoleInv'
<1> SUFFICES ASSUME ConsoleInv, ReadOverruns PROVE ConsoleInv'
  OBVIOUS
<1>1. /\ UNCHANGED <<sent, taken, headerAt, processed, registered, shortRead, frames>>
      /\ readPc' = "crashed" /\ OutOfStep
  BY DEF ReadOverruns
<1>2. shortRead'
  BY <1>1, OutOfStepIsShort
<1> QED BY <1>1, <1>2 DEF ConsoleInv, ConsoleTypeOK, InStep, FramesDelimited,
                          ChannelsInside

LEMMA ReadKeeps == ConsoleInv /\ ReadStep => ConsoleInv'
BY ReadHeaderKeeps, ReadBodyKeeps, ReadGarbageKeeps, ReadOverrunsKeeps DEF ReadStep

(***************************************************************************)
(* A command, typed or relayed, whatever its length.                       *)
(***************************************************************************)
LEMMA CommandKeeps ==
  ASSUME ConsoleInv, NEW n \in Nat, SendCmd(n), UNCHANGED <<sent, readVars>>
  PROVE  ConsoleInv'
<1>1. /\ UNCHANGED <<sent, taken, readPc, headerAt, processed, registered, shortRead>>
      /\ frames' = frames \cup {Frame(n)}
  BY DEF SendCmd, readVars
<1>2. ConsoleTypeOK'
  BY <1>1, FrameDelimited DEF ConsoleInv, ConsoleTypeOK
<1>3. InStep' /\ ChannelsInside'
  BY <1>1 DEF ConsoleInv, InStep, Following, ChannelsInside
<1>4. FramesDelimited'
  BY <1>1, FrameDelimited DEF ConsoleInv, FramesDelimited
<1> QED BY <1>2, <1>3, <1>4 DEF ConsoleInv

LEMMA ConsoleUnchanged == ConsoleInv /\ UNCHANGED consoleVars => ConsoleInv'
BY DEF consoleVars, readVars, ConsoleInv, ConsoleTypeOK, InStep, Following,
       FramesDelimited, ChannelsInside

LEMMA ConsoleNext == ConsoleInv /\ [RelayNext]_vars => ConsoleInv'
<1> SUFFICES ASSUME ConsoleInv, [RelayNext]_vars PROVE ConsoleInv'
  OBVIOUS
<1>1. CASE connected /\ ConsoleSends /\ UNCHANGED relayVars
  BY <1>1, ConsoleSendsKeeps
<1>2. CASE Alive /\ connected /\ TypeCommand /\ UNCHANGED relayVars
  <2>1. PICK n \in CmdLengths : SendCmd(n) /\ UNCHANGED <<sent, readVars>>
    BY <1>2 DEF TypeCommand
  <2>2. n \in Nat
    BY CommandAssumption
  <2> QED BY <2>1, <2>2, CommandKeeps
<1>3. CASE ReadConsole
  BY <1>3, ReadKeeps DEF ReadConsole
<1>4. CASE ConsoleConnects \/ ConsoleLost \/ LinkOpens \/ Greet \/ LinkCloses
           \/ ServerSends \/ ServerReads
  <2>1. UNCHANGED consoleVars
    BY <1>4 DEF ConsoleConnects, ConsoleLost, LinkOpens, Greet, LinkCloses,
                ServerSends, ServerReads
  <2> QED BY <2>1, ConsoleUnchanged
<1>5. CASE RelayCommand
  <2>1. UNCHANGED <<sent, readVars>>
    BY <1>5 DEF RelayCommand
  <2>2. PICK n \in 1..BufferSize : IF Passed THEN SendCmd(n) ELSE UNCHANGED frames
    BY <1>5 DEF RelayCommand
  <2>3. n \in Nat
    BY RelayAssumption
  <2>4. CASE Passed
    BY <2>1, <2>2, <2>3, <2>4, CommandKeeps
  <2>5. CASE ~Passed
    BY <2>1, <2>2, <2>5, ConsoleUnchanged DEF consoleVars
  <2> QED BY <2>4, <2>5
<1>6. CASE UNCHANGED vars
  BY <1>6, ConsoleUnchanged DEF vars
<1> QED BY <1>1, <1>2, <1>3, <1>4, <1>5, <1>6 DEF RelayNext

(***************************************************************************)
(* The link to the console, whatever passes through the client: it is in   *)
(* step with the stream, delimits its commands, and registers only what is *)
(* in the chunks.                                                          *)
(***************************************************************************)
THEOREM ConsoleInvariance == RelaySpec => []ConsoleInv
<1>1. RelayInit => ConsoleInv
  BY ConsoleInit DEF RelayInit
<1> QED BY <1>1, ConsoleNext, PTL DEF RelaySpec

(***************************************************************************)
(* As long as recv() returned headers and bodies whole, readChunk() is in  *)
(* step with the console's stream.                                         *)
(***************************************************************************)
THEOREM ReaderInStep == RelaySpec => []InStep
<1>1. ConsoleInv => InStep
  BY DEF ConsoleInv
<1> QED BY <1>1, ConsoleInvariance, PTL

(***************************************************************************)
(* createCommandPayload() tells the true size of the frame for a command of *)
(* any length.                                                             *)
(***************************************************************************)
THEOREM CommandsDelimited == RelaySpec => []FramesDelimited
<1>1. ConsoleInv => FramesDelimited
  BY DEF ConsoleInv
<1> QED BY <1>1, ConsoleInvariance, PTL

(***************************************************************************)
(* Whatever the layout of the stream and the records in its chunks,        *)
(* onCHANReceived is given none that the console did not send, as long as  *)
(* no recv() came short.                                                   *)
(***************************************************************************)
THEOREM ParserInside == RelaySpec => []ChannelsInside
<1>1. ConsoleInv => ChannelsInside
  BY DEF ConsoleInv
<1> QED BY <1>1, ConsoleInvariance, PTL

-----------------------------------------------------------------------------
(***************************************************************************)
(* The shape of the relay's state.                                         *)
(***************************************************************************)
Line  == [kind : {"command", "joined"}, last : Nat \ {0}]
Piece == [first : Nat, last : Nat, run : BOOLEAN]

RelayTypeOK ==
  /\ connected \in BOOLEAN /\ linked \in BOOLEAN /\ greeting \in BOOLEAN
  /\ name \in Names \cup {<<>>}
  /\ told \in BOOLEAN
  /\ links \in 0..MaxLinks
  /\ lines \in Seq(Line)
  /\ relayed \in Seq(Piece)
  /\ Unread >= 0

LEMMA EmptySeqs == <<>> \in Seq(Line) /\ <<>> \in Seq(Piece)
OBVIOUS

LEMMA LastOfEmpty == LastOf(<<>>) = 0
BY DEF LastOf

LEMMA LastOfAppend ==
  ASSUME NEW S, NEW s \in Seq(S), NEW e \in S
  PROVE  Append(s, e) \in Seq(S) /\ LastOf(Append(s, e)) = e.last
BY DEF LastOf

LEMMA LastOfIsNat ==
  ASSUME NEW S, NEW s \in Seq(S), \A e \in S : e.last \in Nat
  PROVE  LastOf(s) \in Nat
<1>1. CASE s = <<>>
  BY <1>1 DEF LastOf
<1>2. CASE s # <<>>
  <2>1. Len(s) \in 1..Len(s)
    BY <1>2
  <2> QED BY <1>2, <2>1 DEF LastOf
<1> QED BY <1>1, <1>2

LEMMA LastsAreNat ==
  ASSUME RelayTypeOK
  PROVE  LastOf(lines) \in Nat /\ LastOf(relayed) \in Nat
<1>1. (\A e \in Line : e.last \in Nat) /\ (\A e \in Piece : e.last \in Nat)
  BY DEF Line, Piece
<1>2. lines \in Seq(Line) /\ relayed \in Seq(Piece)
  BY DEF RelayTypeOK
<1>3. LastOf(lines) \in Nat
  BY <1>1, <1>2, LastOfIsNat
<1>4. LastOf(relayed) \in Nat
  BY <1>1, <1>2, LastOfIsNat
<1> QED BY <1>3, <1>4

LEMMA NamesAreIn ==
  ASSUME NEW chunk
  PROVE  NamesIn(chunk) \subseteq Names \cup {<<>>}
BY DEF NamesIn, Names

LEMMA RelayTypeNext == RelayTypeOK /\ [RelayNext]_vars => RelayTypeOK'
<1> SUFFICES ASSUME RelayTypeOK, [RelayNext]_vars PROVE RelayTypeOK'
  OBVIOUS
<1>1. CASE LinkOpens
  <2>1. links' \in 0..MaxLinks
    BY <1>1, RelayAssumption DEF LinkOpens, RelayTypeOK
  <2> QED BY <1>1, <2>1 DEF LinkOpens, RelayTypeOK, Unread
<1>2. CASE LinkCloses
  <2>1. Unread' >= 0
    BY <1>2, LastOfEmpty DEF LinkCloses, Unread
  <2>2. lines' \in Seq(Line) /\ relayed' \in Seq(Piece)
    BY <1>2, EmptySeqs DEF LinkCloses
  <2> QED BY <1>2, <2>1, <2>2 DEF LinkCloses, RelayTypeOK
<1>3. CASE ConsoleConnects \/ ConsoleLost \/ Greet \/ ServerReads
  BY <1>3 DEF ConsoleConnects, ConsoleLost, linkVars, Greet, TellName, ServerReads,
              RelayTypeOK, Unread
<1>4. CASE ReadConsole
  <2>1. HandlePRNT /\ UNCHANGED <<connected, linked, links, greeting, lines, relayed>>
    BY <1>4 DEF ReadConsole
  <2>2. name' \in Names \cup {<<>>} /\ told' \in BOOLEAN
    BY <2>1, NamesAreIn DEF HandlePRNT, TellName, RelayTypeOK
  <2> QED BY <2>1, <2>2 DEF RelayTypeOK, Unread
<1>5. CASE ServerSends
  <2>1. PICK kind \in LineKinds, n \in LineSizes :
          lines' = Append(lines, [kind |-> kind, last |-> LastOf(lines) + n])
    BY <1>5 DEF ServerSends
  <2>2. n \in Nat \ {0} /\ LastOf(lines) \in Nat /\ LastOf(relayed) \in Nat
    BY RelayAssumption, LastsAreNat
  <2>3. [kind |-> kind, last |-> LastOf(lines) + n] \in Line
    BY <2>2, RelayAssumption DEF Line
  <2>4. lines' \in Seq(Line) /\ LastOf(lines') = LastOf(lines) + n
    BY <2>1, <2>3, LastOfAppend DEF RelayTypeOK
  <2>5. UNCHANGED <<connected, linked, links, greeting, relayed, name, told>>
    BY <1>5 DEF ServerSends
  <2>6. Unread' >= 0
    BY <2>2, <2>4, <2>5 DEF RelayTypeOK, Unread
  <2> QED BY <2>4, <2>5, <2>6 DEF RelayTypeOK
<1>6. CASE RelayCommand
  <2> DEFINE piece(n) == [first |-> LastOf(relayed) + 1,
                          last  |-> LastOf(relayed) + n,
                          run   |-> Passed]
  <2>1. PICK n \in 1..BufferSize : Fits(n) /\ relayed' = Append(relayed, piece(n))
    BY <1>6 DEF RelayCommand
  <2>2. n \in Nat /\ LastOf(lines) \in Nat /\ LastOf(relayed) \in Nat
    BY RelayAssumption, LastsAreNat
  <2>3. piece(n) \in Piece
    BY <2>2 DEF Piece, Passed, RelayTypeOK
  <2>4. piece(n).last = LastOf(relayed) + n
    OBVIOUS
  <2> HIDE DEF piece
  <2>5. relayed' \in Seq(Piece) /\ LastOf(relayed') = LastOf(relayed) + n
    BY <2>1, <2>3, <2>4, LastOfAppend DEF RelayTypeOK
  <2>6. UNCHANGED <<connected, linked, links, greeting, lines, name, told>>
    BY <1>6 DEF RelayCommand
  <2>7. Unread' >= 0
    BY <2>1, <2>2, <2>5, <2>6 DEF Fits, Unread
  <2> QED BY <2>5, <2>6, <2>7 DEF RelayTypeOK
<1>7. CASE UNCHANGED relayVars
  BY <1>7 DEF relayVars, linkVars, RelayTypeOK, Unread
<1> QED BY <1>1, <1>2, <1>3, <1>4, <1>5, <1>6, <1>7 DEF RelayNext, vars

(***************************************************************************)
(* The state of the client between its two peers keeps its shape, and no   *)
(* byte goes to the console that the server has not sent.                  *)
(***************************************************************************)
THEOREM TypeCorrect == RelaySpec => []TypeOK
<1>1. RelayInit => RelayTypeOK
  <2> SUFFICES ASSUME RelayInit PROVE RelayTypeOK
    OBVIOUS
  <2>1. Unread = 0
    BY LastOfEmpty DEF RelayInit, Unread
  <2>2. lines \in Seq(Line) /\ relayed \in Seq(Piece)
    BY EmptySeqs DEF RelayInit
  <2>3. links \in 0..MaxLinks
    BY RelayAssumption DEF RelayInit
  <2>4. Unread >= 0
    BY <2>1
  <2>5. connected \in BOOLEAN /\ linked \in BOOLEAN /\ greeting \in BOOLEAN
        /\ name \in Names \cup {<<>>} /\ told \in BOOLEAN
    BY DEF RelayInit
  <2> QED BY <2>2, <2>3, <2>4, <2>5 DEF RelayTypeOK
<1>2. RelaySpec => []RelayTypeOK
  BY <1>1, RelayTypeNext, PTL DEF RelaySpec
<1>3. ConsoleInv /\ RelayTypeOK => TypeOK
  BY DEF ConsoleInv, RelayTypeOK, TypeOK, Line, Piece
<1> QED BY <1>2, <1>3, ConsoleInvariance, PTL

-----------------------------------------------------------------------------
(***************************************************************************)
(* The player's name.  Nothing marks where a message ends, so what the     *)
(* server makes of a cut depends on the name: one that spells the start of *)
(* a message itself could be cut there and be read as another name.        *)
(***************************************************************************)
StartsMessage(s, i) ==
  s[i + 1] = "PLAYER" /\ s[i + 2] = "NAME" /\ s[i + 3] = ":"

NameIsPlain ==
  \A n \in Names : \A i \in Nat : i + 3 <= Len(n) => ~StartsMessage(n, i)

(***************************************************************************)
(* Per link the name is sent at most twice, by handlePRNT() and by the     *)
(* connector, and what the server has not received ends what was sent.     *)
(***************************************************************************)
Text == {"PLAYER", "NAME", ":"} \cup Characters

Ends(s, t) ==
  /\ s \in Seq(Text)
  /\ Len(s) <= Len(t)
  /\ \A k \in 1..Len(s) : s[k] = t[Len(t) - Len(s) + k]

SentTwice(n) == NameMessage(n) \o NameMessage(n)

UpInv ==
  /\ name \in Names \cup {<<>>}
  /\ IF name = <<>> THEN up = <<>>
     ELSE /\ Ends(up, SentTwice(name))
          /\ greeting => Ends(up, NameMessage(name))
  /\ ~linked => up = <<>>

NameInv == UpInv /\ NameIsThePlayers

LEMMA ConcatIs ==
  ASSUME NEW S, NEW s \in Seq(S), NEW t \in Seq(S)
  PROVE  /\ s \o t \in Seq(S)
         /\ Len(s) \in Nat /\ Len(t) \in Nat
         /\ Len(s \o t) = Len(s) + Len(t)
         /\ \A k \in 1..Len(s) : (s \o t)[k] = s[k]
         /\ \A k \in 1..Len(t) : (s \o t)[Len(s) + k] = t[k]
<1>1. Len(s) \in Nat /\ Len(t) \in Nat
  OBVIOUS
<1>2. s \o t \in Seq(S) /\ Len(s \o t) = Len(s) + Len(t)
  OBVIOUS
<1>3. \A k \in 1..(Len(s) + Len(t)) :
        (s \o t)[k] = IF k <= Len(s) THEN s[k] ELSE t[k - Len(s)]
  OBVIOUS
<1>4. ASSUME NEW k \in 1..Len(s) PROVE (s \o t)[k] = s[k]
  BY <1>1, <1>3
<1>5. ASSUME NEW k \in 1..Len(t) PROVE (s \o t)[Len(s) + k] = t[k]
  <2>1. /\ Len(s) + k \in 1..(Len(s) + Len(t))
        /\ ~(Len(s) + k <= Len(s)) /\ (Len(s) + k) - Len(s) = k
    BY <1>1
  <2> QED BY <2>1, <1>3
<1> QED BY <1>1, <1>2, <1>4, <1>5

LEMMA NameMessageIs ==
  ASSUME NEW p \in Names
  PROVE
  /\ NameMessage(p) \in Seq(Text)
  /\ Len(p) \in Nat
  /\ Len(NameMessage(p)) = Len(p) + 3
  /\ StartsMessage(NameMessage(p), 0)
  /\ \A k \in 1..Len(p) : NameMessage(p)[k + 3] = p[k]
<1>1. p \in Seq(Text)
  BY RelayAssumption DEF Text, Names
<1>2. <<"PLAYER", "NAME", ":">> \in Seq(Text)
  BY DEF Text
<1>3. /\ Len(<<"PLAYER", "NAME", ":">>) = 3
      /\ <<"PLAYER", "NAME", ":">>[1] = "PLAYER"
      /\ <<"PLAYER", "NAME", ":">>[2] = "NAME"
      /\ <<"PLAYER", "NAME", ":">>[3] = ":"
  OBVIOUS
<1> DEFINE head == <<"PLAYER", "NAME", ":">>
<1>4. ASSUME NEW h \in Seq(Text), Len(h) = 3
      PROVE  /\ h \o p \in Seq(Text)
             /\ Len(h \o p) = Len(p) + 3
             /\ Len(p) \in Nat
             /\ \A k \in 1..3 : (h \o p)[k] = h[k]
             /\ \A k \in 1..Len(p) : (h \o p)[k + 3] = p[k]
  <2>1. /\ h \o p \in Seq(Text)
        /\ Len(p) \in Nat
        /\ Len(h \o p) = 3 + Len(p)
        /\ \A k \in 1..3 : (h \o p)[k] = h[k]
        /\ \A k \in 1..Len(p) : (h \o p)[3 + k] = p[k]
    <3>1. /\ h \o p \in Seq(Text)
          /\ Len(p) \in Nat
          /\ Len(h \o p) = Len(h) + Len(p)
          /\ \A k \in 1..Len(h) : (h \o p)[k] = h[k]
          /\ \A k \in 1..Len(p) : (h \o p)[Len(h) + k] = p[k]
      BY ONLY <1>1, h \in Seq(Text), ConcatIs
    <3> QED BY ONLY <3>1, <1>4
  <2>2. \A k \in 1..Len(p) : 3 + k = k + 3
    OBVIOUS
  <2>3. \A k \in 1..Len(p) : (h \o p)[k + 3] = p[k]
    BY ONLY <2>1, <2>2
  <2> QED BY ONLY <2>1, <2>3
<1> HIDE DEF head
<1>5. head \in Seq(Text) /\ Len(head) = 3
  BY <1>2, <1>3 DEF head
<1>6. NameMessage(p) = head \o p
  BY DEF NameMessage, head
<1>7. head[1] = "PLAYER" /\ head[2] = "NAME" /\ head[3] = ":"
  BY <1>3 DEF head
<1>8. /\ NameMessage(p)[1] = "PLAYER" /\ NameMessage(p)[2] = "NAME"
      /\ NameMessage(p)[3] = ":"
  BY <1>4, <1>5, <1>6, <1>7
<1> QED BY <1>4, <1>5, <1>6, <1>8 DEF StartsMessage

LEMMA SentTwiceIs ==
  ASSUME NEW p \in Names
  PROVE
  /\ SentTwice(p) \in Seq(Text)
  /\ Len(SentTwice(p)) = 2 * Len(NameMessage(p))
  /\ \A k \in 1..Len(NameMessage(p)) :
        /\ SentTwice(p)[k] = NameMessage(p)[k]
        /\ SentTwice(p)[Len(NameMessage(p)) + k] = NameMessage(p)[k]
<1>1. NameMessage(p) \in Seq(Text)
  BY NameMessageIs
<1> QED BY <1>1 DEF SentTwice

LEMMA EndsEmpty ==
  ASSUME NEW t \in Seq(Text)
  PROVE  Ends(<<>>, t)
BY DEF Ends

LEMMA EndsTwice ==
  ASSUME NEW p \in Names, NEW s, Ends(s, NameMessage(p))
  PROVE  Ends(s, SentTwice(p)) /\ Ends(s \o NameMessage(p), SentTwice(p))
<1> DEFINE L == Len(NameMessage(p))
<1>1. L \in Nat /\ NameMessage(p) \in Seq(Text) /\ s \in Seq(Text)
      /\ Len(s) \in Nat /\ Len(s) <= L
      /\ \A k \in 1..Len(s) : s[k] = NameMessage(p)[L - Len(s) + k]
  BY NameMessageIs DEF Ends
<1>2. Len(SentTwice(p)) = L + L
      /\ \A k \in 1..L : /\ SentTwice(p)[k] = NameMessage(p)[k]
                          /\ SentTwice(p)[L + k] = NameMessage(p)[k]
  BY <1>1, SentTwiceIs
<1> HIDE DEF L
<1>3. Ends(s, SentTwice(p))
  BY <1>1, <1>2 DEF Ends
<1>4. /\ s \o NameMessage(p) \in Seq(Text)
      /\ Len(s \o NameMessage(p)) = Len(s) + L
      /\ \A k \in 1..(Len(s) + L) :
           (s \o NameMessage(p))[k] = IF k <= Len(s) THEN s[k] ELSE NameMessage(p)[k - Len(s)]
  BY <1>1 DEF L
<1>5. ASSUME NEW k \in 1..(Len(s) + L)
      PROVE  (s \o NameMessage(p))[k] = SentTwice(p)[(L + L) - (Len(s) + L) + k]
  <2>1. CASE k <= Len(s)
    <3>1. /\ k \in 1..Len(s) /\ L - Len(s) + k \in 1..L
          /\ (L + L) - (Len(s) + L) + k = L - Len(s) + k
      BY <1>1, <2>1
    <3> QED BY <1>1, <1>2, <1>4, <2>1, <3>1
  <2>2. CASE k > Len(s)
    <3> DEFINE j == k - Len(s)
    <3>1. j \in 1..L /\ (L + L) - (Len(s) + L) + k = L + j
      BY <1>1, <2>2
    <3>2. SentTwice(p)[L + j] = NameMessage(p)[j]
      BY <3>1, <1>2
    <3>3. (s \o NameMessage(p))[k] = NameMessage(p)[j]
      BY <1>1, <1>4, <2>2
    <3> HIDE DEF j
    <3> QED BY ONLY <3>1, <3>2, <3>3
  <2>3. k <= Len(s) \/ k > Len(s)
    BY <1>1
  <2> QED BY ONLY <2>1, <2>2, <2>3
<1> QED BY <1>1, <1>2, <1>3, <1>4, <1>5 DEF Ends

LEMMA EndsCut ==
  ASSUME NEW t \in Seq(Text), NEW s, Ends(s, t), NEW n \in 1..Len(s)
  PROVE  Ends(SubSeq(s, n + 1, Len(s)), t)
<1>1. s \in Seq(Text) /\ Len(s) \in Nat /\ Len(t) \in Nat
  BY DEF Ends
<1>2. /\ SubSeq(s, n + 1, Len(s)) \in Seq(Text)
      /\ Len(SubSeq(s, n + 1, Len(s))) = Len(s) - n
      /\ \A k \in 1..(Len(s) - n) : SubSeq(s, n + 1, Len(s))[k] = s[n + k]
  BY <1>1
<1>3. Len(s) <= Len(t) /\ \A k \in 1..Len(s) : s[k] = t[Len(t) - Len(s) + k]
  BY DEF Ends
<1>4. ASSUME NEW k \in 1..(Len(s) - n)
      PROVE  s[n + k] = t[Len(t) - (Len(s) - n) + k]
  <2>1. /\ n + k \in 1..Len(s)
        /\ Len(t) - Len(s) + (n + k) = Len(t) - (Len(s) - n) + k
    BY <1>1
  <2> QED BY <2>1, <1>3
<1>5. Len(s) - n <= Len(t)
  BY <1>1, <1>3
<1> QED BY <1>2, <1>4, <1>5 DEF Ends

(***************************************************************************)
(* A cut that starts a message is at the start of one of the two.          *)
(***************************************************************************)
LEMMA StartIsAMessage ==
  ASSUME NameIsPlain, NEW p \in Names, NEW i \in Nat, i + 3 <= Len(SentTwice(p)),
         StartsMessage(SentTwice(p), i)
  PROVE  i = 0 \/ i = Len(NameMessage(p))
<1> DEFINE L == Len(NameMessage(p))
<1>1. /\ L = Len(p) + 3 /\ Len(p) \in Nat /\ L \in Nat
      /\ NameMessage(p)[1] = "PLAYER" /\ NameMessage(p)[2] = "NAME" /\ NameMessage(p)[3] = ":"
      /\ \A k \in 1..Len(p) : NameMessage(p)[k + 3] = p[k]
  BY NameMessageIs DEF StartsMessage
<1>2. Len(SentTwice(p)) = L + L
      /\ \A k \in 1..L : /\ SentTwice(p)[k] = NameMessage(p)[k]
                          /\ SentTwice(p)[L + k] = NameMessage(p)[k]
  <2>1. L \in Nat
    BY <1>1
  <2> QED BY ONLY <2>1, p \in Names, SentTwiceIs
<1> HIDE DEF L
<1>3. ASSUME NEW j \in Nat, j + 3 <= L, StartsMessage(NameMessage(p), j)
      PROVE  j = 0
  <2>1. j # 1 /\ j # 2
    BY <1>1, <1>3 DEF StartsMessage
  <2>2. ASSUME j >= 3 PROVE FALSE
    <3>1. /\ j - 3 \in Nat /\ (j - 3) + 3 <= Len(p)
      BY <1>1, <1>3, <2>2
    <3>2. \A k \in 1..3 : NameMessage(p)[j + k] = p[(j - 3) + k]
      <4> TAKE k \in 1..3
      <4>1. (j - 3) + k \in 1..Len(p) /\ ((j - 3) + k) + 3 = j + k
        BY <3>1, <1>1
      <4> QED BY <4>1, <1>1
    <3>3. StartsMessage(p, j - 3)
      BY <3>2, <1>3 DEF StartsMessage
    <3> QED BY <3>1, <3>3 DEF NameIsPlain
  <2> QED BY <2>1, <2>2
<1>4. CASE i + 3 <= L
  <2>1. StartsMessage(NameMessage(p), i)
    BY <1>1, <1>2, <1>4 DEF StartsMessage
  <2> QED BY <2>1, <1>3, <1>4
<1>5. CASE i < L /\ i + 3 > L
  <2>1. i + 1 = L \/ i + 2 = L
    BY <1>1, <1>5
  <2>2. SentTwice(p)[L + 1] = "PLAYER"
    BY <1>1, <1>2
  <2> QED BY <2>1, <2>2, <1>1 DEF StartsMessage
<1>6. CASE i >= L
  <2>1. i - L \in Nat /\ (i - L) + 3 <= L
    BY <1>1, <1>2, <1>6
  <2>2. \A k \in 1..3 : SentTwice(p)[i + k] = NameMessage(p)[(i - L) + k]
    <3> TAKE k \in 1..3
    <3>1. (i - L) + k \in 1..L /\ L + ((i - L) + k) = i + k
      BY <2>1, <1>1
    <3> QED BY <3>1, <1>2
  <2>3. StartsMessage(NameMessage(p), i - L)
    BY <2>2 DEF StartsMessage
  <2>4. i - L = 0
    BY <2>1, <2>3, <1>3
  <2> QED BY <2>4, <1>1 DEF L
<1> QED BY <1>1, <1>4, <1>5, <1>6

(***************************************************************************)
(* What the server takes for the name is the name as far as both go.       *)
(***************************************************************************)
LEMMA ContentAgrees ==
  ASSUME NameIsPlain, NEW p \in Names, NEW s, Ends(s, SentTwice(p)), NEW n \in 1..Len(s),
         NEW k \in 1..n, HasColonAt(SubSeq(s, 1, n), k),
         SubSeq(SubSeq(s, 1, n), 1, k - 1) = <<"PLAYER", "NAME">>
  PROVE  Agree(Content(SubSeq(s, 1, n), k), p)
<1> DEFINE m == SubSeq(s, 1, n)
           L == Len(NameMessage(p))
           e == Len(SentTwice(p)) - Len(s)
<1>1. /\ L = Len(p) + 3 /\ Len(p) \in Nat
      /\ \A j \in 1..Len(p) : NameMessage(p)[j + 3] = p[j]
  BY NameMessageIs
<1>2. /\ Len(SentTwice(p)) = L + L
      /\ \A j \in 1..L : /\ SentTwice(p)[j] = NameMessage(p)[j]
                          /\ SentTwice(p)[L + j] = NameMessage(p)[j]
  BY <1>1, SentTwiceIs
<1>3. /\ s \in Seq(Text) /\ Len(s) \in Nat /\ e \in Nat /\ e + Len(s) = L + L
      /\ \A j \in 1..Len(s) : s[j] = SentTwice(p)[e + j]
  BY <1>1, <1>2 DEF Ends
<1> HIDE DEF L, e
<1>4. m \in Seq(Text) /\ Len(m) = n /\ \A j \in 1..n : m[j] = s[j]
  BY <1>3
<1>5. /\ m[k] = ":" /\ SubSeq(m, 1, k - 1) = <<"PLAYER", "NAME">>
  BY DEF HasColonAt
<1> HIDE DEF m
<1>6. k = 3 /\ m[1] = "PLAYER" /\ m[2] = "NAME"
  <2>1. /\ Len(SubSeq(m, 1, k - 1)) = k - 1
        /\ \A j \in 1..(k - 1) : SubSeq(m, 1, k - 1)[j] = m[j]
    <3>1. k - 1 \in 0..n
      OBVIOUS
    <3> HIDE DEF m
    <3> QED BY <3>1, <1>4
  <2>2. Len(<<"PLAYER", "NAME">>) = 2 /\ <<"PLAYER", "NAME">>[1] = "PLAYER"
        /\ <<"PLAYER", "NAME">>[2] = "NAME"
    OBVIOUS
  <2>3. k = 3
    <3>1. Len(SubSeq(m, 1, k - 1)) = 2
      BY <2>2, <1>5
    <3>2. k - 1 = 2 /\ k \in Int
      BY <2>1, <3>1
    <3> QED BY <3>2
  <2>4. 1 \in 1..(k - 1) /\ 2 \in 1..(k - 1)
    BY <2>3
  <2> QED BY <2>1, <2>2, <2>3, <2>4, <1>5
<1>7. n >= 3 /\ e + 3 <= Len(SentTwice(p)) /\ StartsMessage(SentTwice(p), e)
  BY <1>2, <1>3, <1>4, <1>5, <1>6 DEF StartsMessage
<1>8. e = 0 \/ e = L
  BY <1>3, <1>7, StartIsAMessage DEF L
<1>9. Content(m, k) \in Seq(Text) /\ Len(Content(m, k)) = n - 3
      /\ \A j \in 1..(n - 3) : Content(m, k)[j] = m[j + 3]
  BY <1>4, <1>6, <1>7 DEF Content
<1>10. ASSUME NEW j \in 1..(n - 3), j <= Len(p)
       PROVE  m[j + 3] = p[j]
  <2>1. m[j + 3] = SentTwice(p)[e + (j + 3)]
    <3>1. j + 3 \in 1..n /\ j + 3 \in 1..Len(s)
      BY <1>3
    <3> QED BY <3>1, <1>3, <1>4
  <2>2. j \in 1..Len(p) /\ j + 3 \in 1..L
    BY <1>1, <1>10
  <2>3. SentTwice(p)[e + (j + 3)] = NameMessage(p)[j + 3]
    <3>1. 0 + (j + 3) = j + 3
      OBVIOUS
    <3> QED BY <3>1, <2>2, <1>2, <1>8
  <2> QED BY <2>1, <2>2, <2>3, <1>1
<1> QED BY <1>9, <1>10 DEF Agree, m

LEMMA TellNameKeeps ==
  ASSUME NEW p \in Names, NEW s, Ends(s, NameMessage(p)),
         up = s, TellName(p)
  PROVE  Ends(up', SentTwice(p))
<1>1. up' = s \/ up' = s \o NameMessage(p)
  BY DEF TellName
<1> QED BY <1>1, EndsTwice

LEMMA NamesAreNot == \A n \in Names : n # <<>> /\ n \in Seq(Text)
<1>1. Names \subseteq Seq(Characters) \ {<<>>}
  BY RelayAssumption DEF Names
<1>2. Seq(Characters) \subseteq Seq(Text)
  BY DEF Text
<1> QED BY <1>1, <1>2

LEMMA NothingUp ==
  ASSUME NEW p \in Names
  PROVE  Ends(<<>>, NameMessage(p)) /\ Ends(<<>>, SentTwice(p))
BY NameMessageIs, SentTwiceIs, EndsEmpty

(***************************************************************************)
(* In step, what the listener has just processed is not garbage.           *)
(***************************************************************************)
LEMMA ReadAppends ==
  ASSUME ConsoleInv, ReadStep, processed' # processed, ~shortRead'
  PROVE  processed'[Len(processed')] # 0
<1>1. ConsoleInv'
  BY ReadKeeps
<1>2. \A k \in 1..Len(processed') : processed'[k] = k
  BY <1>1 DEF ConsoleInv, InStep
<1>3. PICK i \in 0..N : processed' = Append(processed, i)
  <2>1. Chunk \subseteq 0..N /\ 0 \in 0..N
    BY LayoutAssumption DEF Chunk
  <2> QED BY <2>1 DEF ReadStep, ReadHeader, ReadBody, ReadGarbage, ReadOverruns
<1>4. Len(processed') = Len(processed) + 1 /\ Len(processed) \in Nat
  BY <1>3 DEF ConsoleInv, ConsoleTypeOK
<1>5. Len(processed') \in 1..Len(processed') /\ Len(processed') # 0
  BY <1>4
<1> QED BY <1>2, <1>5

LEMMA ShortReadStays == ASSUME ReadStep, shortRead PROVE shortRead'
BY DEF ReadStep, ReadHeader, ReadBody, ReadGarbage, ReadOverruns

LEMMA NameNext ==
  ASSUME NameIsPlain, ConsoleInv, NameInv, [RelayNext]_vars
  PROVE  NameInv'
<1> USE NamesAreNot
<1>1. \A n \in Names : NameMessage(n) \in Seq(Text) /\ SentTwice(n) \in Seq(Text)
  BY NameMessageIs, SentTwiceIs
<1>2. CASE LinkCloses
  <2>1. up' = <<>> /\ serverName' = <<>> /\ UNCHANGED <<name, shortRead>>
    BY <1>2 DEF LinkCloses, consoleVars, readVars
  <2>2. Agree(<<>>, name)
    BY DEF Agree
  <2>3. UpInv'
    <3>1. name' \in Names \cup {<<>>} /\ up' = <<>>
      BY <2>1 DEF NameInv, UpInv
    <3> QED BY <3>1, NothingUp DEF UpInv
  <2> QED BY <2>1, <2>2, <2>3 DEF NameInv, NameIsThePlayers
<1>3. CASE Greet
  <2>1. /\ greeting /\ ~greeting' /\ UNCHANGED <<linked, name, serverName, shortRead>>
        /\ IF name # <<>> THEN TellName(name) ELSE UNCHANGED up
    BY <1>3 DEF Greet, consoleVars, readVars
  <2>2. CASE name # <<>>
    <3>1. name \in Names /\ Ends(up, NameMessage(name))
      BY <2>1, <2>2 DEF NameInv, UpInv
    <3>2. Ends(up', SentTwice(name))
      BY <2>1, <2>2, <3>1, TellNameKeeps
    <3>3. ~linked => up' = <<>>
      BY <2>1, <2>2 DEF TellName, NameInv, UpInv
    <3> QED BY <2>1, <2>2, <3>2, <3>3 DEF NameInv, UpInv, NameIsThePlayers
  <2>3. CASE name = <<>>
    BY <2>1, <2>3 DEF NameInv, UpInv, NameIsThePlayers
  <2> QED BY <2>2, <2>3
<1>4. CASE ReadConsole
  <2>1. HandlePRNT /\ ReadStep /\ UNCHANGED <<linked, greeting, serverName>>
    BY <1>4 DEF ReadConsole
  <2>2. ~shortRead' => ~shortRead
    BY <2>1, ShortReadStays
  <2>3. CASE processed' # processed /\ name = <<>>
    <3>1. PICK n \in NamesIn(processed'[Len(processed')]) :
            /\ name' = n
            /\ IF n # <<>> THEN TellName(n) ELSE UNCHANGED up
      BY <2>1, <2>3 DEF HandlePRNT
    <3>2. up = <<>> /\ serverName = <<>>
      BY <2>3 DEF NameInv, UpInv, NameIsThePlayers
    <3>3. n \in Names \cup {<<>>}
      BY <3>1, NamesAreIn
    <3>4. ~shortRead' => n \in {<<>>, PlayerName}
      BY <2>1, <2>3, <3>1, ReadAppends DEF NamesIn
    <3>5. NameIsThePlayers'
      BY <2>1, <3>1, <3>2, <3>4 DEF NameIsThePlayers, Agree
    <3>6. UpInv'
      <4>1. CASE n = <<>>
        <5>1. name' \in Names \cup {<<>>} /\ up' = <<>>
          BY <3>1, <3>2, <4>1
        <5> QED BY <5>1, NothingUp DEF UpInv
      <4>2. CASE n # <<>>
        <5>1. n \in Names /\ TellName(n)
          BY <3>1, <3>3, <4>2
        <5>2. up' = <<>> \/ up' = NameMessage(n)
          BY <3>2, <5>1, <1>1 DEF TellName
        <5>3. Ends(NameMessage(n), NameMessage(n))
          BY <5>1, <1>1 DEF Ends
        <5>4. Ends(up', NameMessage(n))
          BY <5>1, <5>2, <5>3, <1>1, EndsEmpty
        <5>5. Ends(up', SentTwice(n))
          BY <5>1, <5>4, EndsTwice
        <5>6. ~linked => up' = <<>>
          BY <3>2, <5>1 DEF TellName
        <5> QED BY <2>1, <3>1, <4>2, <5>1, <5>4, <5>5, <5>6 DEF UpInv
      <4> QED BY <4>1, <4>2
    <3> QED BY <3>5, <3>6 DEF NameInv
  <2>4. CASE ~(processed' # processed /\ name = <<>>)
    <3>1. UNCHANGED <<name, up>>
      BY <2>1, <2>4 DEF HandlePRNT
    <3> QED BY <2>1, <2>2, <3>1 DEF NameInv, UpInv, NameIsThePlayers
  <2> QED BY <2>3, <2>4
<1>5. CASE ServerReads
  <2>1. linked /\ UNCHANGED <<linked, greeting, name, shortRead>>
    BY <1>5 DEF ServerReads, consoleVars, readVars
  <2>2. PICK n \in 1..Len(up) :
          LET message == SubSeq(up, 1, n)
          IN  /\ up' = SubSeq(up, n + 1, Len(up))
              /\ IF \E k \in 1..n :
                      /\ HasColonAt(message, k)
                      /\ SubSeq(message, 1, k - 1) = <<"PLAYER", "NAME">>
                 THEN \E k \in 1..n : /\ HasColonAt(message, k)
                                      /\ serverName' = Content(message, k)
                 ELSE UNCHANGED serverName
    BY <1>5 DEF ServerReads
  <2>3. name \in Names /\ Ends(up, SentTwice(name))
    <3>1. up # <<>>
      BY <2>2
    <3> QED BY <3>1 DEF NameInv, UpInv
  <2>4. Ends(up', SentTwice(name))
    BY <2>2, <2>3, <1>1, EndsCut
  <2>5. greeting => Ends(up', NameMessage(name))
    BY <2>2, <2>3, <1>1, EndsCut DEF NameInv, UpInv
  <2>6. UpInv'
    BY <2>1, <2>3, <2>4, <2>5 DEF UpInv
  <2>7. Agree(serverName', name)
    <3>1. CASE UNCHANGED serverName
      BY <3>1 DEF NameInv, NameIsThePlayers
    <3>2. CASE \E k \in 1..n :
                 /\ HasColonAt(SubSeq(up, 1, n), k)
                 /\ SubSeq(SubSeq(up, 1, n), 1, k - 1) = <<"PLAYER", "NAME">>
      <4>1. PICK k \in 1..n :
              /\ HasColonAt(SubSeq(up, 1, n), k)
              /\ SubSeq(SubSeq(up, 1, n), 1, k - 1) = <<"PLAYER", "NAME">>
        BY <3>2
      <4>2. PICK j \in 1..n :
              /\ HasColonAt(SubSeq(up, 1, n), j)
              /\ serverName' = Content(SubSeq(up, 1, n), j)
        BY <2>2, <3>2
      <4>3. j = k
        BY <4>1, <4>2 DEF HasColonAt
      <4> QED BY <4>1, <4>2, <4>3, <2>3, ContentAgrees
    <3> QED BY <2>2, <3>1, <3>2
  <2>8. NameIsThePlayers'
    BY <2>1, <2>3, <2>7 DEF NameInv, NameIsThePlayers
  <2> QED BY <2>6, <2>8 DEF NameInv
<1>6. CASE LinkOpens
  <2>1. UNCHANGED <<name, up, serverName, shortRead>> /\ ~linked
    BY <1>6 DEF LinkOpens, consoleVars, readVars
  <2>2. name' \in Names \cup {<<>>} /\ up' = <<>>
    BY <2>1 DEF NameInv, UpInv
  <2>3. UpInv'
    BY <2>2, NothingUp DEF UpInv
  <2> QED BY <2>1, <2>3 DEF NameInv, NameIsThePlayers
<1>7. CASE UNCHANGED <<linked, greeting, name, up, serverName, shortRead>>
  BY <1>7 DEF NameInv, UpInv, NameIsThePlayers
<1>8. \/ UNCHANGED <<linked, greeting, name, up, serverName, shortRead>>
      \/ LinkOpens \/ LinkCloses \/ Greet \/ ReadConsole \/ ServerReads
  BY DEF RelayNext, vars, relayVars, linkVars, consoleVars, readVars, ConsoleConnects,
         ConsoleLost, ConsoleSends, TypeCommand, ServerSends, RelayCommand
<1> QED BY <1>2, <1>3, <1>4, <1>5, <1>6, <1>7, <1>8

(***************************************************************************)
(* However recv() cuts what the client sends, the server never takes       *)
(* anything for the name but the client's, cut short or run into the next  *)
(* message, as long as the name does not spell PLAYERNAME: itself; and in  *)
(* step with the console the client's name is the one it printed.          *)
(***************************************************************************)
THEOREM NameCorrect ==
  ASSUME NameIsPlain
  PROVE  RelaySpec => []NameIsThePlayers
<1>1. RelayInit => NameInv
  BY DEF RelayInit, NameInv, UpInv, NameIsThePlayers, Agree
<1>2. ConsoleInv /\ NameInv /\ [RelayNext]_vars => NameInv'
  BY NameNext
<1>3. NameInv => NameIsThePlayers
  BY DEF NameInv
<1> QED BY <1>1, <1>2, <1>3, ConsoleInvariance, PTL DEF RelaySpec
=============================================================================
