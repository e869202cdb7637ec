----------------------------- MODULE Tui_proofs -----------------------------
(***************************************************************************)
(* m_channelsMutex keeps the colour pairs together, for any number of      *)
(* threads that log, any colours, any COLOR_PAIRS, and signals wherever    *)
(* they come.                                                              *)
(***************************************************************************)
EXTENDS Tui, SequenceTheorems, TLAPS

-----------------------------------------------------------------------------
(***************************************************************************)
(* The stack of a thread: under the places of addConsoleMessage(), the     *)
(* sink and the signal handler lies the one place of a thread's own work.  *)
(***************************************************************************)
Called == {"log", "add", "push", "flag"}

base == [t \in Thread |-> IF stack[t] = <<>> THEN pc[t] ELSE stack[t][Len(stack[t])]]

Shape(t) ==
  /\ pc[t] \in Called <=> stack[t] # <<>>
  /\ \A i \in 1..Len(stack[t]) : stack[t][i] \in Called <=> i < Len(stack[t])

ControlOK ==
  /\ pc \in [Thread -> Places]
  /\ stack \in [Thread -> Seq(Places)]
  /\ \A t \in Thread : Shape(t)

OthersStay(t) ==
  \A u \in Thread \ {t} : pc'[u] = pc[u] /\ stack'[u] = stack[u]

LEMMA OthersKeep ==
  ASSUME ControlOK, NEW t \in Thread, OthersStay(t),
         pc' \in [Thread -> Places], stack' \in [Thread -> Seq(Places)], Shape(t)'
  PROVE  ControlOK' /\ \A u \in Thread \ {t} : base'[u] = base[u]
<1>1. \A u \in Thread \ {t} : Shape(u)'
  BY DEF ControlOK, Shape, OthersStay
<1>2. \A u \in Thread \ {t} : base'[u] = base[u]
  BY DEF base, OthersStay
<1> QED BY <1>1, <1>2 DEF ControlOK

LEMMA GotoPlace ==
  ASSUME ControlOK, NEW t \in Thread, NEW place \in Places,
         pc[t] \in Called <=> place \in Called, Goto(t, place)
  PROVE  /\ ControlOK'
         /\ \A u \in Thread \ {t} : base'[u] = base[u]
         /\ base'[t] = IF place \in Called THEN base[t] ELSE place
         /\ pc'[t] = place /\ stack' = stack /\ OthersStay(t)
<1>1. /\ pc' \in [Thread -> Places] /\ stack' \in [Thread -> Seq(Places)]
      /\ stack' = stack /\ pc'[t] = place /\ OthersStay(t)
  BY DEF Goto, ControlOK, OthersStay
<1>2. Shape(t)'
  BY <1>1 DEF ControlOK, Shape
<1>3. base'[t] = IF place \in Called THEN base[t] ELSE place
  BY <1>1 DEF ControlOK, Shape, base
<1> QED BY <1>1, <1>2, <1>3, OthersKeep

LEMMA CallPlace ==
  ASSUME ControlOK, NEW t \in Thread, NEW op \in Called, NEW place \in Places \ Called,
         pc[t] \notin Called, Call(t, op, place)
  PROVE  /\ ControlOK'
         /\ \A u \in Thread \ {t} : base'[u] = base[u]
         /\ base'[t] = place
         /\ pc'[t] = op /\ OthersStay(t)
<1>1. stack[t] = <<>>
  BY DEF ControlOK, Shape
<1>2. <<place>> \o stack[t] = <<place>> /\ <<place>> \in Seq(Places)
  BY <1>1, ConcatEmptySeq
<1>3. op \in Places
  BY DEF Called, Places
<1>4. /\ pc' = [pc EXCEPT ![t] = op]
      /\ stack' = [stack EXCEPT ![t] = <<place>>]
  BY <1>2 DEF Call
<1>5. /\ pc' \in [Thread -> Places] /\ stack' \in [Thread -> Seq(Places)]
      /\ pc'[t] = op /\ stack'[t] = <<place>> /\ OthersStay(t)
  BY <1>2, <1>3, <1>4 DEF ControlOK, OthersStay
<1> DEFINE s == <<place>>
<1>6. Len(s) = 1 /\ s[1] = place /\ s # <<>> /\ stack'[t] = s
  BY <1>5
<1>7. Shape(t)'
  BY <1>5, <1>6 DEF Shape
<1>8. base'[t] = place
  <2> HIDE DEF s
  <2> QED BY <1>6 DEF base
<1> HIDE DEF s
<1> QED BY <1>5, <1>7, <1>8, OthersKeep

LEMMA ReturnPlace ==
  ASSUME ControlOK, NEW t \in Thread, pc[t] \in Called, Return(t)
  PROVE  /\ ControlOK'
         /\ \A u \in Thread : base'[u] = base[u]
         /\ pc'[t] = Head(stack[t]) /\ stack'[t] = Tail(stack[t])
         /\ OthersStay(t)
<1> DEFINE s == stack[t]
<1>1. /\ s \in Seq(Places) /\ s # <<>>
      /\ \A i \in 1..Len(s) : s[i] \in Called <=> i < Len(s)
  BY DEF ControlOK, Shape
<1>2. /\ Head(s) \in Places /\ Tail(s) \in Seq(Places)
      /\ Len(Tail(s)) = Len(s) - 1 /\ Head(s) = s[1]
      /\ \A i \in 1..Len(Tail(s)) : Tail(s)[i] = s[i + 1]
      /\ Len(s) \in Nat \ {0}
  BY <1>1, HeadTailProperties
<1>3. /\ pc' \in [Thread -> Places] /\ stack' \in [Thread -> Seq(Places)]
      /\ pc'[t] = Head(s) /\ stack'[t] = Tail(s) /\ OthersStay(t)
  BY <1>2 DEF Return, ControlOK, OthersStay
<1> HIDE DEF s
<1>4. Tail(s) = <<>> <=> Len(s) = 1
  BY <1>2
<1>5. /\ Head(s) \in Called <=> Tail(s) # <<>>
      /\ \A i \in 1..Len(Tail(s)) : Tail(s)[i] \in Called <=> i < Len(Tail(s))
  BY <1>1, <1>2, <1>4
<1>6. Shape(t)'
  BY <1>3, <1>5 DEF Shape
<1>7. base'[t] = base[t]
  <2>1. base[t] = s[Len(s)]
    BY <1>1 DEF base, s
  <2>2. base'[t] = IF Tail(s) = <<>> THEN Head(s) ELSE Tail(s)[Len(Tail(s))]
    BY <1>3 DEF base
  <2> QED BY <2>1, <2>2, <1>2, <1>4
<1> QED BY <1>3, <1>6, <1>7, OthersKeep DEF s

LEMMA SignalPlace ==
  ASSUME ControlOK, NEW t \in Thread, Signal(t)
  PROVE  /\ ControlOK'
         /\ \A u \in Thread : base'[u] = base[u]
         /\ pc'[t] = "log" /\ stack'[t] = <<"flag", pc[t]>> \o stack[t]
         /\ OthersStay(t)
<1> DEFINE s == stack[t]
           p == <<"flag", pc[t]>>
<1>1. /\ s \in Seq(Places) /\ pc[t] \in Places
      /\ pc[t] \in Called <=> s # <<>>
      /\ \A i \in 1..Len(s) : s[i] \in Called <=> i < Len(s)
  BY DEF ControlOK, Shape
<1>2. p \in Seq(Places) /\ Len(p) = 2 /\ p[1] = "flag" /\ p[2] = pc[t]
  BY <1>1 DEF Places
<1>3. /\ p \o s \in Seq(Places) /\ Len(p \o s) = 2 + Len(s)
      /\ \A i \in 1..2 + Len(s) : (p \o s)[i] = IF i <= 2 THEN p[i] ELSE s[i - 2]
      /\ Len(s) \in Nat
  <2> HIDE DEF p, s
  <2>1. s \in Seq(Places) /\ p \in Seq(Places)
    BY <1>1, <1>2
  <2>2. /\ p \o s \in Seq(Places) /\ Len(p \o s) = Len(p) + Len(s)
        /\ \A i \in 1..Len(p) + Len(s) :
              (p \o s)[i] = IF i <= Len(p) THEN p[i] ELSE s[i - Len(p)]
    BY <2>1, ConcatProperties, Zenon
  <2> QED BY <2>1, <2>2, <1>2
<1>4. /\ pc' = [pc EXCEPT ![t] = "log"] /\ stack' = [stack EXCEPT ![t] = p \o s]
  BY DEF Signal
<1>5. /\ pc' \in [Thread -> Places] /\ stack' \in [Thread -> Seq(Places)]
      /\ pc'[t] = "log" /\ stack'[t] = p \o s /\ OthersStay(t)
  <2> DEFINE q == p \o s
  <2> HIDE DEF p, s
  <2>1. q \in Seq(Places) /\ stack' = [stack EXCEPT ![t] = q]
    BY <1>3, <1>4
  <2> HIDE DEF q
  <2>2. "log" \in Places
    BY DEF Places
  <2>3. /\ pc' \in [Thread -> Places] /\ stack' \in [Thread -> Seq(Places)]
        /\ pc'[t] = "log" /\ stack'[t] = q /\ OthersStay(t)
    BY <1>4, <2>1, <2>2 DEF ControlOK, OthersStay
  <2> QED BY <2>3 DEF q
<1>6. s = <<>> <=> Len(s) = 0
  BY <1>1
<1> HIDE DEF p, s
<1>7. p \o s # <<>> /\ \A i \in 1..Len(p \o s) : (p \o s)[i] \in Called <=> i < Len(p \o s)
  <2>1. p \o s # <<>>
    BY <1>3
  <2>2. ASSUME NEW i \in 1..2 + Len(s)
        PROVE  (p \o s)[i] \in Called <=> i < 2 + Len(s)
    <3>1. CASE i = 1
      BY <3>1, <1>2, <1>3 DEF Called
    <3>2. CASE i = 2
      BY <3>2, <1>1, <1>2, <1>3, <1>6
    <3>3. CASE i > 2
      <4>1. i - 2 \in 1..Len(s) /\ (p \o s)[i] = s[i - 2]
        BY <3>3, <1>3
      <4>2. i - 2 < Len(s) <=> i < 2 + Len(s)
        BY <1>3
      <4> QED BY <4>1, <4>2, <1>1
    <3> QED BY <3>1, <3>2, <3>3, <1>3
  <2> QED BY <2>1, <2>2, <1>3
<1>8. Shape(t)'
  BY <1>5, <1>7 DEF Shape, Called
<1>9. base'[t] = base[t]
  <2>1. base'[t] = (p \o s)[2 + Len(s)]
    BY <1>3, <1>5, <1>7 DEF base
  <2>2. base[t] = IF s = <<>> THEN pc[t] ELSE s[Len(s)]
    BY DEF base, s
  <2> QED BY <2>1, <2>2, <1>2, <1>3, <1>6
<1> QED BY <1>5, <1>8, <1>9, OthersKeep DEF p, s

-----------------------------------------------------------------------------
(***************************************************************************)
(* The inductive invariant.  Who is at one of the Locked places holds      *)
(* m_channelsMutex; a thread that a signal finds with a pair in its hands  *)
(* comes back to it with the same colour; and every pair handed out is in  *)
(* the cache, or in the hands of the one thread that may cache it, until   *)
(* the positive numbers ran out.                                           *)
(***************************************************************************)
DataOK ==
  /\ running \in BOOLEAN /\ signalled \in BOOLEAN
  /\ colour \in [Thread -> Colours \cup {NoColour}]
  /\ pairId \in [Thread -> Shorts \cup {NoPair}]
  /\ consoleMutex \in Thread \cup {NoThread}
  /\ channelsMutex \in Thread \cup {NoThread}
  /\ sinkMutex \in Thread \cup {NoThread}
  /\ messages \in Seq(Colours \cup {NoColour}) /\ Len(messages) <= MaxMessages
  /\ unshown \in BOOLEAN /\ dirty \in BOOLEAN
  /\ scrollPosition \in Nat /\ needsResize \in BOOLEAN
  /\ cache \in [Colours -> Shorts \cup {NoPair}]
  /\ nextPair \in Shorts

Locked == {"choose", "cache", "store", "paint"}

HoldsChannels == \A t \in Thread : channelsMutex = t <=> base[t] \in Locked

AtCache(t) ==
  base[t] = "cache" =>
    /\ \/ stack[t] = <<>>
       \/ /\ signalled /\ pc[t] \in {"log", "add", "push"}
          /\ stack[t] = <<"flag", "cache">>
       \/ signalled /\ pc[t] = "flag" /\ stack[t] = <<"cache">>
    /\ pc[t] \in {"add", "push"} => sinkMutex = t

Pending(t) ==
  /\ pairId[t] # NoPair <=> base[t] = "cache"
  /\ base[t] = "cache" => colour[t] \in Colours /\ ~Cached(colour[t])

HandedOut(p) == (\E c \in Colours : cache[c] = p) \/ (\E t \in Thread : pairId[t] = p)

InOrder ==
  /\ nextPair >= 2
  /\ \A c \in Colours : Cached(c) => cache[c] \in 2..nextPair - 1
  /\ \A c, d \in Colours : Cached(c) /\ cache[c] = cache[d] => c = d
  /\ \A t \in Thread : pairId[t] # NoPair =>
        pairId[t] \in 2..nextPair - 1 /\ \A c \in Colours : cache[c] # pairId[t]
  /\ \A p \in 2..nextPair - 1 : HandedOut(p)

RanOut == \A p \in 2..MaxShort : HandedOut(p)

PairsOK == InOrder \/ RanOut

IInv ==
  /\ ControlOK /\ DataOK /\ HoldsChannels /\ PairsOK
  /\ \A t \in Thread : AtCache(t) /\ Pending(t)

(***************************************************************************)
(* What a step of one thread leaves to the others.                         *)
(***************************************************************************)
Others(t) ==
  /\ OthersStay(t)
  /\ signalled => signalled'
  /\ \A u \in Thread \ {t} :
        /\ base'[u] = base[u]
        /\ colour'[u] = colour[u]
        /\ pairId'[u] = pairId[u]
        /\ sinkMutex = u => sinkMutex' = u

LEMMA OthersAtCache ==
  ASSUME IInv, NEW t \in Thread, Others(t)
  PROVE  \A u \in Thread \ {t} : AtCache(u)'
BY DEF IInv, Others, OthersStay, AtCache

LEMMA HoldsSame ==
  ASSUME HoldsChannels, NEW t \in Thread, Others(t), channelsMutex' = channelsMutex,
         base'[t] \in Locked <=> base[t] \in Locked
  PROVE  HoldsChannels'
BY DEF HoldsChannels, Others

LEMMA HoldsTaken ==
  ASSUME HoldsChannels, NEW t \in Thread, Others(t),
         channelsMutex = NoThread, channelsMutex' = t, base'[t] \in Locked
  PROVE  HoldsChannels'
BY ConstantsAssumption DEF HoldsChannels, Others

LEMMA HoldsFreed ==
  ASSUME HoldsChannels, NEW t \in Thread, Others(t),
         base[t] \in Locked, channelsMutex' = NoThread, base'[t] \notin Locked
  PROVE  HoldsChannels'
BY ConstantsAssumption DEF HoldsChannels, Others

(***************************************************************************)
(* A step that hands out no pair and caches none.                          *)
(***************************************************************************)
LEMMA PairsUnchanged ==
  ASSUME PairsOK, UNCHANGED <<palette, pairId>>
  PROVE  PairsOK'
BY DEF PairsOK, InOrder, RanOut, HandedOut, palette, Cached

LEMMA PlainKeeps ==
  ASSUME IInv, NEW t \in Thread, ControlOK', DataOK', HoldsChannels', Others(t),
         UNCHANGED <<palette, pairId>>, base[t] # "cache", base'[t] # "cache"
  PROVE  IInv'
<1>1. PairsOK'
  BY PairsUnchanged DEF IInv
<1>2. \A u \in Thread : AtCache(u)'
  BY OthersAtCache DEF AtCache
<1>3. \A u \in Thread : Pending(u)'
  BY DEF IInv, Pending, Others, palette, Cached
<1> QED BY <1>1, <1>2, <1>3 DEF IInv

LEMMA CalledKeeps ==
  ASSUME IInv, NEW t \in Thread, ControlOK', DataOK', Others(t),
         UNCHANGED <<palette, pairId, channelsMutex>>, base'[t] = base[t], AtCache(t)',
         base[t] = "cache" => colour'[t] = colour[t]
  PROVE  IInv'
<1>1. PairsOK' /\ HoldsChannels'
  BY PairsUnchanged, HoldsSame DEF IInv
<1>2. \A u \in Thread : AtCache(u)'
  BY OthersAtCache
<1>3. \A u \in Thread : Pending(u)'
  BY DEF IInv, Pending, Others, palette, Cached
<1> QED BY <1>1, <1>2, <1>3 DEF IInv

-----------------------------------------------------------------------------
(***************************************************************************)
(* Adding a message, and the signal handler: what they do with a pair in   *)
(* the hands of the thread below.                                          *)
(***************************************************************************)
LEMMA BaseIsPc ==
  ASSUME ControlOK, NEW t \in Thread, pc[t] \notin Called
  PROVE  base[t] = pc[t] /\ stack[t] = <<>>
BY DEF ControlOK, Shape, base

LEMMA CalledHasStack ==
  ASSUME ControlOK, NEW t \in Thread, pc[t] \in Called
  PROVE  stack[t] # <<>> /\ stack[t] \in Seq(Places)
BY DEF ControlOK, Shape

LEMMA LockSinkKeeps ==
  ASSUME IInv, NEW t \in Thread, LockSink(t)
  PROVE  IInv'
<1>1. /\ pc[t] = "log" /\ sinkMutex = NoThread /\ sinkMutex' = t /\ Goto(t, "add")
      /\ UNCHANGED <<control, locals, consoleMutex, channelsMutex, console, palette>>
  BY DEF LockSink
<1>2. /\ ControlOK' /\ \A u \in Thread \ {t} : base'[u] = base[u]
      /\ base'[t] = base[t] /\ pc'[t] = "add" /\ stack' = stack /\ OthersStay(t)
  BY <1>1, GotoPlace DEF IInv, Called, Places
<1>3. DataOK'
  BY <1>1 DEF IInv, DataOK, control, locals, console, palette, screen
<1>4. Others(t)
  BY <1>1, <1>2, ConstantsAssumption DEF Others, control, locals
<1>5. AtCache(t)'
  BY <1>1, <1>2, CalledHasStack DEF IInv, AtCache, Called, control
<1> QED BY <1>1, <1>2, <1>3, <1>4, <1>5, CalledKeeps DEF locals

LEMMA LockConsoleKeeps ==
  ASSUME IInv, NEW t \in Thread, LockConsole(t)
  PROVE  IInv'
<1>1. /\ pc[t] = "add" /\ consoleMutex' = t /\ Goto(t, "push")
      /\ UNCHANGED <<control, locals, channelsMutex, sinkMutex, console, palette>>
  BY DEF LockConsole
<1>2. /\ ControlOK' /\ \A u \in Thread \ {t} : base'[u] = base[u]
      /\ base'[t] = base[t] /\ pc'[t] = "push" /\ stack' = stack /\ OthersStay(t)
  BY <1>1, GotoPlace DEF IInv, Called, Places
<1>3. DataOK'
  BY <1>1 DEF IInv, DataOK, control, locals, console, palette, screen
<1>4. Others(t)
  BY <1>1, <1>2 DEF Others, control, locals
<1>5. AtCache(t)'
  BY <1>1, <1>2, CalledHasStack DEF IInv, AtCache, Called, control
<1> QED BY <1>1, <1>2, <1>3, <1>4, <1>5, CalledKeeps DEF locals

LEMMA TrimmedFits ==
  ASSUME DataOK, NEW c \in Colours \cup {NoColour}
  PROVE  /\ Trimmed(Append(messages, c)) \in Seq(Colours \cup {NoColour})
         /\ Len(Trimmed(Append(messages, c))) <= MaxMessages
<1> DEFINE S == Colours \cup {NoColour}
           s == Append(messages, c)
<1>1. s \in Seq(S) /\ Len(s) = Len(messages) + 1 /\ Len(messages) \in Nat
      /\ s # <<>> /\ Len(messages) <= MaxMessages
  <2>1. messages \in Seq(S) /\ Len(messages) <= MaxMessages
    BY DEF DataOK
  <2> QED BY <2>1
<1> HIDE DEF s, S
<1>2. Tail(s) \in Seq(S) /\ Len(Tail(s)) = Len(s) - 1
  BY <1>1, HeadTailProperties
<1>3. Trimmed(s) \in Seq(S) /\ Len(Trimmed(s)) <= MaxMessages
  BY <1>1, <1>2, ConstantsAssumption DEF Trimmed
<1> QED BY <1>3 DEF s, S

LEMMA PushKeeps ==
  ASSUME IInv, NEW t \in Thread, Push(t)
  PROVE  IInv'
<1> DEFINE c == IF sinkMutex = t THEN NoColour ELSE colour[t]
<1>1. /\ pc[t] = "push" /\ Return(t)
      /\ messages' = Trimmed(Append(messages, c))
      /\ unshown' = TRUE /\ dirty' = TRUE
      /\ consoleMutex' = NoThread
      /\ sinkMutex' = IF sinkMutex = t THEN NoThread ELSE sinkMutex
      /\ colour' = IF sinkMutex = t THEN colour ELSE Forget(t)
      /\ UNCHANGED <<control, pairId, channelsMutex, screen, palette>>
  BY DEF Push
<1>2. /\ ControlOK' /\ \A u \in Thread : base'[u] = base[u]
      /\ pc'[t] = Head(stack[t]) /\ stack'[t] = Tail(stack[t]) /\ OthersStay(t)
  BY <1>1, ReturnPlace DEF IInv, Called
<1>3. DataOK'
  <2>1. c \in Colours \cup {NoColour}
    BY DEF IInv, DataOK
  <2> HIDE DEF c
  <2>2. messages' \in Seq(Colours \cup {NoColour}) /\ Len(messages') <= MaxMessages
    BY <1>1, <2>1, TrimmedFits DEF IInv
  <2>3. colour' \in [Thread -> Colours \cup {NoColour}]
    BY <1>1 DEF IInv, DataOK, Forget
  <2> QED BY <1>1, <2>2, <2>3 DEF IInv, DataOK, control, screen, palette
<1>4. Others(t)
  BY <1>1, <1>2 DEF IInv, DataOK, Others, control, Forget
<1>5. ASSUME base[t] = "cache"
      PROVE  /\ colour' = colour
             /\ signalled /\ pc'[t] = "flag" /\ stack'[t] = <<"cache">>
  <2>1. sinkMutex = t /\ signalled /\ stack[t] = <<"flag", "cache">>
    BY <1>1, <1>5, CalledHasStack DEF IInv, AtCache, Called
  <2> QED BY <1>1, <1>2, <2>1
<1>6. AtCache(t)'
  BY <1>1, <1>2, <1>5 DEF AtCache, control
<1> QED BY <1>1, <1>2, <1>3, <1>4, <1>5, <1>6, CalledKeeps

LEMMA ClearFlagsKeeps ==
  ASSUME IInv, NEW t \in Thread, ClearFlags(t)
  PROVE  IInv'
<1>1. /\ pc[t] = "flag" /\ running' = FALSE /\ Return(t)
      /\ UNCHANGED <<signalled, locals, mutexes, console, palette>>
  BY DEF ClearFlags
<1>2. /\ ControlOK' /\ \A u \in Thread : base'[u] = base[u]
      /\ pc'[t] = Head(stack[t]) /\ stack'[t] = Tail(stack[t]) /\ OthersStay(t)
  BY <1>1, ReturnPlace DEF IInv, Called
<1>3. DataOK'
  BY <1>1 DEF IInv, DataOK, locals, mutexes, console, palette, screen
<1>4. Others(t)
  BY <1>1, <1>2 DEF Others, locals, mutexes
<1>5. ASSUME base[t] = "cache"
      PROVE  pc'[t] = "cache" /\ stack'[t] = <<>>
  <2>1. stack[t] = <<"cache">>
    BY <1>1, <1>5, CalledHasStack DEF IInv, AtCache, Called
  <2> QED BY <1>2, <2>1
<1>6. AtCache(t)'
  BY <1>2, <1>5 DEF AtCache
<1> QED BY <1>1, <1>2, <1>3, <1>4, <1>6, CalledKeeps DEF locals, mutexes

LEMMA SignalKeeps ==
  ASSUME IInv, NEW t \in Thread, Signal(t)
  PROVE  IInv'
<1>1. /\ ~signalled /\ signalled' = TRUE
      /\ UNCHANGED <<running, locals, mutexes, console, palette>>
  BY DEF Signal
<1>2. /\ ControlOK' /\ \A u \in Thread : base'[u] = base[u]
      /\ pc'[t] = "log" /\ stack'[t] = <<"flag", pc[t]>> \o stack[t] /\ OthersStay(t)
  BY SignalPlace DEF IInv
<1>3. DataOK'
  BY <1>1 DEF IInv, DataOK, locals, mutexes, console, palette, screen
<1>4. Others(t)
  BY <1>1, <1>2 DEF Others, locals, mutexes
<1>5. ASSUME base[t] = "cache"
      PROVE  stack'[t] = <<"flag", "cache">>
  <2>1. stack[t] = <<>> /\ pc[t] = "cache"
    BY <1>1, <1>5 DEF IInv, AtCache, base
  <2>2. <<"flag", "cache">> \in Seq(Places)
    BY DEF Places
  <2>3. <<"flag", "cache">> \o <<>> = <<"flag", "cache">>
    BY <2>2, ConcatEmptySeq, Zenon
  <2> QED BY <1>2, <2>1, <2>3
<1>6. AtCache(t)'
  BY <1>1, <1>2, <1>5 DEF AtCache
<1> QED BY <1>1, <1>2, <1>3, <1>4, <1>6, CalledKeeps DEF locals, mutexes

-----------------------------------------------------------------------------
(***************************************************************************)
(* A thread at a place of its own: it goes to another, or calls the sink   *)
(* or addConsoleMessage() on its way there.                                *)
(***************************************************************************)
LEMMA MoveTo ==
  ASSUME IInv, NEW t \in Thread, NEW place \in Places \ Called, pc[t] \notin Called,
         \/ Goto(t, place)
         \/ \E op \in Called : Call(t, op, place)
  PROVE  /\ ControlOK' /\ OthersStay(t)
         /\ \A u \in Thread \ {t} : base'[u] = base[u]
         /\ base'[t] = place /\ base[t] = pc[t]
<1>1. base[t] = pc[t]
  BY BaseIsPc DEF IInv
<1>2. CASE Goto(t, place)
  BY <1>1, <1>2, GotoPlace DEF IInv
<1>3. CASE \E op \in Called : Call(t, op, place)
  BY <1>1, <1>3, CallPlace DEF IInv
<1> QED BY <1>2, <1>3

LEMMA MoveKeeps ==
  ASSUME IInv, NEW t \in Thread, NEW place \in Places \ Called, pc[t] \notin Called,
         \/ Goto(t, place)
         \/ \E op \in Called : Call(t, op, place),
         DataOK', UNCHANGED <<signalled, pairId, mutexes, palette>>,
         \A u \in Thread \ {t} : colour'[u] = colour[u],
         pc[t] # "cache", place # "cache",
         place \in Locked <=> pc[t] \in Locked
  PROVE  IInv'
<1>1. /\ ControlOK' /\ OthersStay(t)
      /\ \A u \in Thread \ {t} : base'[u] = base[u]
      /\ base'[t] = place /\ base[t] = pc[t]
  BY MoveTo
<1>2. Others(t)
  BY <1>1 DEF Others, mutexes
<1>3. HoldsChannels'
  BY <1>1, <1>2, HoldsSame DEF IInv, mutexes
<1> QED BY <1>1, <1>2, <1>3, PlainKeeps

LEMMA ThreadsNamed == Main \in Thread /\ Listener \in Thread
BY DEF Thread

LEMMA LogLineKeeps ==
  ASSUME IInv, NEW t \in Thread, LogLine(t)
  PROVE  IInv'
<1>1. DataOK'
  BY DEF LogLine, IInv, DataOK, control, locals, mutexes, console, palette, screen
<1> QED BY <1>1, MoveKeeps DEF LogLine, Called, Places, Locked, control, locals

LEMMA ReceiveKeeps ==
  ASSUME IInv, NEW c \in Colours \cup {NoColour}, OnPRNT(c) \/ OnCHAN(c)
  PROVE  IInv'
<1>1. DataOK'
  BY DEF OnPRNT, OnCHAN, IInv, DataOK, control, mutexes, console, palette, screen
<1>2. \A u \in Thread \ {Listener} : colour'[u] = colour[u]
  BY DEF OnPRNT, OnCHAN, IInv, DataOK
<1>3. CASE OnPRNT(c)
  BY <1>1, <1>2, <1>3, MoveKeeps, ThreadsNamed
     DEF OnPRNT, Called, Places, Locked, control
<1>4. CASE OnCHAN(c)
  BY <1>1, <1>2, <1>4, MoveKeeps, ThreadsNamed
     DEF OnCHAN, Called, Places, Locked, control
<1> QED BY <1>3, <1>4

(***************************************************************************)
(* The steps of the main thread that do not touch m_channelsMutex.         *)
(***************************************************************************)
LEMMA ClampIsNat ==
  ASSUME NEW n \in Int, NEW high \in Nat
  PROVE  Clamp(n, high) \in Nat
BY DEF Clamp, AtLeast0

LEMMA LoopKeeps ==
  ASSUME IInv, RunLoop \/ LeaveLoop \/ NoKey \/ Resize \/ CheckDirty \/ ClearDirty
  PROVE  IInv'
<1> USE ThreadsNamed DEF Called, Places, Locked, control, locals, console, screen
<1>1. DataOK'
  BY DEF RunLoop, LeaveLoop, NoKey, Resize, CheckDirty, ClearDirty, IInv, DataOK,
         mutexes, palette
<1>2. CASE RunLoop
  BY <1>1, <1>2, MoveKeeps DEF RunLoop
<1>3. CASE LeaveLoop
  BY <1>1, <1>3, MoveKeeps DEF LeaveLoop
<1>4. CASE NoKey
  BY <1>1, <1>4, MoveKeeps DEF NoKey
<1>5. CASE Resize
  BY <1>1, <1>5, MoveKeeps DEF Resize
<1>6. CASE CheckDirty
  BY <1>1, <1>6, MoveKeeps DEF CheckDirty
<1>7. CASE ClearDirty
  BY <1>1, <1>7, MoveKeeps DEF ClearDirty
<1> QED BY <1>2, <1>3, <1>4, <1>5, <1>6, <1>7

LEMMA ScrollKeeps ==
  ASSUME IInv, NEW lines \in {Height, -Height}, ScrollConsole(lines)
  PROVE  IInv'
<1>1. scrollPosition' \in Nat
  <2>1. PICK size \in SizesRead :
          scrollPosition' = Clamp(scrollPosition + lines, AtLeast0(size - Height))
    BY DEF ScrollConsole
  <2>2. size \in Int /\ Height \in Nat /\ lines \in Int /\ scrollPosition \in Nat
    BY ConstantsAssumption DEF SizesRead, IInv, DataOK
  <2>3. AtLeast0(size - Height) \in Nat
    BY <2>2 DEF AtLeast0
  <2> QED BY <2>1, <2>2, <2>3, ClampIsNat
<1>2. DataOK'
  BY <1>1 DEF ScrollConsole, IInv, DataOK, control, locals, mutexes, palette
<1> QED BY <1>2, MoveKeeps, ThreadsNamed
        DEF ScrollConsole, Called, Places, Locked, control, locals

(***************************************************************************)
(* Enter calls addConsoleMessage(), perhaps after a line to the log.       *)
(***************************************************************************)
LEMMA EnterPlace ==
  ASSUME ControlOK, Enter
  PROVE  /\ ControlOK' /\ OthersStay(Main)
         /\ \A u \in Thread \ {Main} : base'[u] = base[u]
         /\ base'[Main] = "check" /\ base[Main] = "input"
<1>1. pc[Main] = "input" /\ stack[Main] = <<>> /\ base[Main] = "input"
  BY BaseIsPc, ThreadsNamed DEF Enter, Called
<1>2. PICK places \in {<<"add", "check">>, <<"log", "add", "check">>} :
        /\ pc' = [pc EXCEPT ![Main] = Head(places)]
        /\ stack' = [stack EXCEPT ![Main] = Tail(places) \o stack[Main]]
  BY DEF Enter
<1> DEFINE s == Tail(places)
<1>3. /\ s \in Seq(Places) /\ s # <<>> /\ Head(places) \in Places \cap Called
      /\ \A i \in 1..Len(s) : s[i] \in Called <=> i < Len(s)
      /\ s[Len(s)] = "check"
  <2>1. CASE places = <<"add", "check">>
    <3>1. s = <<"check">> /\ Head(places) = "add"
      BY <2>1
    <3>2. Len(s) = 1 /\ s[1] = "check" /\ s \in Seq(Places) /\ s # <<>>
      BY <3>1 DEF Places
    <3> HIDE DEF s
    <3> QED BY <3>1, <3>2 DEF Called, Places
  <2>2. CASE places = <<"log", "add", "check">>
    <3>1. s = <<"add", "check">> /\ Head(places) = "log"
      BY <2>2
    <3> HIDE DEF s
    <3>2. Len(s) = 2 /\ s[1] = "add" /\ s[2] = "check" /\ s \in Seq(Places) /\ s # <<>>
      <4>1. "add" \in Places /\ "check" \in Places
        BY DEF Places
      <4>2. s \in Seq(Places)
        BY <3>1, <4>1
      <4> QED BY <3>1, <4>2
    <3>3. ASSUME NEW i \in 1..2 PROVE s[i] \in Called <=> i < 2
      <4>1. CASE i = 1
        BY <3>2, <4>1 DEF Called
      <4>2. CASE i = 2
        BY <3>2, <4>2 DEF Called
      <4> QED BY <4>1, <4>2
    <3>4. Head(places) \in Places \cap Called
      BY <3>1 DEF Called, Places
    <3> QED BY <3>2, <3>3, <3>4
  <2> QED BY <2>1, <2>2
<1> HIDE DEF s
<1>4. s \o stack[Main] = s
  BY <1>1, <1>3, ConcatEmptySeq
<1>5. stack' = [stack EXCEPT ![Main] = s]
  BY <1>2, <1>4 DEF s
<1>6. /\ pc' \in [Thread -> Places] /\ stack' \in [Thread -> Seq(Places)]
      /\ pc'[Main] \in Called /\ stack'[Main] = s /\ OthersStay(Main)
  BY <1>2, <1>3, <1>5, ThreadsNamed DEF ControlOK, OthersStay
<1>7. Shape(Main)' /\ base'[Main] = "check"
  BY <1>3, <1>6, ThreadsNamed DEF Shape, base
<1> QED BY <1>1, <1>6, <1>7, OthersKeep, ThreadsNamed

LEMMA EnterKeeps ==
  ASSUME IInv, Enter
  PROVE  IInv'
<1>1. /\ ControlOK' /\ OthersStay(Main)
      /\ \A u \in Thread \ {Main} : base'[u] = base[u]
      /\ base'[Main] = "check" /\ base[Main] = "input"
  BY EnterPlace DEF IInv
<1>2. DataOK'
  BY ThreadsNamed DEF Enter, IInv, DataOK, control, mutexes, console, screen, palette
<1>3. Others(Main)
  BY <1>1 DEF Enter, IInv, DataOK, Others, control, mutexes
<1>4. HoldsChannels'
  BY <1>1, <1>3, HoldsSame, ThreadsNamed DEF Enter, IInv, Locked, mutexes
<1> QED BY <1>1, <1>2, <1>3, <1>4, PlainKeeps, ThreadsNamed DEF Enter

-----------------------------------------------------------------------------
(***************************************************************************)
(* The steps that take or release m_channelsMutex.                         *)
(***************************************************************************)
LEMMA DrawLocksConsoleKeeps ==
  ASSUME IInv, DrawLocksConsole
  PROVE  IInv'
<1>1. /\ ControlOK' /\ OthersStay(Main)
      /\ \A u \in Thread \ {Main} : base'[u] = base[u]
      /\ base'[Main] = "drawLocked" /\ base[Main] = "draw"
  BY MoveTo, ThreadsNamed DEF DrawLocksConsole, Called, Places
<1>2. DataOK'
  BY ThreadsNamed DEF DrawLocksConsole, IInv, DataOK, control, locals, console, screen, palette
<1>3. Others(Main)
  BY <1>1 DEF DrawLocksConsole, Others, control, locals
<1>4. HoldsChannels'
  BY <1>1, <1>3, HoldsSame, ThreadsNamed DEF DrawLocksConsole, IInv, Locked
<1> QED BY <1>1, <1>2, <1>3, <1>4, PlainKeeps, ThreadsNamed DEF DrawLocksConsole, locals

LEMMA DrawLocksChannelsKeeps ==
  ASSUME IInv, DrawLocksChannels
  PROVE  IInv'
<1>1. /\ ControlOK' /\ OthersStay(Main)
      /\ \A u \in Thread \ {Main} : base'[u] = base[u]
      /\ base'[Main] = "paint" /\ base[Main] = "drawLocked"
  BY MoveTo, ThreadsNamed DEF DrawLocksChannels, Called, Places
<1>2. DataOK'
  BY ThreadsNamed DEF DrawLocksChannels, IInv, DataOK, control, locals, console, screen, palette
<1>3. Others(Main)
  BY <1>1 DEF DrawLocksChannels, Others, control, locals
<1>4. HoldsChannels'
  BY <1>1, <1>3, HoldsTaken, ThreadsNamed DEF DrawLocksChannels, IInv, Locked
<1> QED BY <1>1, <1>2, <1>3, <1>4, PlainKeeps, ThreadsNamed DEF DrawLocksChannels, locals

LEMMA FinishPaintingKeeps ==
  ASSUME IInv, FinishPainting
  PROVE  IInv'
<1>1. /\ ControlOK' /\ OthersStay(Main)
      /\ \A u \in Thread \ {Main} : base'[u] = base[u]
      /\ base'[Main] = "clear" /\ base[Main] = "paint"
  BY MoveTo, ThreadsNamed DEF FinishPainting, Called, Places
<1>2. DataOK'
  BY DEF FinishPainting, IInv, DataOK, control, locals, screen, palette
<1>3. Others(Main)
  BY <1>1 DEF FinishPainting, Others, control, locals
<1>4. HoldsChannels'
  BY <1>1, <1>3, HoldsFreed, ThreadsNamed DEF FinishPainting, IInv, Locked
<1> QED BY <1>1, <1>2, <1>3, <1>4, PlainKeeps, ThreadsNamed DEF FinishPainting, locals

LEMMA LockChannelsKeeps ==
  ASSUME IInv, LockChannels
  PROVE  IInv'
<1>1. /\ ControlOK' /\ OthersStay(Listener)
      /\ \A u \in Thread \ {Listener} : base'[u] = base[u]
      /\ base'[Listener] = "choose" /\ base[Listener] = "register"
  BY MoveTo, ThreadsNamed DEF LockChannels, Called, Places
<1>2. DataOK'
  BY ThreadsNamed DEF LockChannels, IInv, DataOK, control, locals, console, screen, palette
<1>3. Others(Listener)
  BY <1>1 DEF LockChannels, Others, control, locals
<1>4. HoldsChannels'
  BY <1>1, <1>3, HoldsTaken, ThreadsNamed DEF LockChannels, IInv, Locked
<1> QED BY <1>1, <1>2, <1>3, <1>4, PlainKeeps, ThreadsNamed DEF LockChannels, locals

LEMMA StoreChannelKeeps ==
  ASSUME IInv, StoreChannel
  PROVE  IInv'
<1>1. /\ ControlOK' /\ OthersStay(Listener)
      /\ \A u \in Thread \ {Listener} : base'[u] = base[u]
      /\ base'[Listener] = "idle" /\ base[Listener] = "store"
  BY MoveTo, ThreadsNamed DEF StoreChannel, Called, Places
<1>2. DataOK'
  BY DEF StoreChannel, IInv, DataOK, control, locals, console, screen, palette
<1>3. Others(Listener)
  BY <1>1 DEF StoreChannel, Others, control, locals
<1>4. HoldsChannels'
  BY <1>1, <1>3, HoldsFreed, ThreadsNamed DEF StoreChannel, IInv, Locked
<1> QED BY <1>1, <1>2, <1>3, <1>4, PlainKeeps, ThreadsNamed DEF StoreChannel, locals

-----------------------------------------------------------------------------
(***************************************************************************)
(* The steps that hand out pairs and cache them.  A thread at a Locked     *)
(* place is the only one, so that nobody else has a pair in its hands.     *)
(***************************************************************************)
LEMMA OnlyOneAtIt ==
  ASSUME IInv, NEW t \in Thread, base[t] \in Locked
  PROVE  \A u \in Thread \ {t} : base[u] # "cache" /\ pairId[u] = NoPair
BY DEF IInv, HoldsChannels, Pending, Locked

LEMMA TakePairKeeps ==
  ASSUME IInv, NEW t \in Thread, NEW c \in Colours, pc[t] \in {"choose", "paint"},
         TakePair(t, c), UNCHANGED <<control, mutexes, console, cache>>
  PROVE  IInv'
<1>1. /\ ~Cached(c) /\ nextPair' = Incremented(nextPair) /\ Goto(t, "cache")
      /\ colour' = [colour EXCEPT ![t] = c]
      /\ pairId' = [pairId EXCEPT ![t] = nextPair]
  BY DEF TakePair
<1>2. /\ ControlOK' /\ OthersStay(t)
      /\ \A u \in Thread \ {t} : base'[u] = base[u]
      /\ base'[t] = "cache" /\ base[t] = pc[t]
  BY <1>1, MoveTo DEF Called, Places
<1>3. pc'[t] = "cache" /\ stack'[t] = <<>>
  BY <1>1, BaseIsPc DEF IInv, ControlOK, Goto, Called
<1>4. DataOK'
  <2>1. nextPair' \in Shorts
    BY <1>1, ConstantsAssumption DEF IInv, DataOK, Incremented, Shorts
  <2> QED BY <1>1, <2>1 DEF IInv, DataOK, control, mutexes, console, screen
<1>5. Others(t)
  BY <1>1, <1>2 DEF IInv, DataOK, Others, control, mutexes
<1>6. HoldsChannels'
  BY <1>2, <1>5, HoldsSame DEF IInv, Locked, mutexes
<1>7. \A u \in Thread : AtCache(u)'
  BY <1>3, <1>5, OthersAtCache DEF AtCache
<1>8. /\ nextPair \in Int /\ nextPair <= MaxShort /\ MaxShort \in Nat /\ NoPair \notin Int
      /\ cache' = cache /\ base[t] \in Locked
      /\ pairId'[t] = nextPair /\ colour'[t] = c
  BY <1>1, <1>2, ConstantsAssumption DEF IInv, DataOK, Locked, Shorts
<1>9. Pending(t)'
  BY <1>1, <1>2, <1>8 DEF Pending, Cached
<1>10. \A u \in Thread \ {t} : Pending(u)'
  BY <1>2, <1>5, <1>8, OnlyOneAtIt DEF Pending, Others
<1>11. \A u \in Thread : pairId[u] = NoPair
  <2>1. pairId[t] = NoPair
    BY <1>2 DEF IInv, Pending
  <2> QED BY <2>1, <1>8, OnlyOneAtIt
<1>12. \A u \in Thread : pairId'[u] = IF u = t THEN nextPair ELSE NoPair
  BY <1>5, <1>8, <1>11 DEF Others
<1>13. ASSUME NEW p \in Int, HandedOut(p) \/ p = nextPair
       PROVE  HandedOut(p)'
  BY <1>8, <1>11, <1>12, <1>13 DEF HandedOut
<1>14. PairsOK'
  <2>1. CASE RanOut
    BY <2>1, <1>8, <1>13 DEF PairsOK, RanOut
  <2>2. CASE InOrder /\ nextPair = MaxShort
    <3>1. \A p \in 2..MaxShort : p = nextPair \/ p \in 2..nextPair - 1
      BY <2>2, <1>8
    <3> QED BY <2>2, <3>1, <1>13 DEF PairsOK, RanOut, InOrder
  <2>3. CASE InOrder /\ nextPair # MaxShort
    <3>1. nextPair' = nextPair + 1 /\ nextPair >= 2
      BY <2>3, <1>1 DEF Incremented, InOrder
    <3>2. \A p \in 2..nextPair' - 1 : p = nextPair \/ p \in 2..nextPair - 1
      BY <3>1, <1>8
    <3>3. \A p \in 2..nextPair' - 1 : HandedOut(p)'
      BY <3>2, <2>3, <1>13 DEF InOrder
    <3>4. \A d \in Colours : Cached(d)' => cache'[d] \in 2..nextPair' - 1
      BY <2>3, <3>1, <1>8 DEF InOrder, Cached
    <3>5. \A d, e \in Colours : Cached(d)' /\ cache'[d] = cache'[e] => d = e
      BY <2>3, <1>8 DEF InOrder, Cached
    <3>6. \A d \in Colours : cache[d] # nextPair
      BY <2>3, <1>8 DEF InOrder, Cached
    <3>7. nextPair \in 2..nextPair' - 1
      BY <3>1, <1>8
    <3>8. \A u \in Thread : pairId'[u] # NoPair =>
             pairId'[u] \in 2..nextPair' - 1 /\ \A d \in Colours : cache'[d] # pairId'[u]
      BY <3>6, <3>7, <1>8, <1>12
    <3> QED BY <3>1, <3>3, <3>4, <3>5, <3>8, <1>8 DEF PairsOK, InOrder
  <2> QED BY <2>1, <2>2, <2>3 DEF IInv, PairsOK
<1> QED BY <1>2, <1>4, <1>6, <1>7, <1>9, <1>10, <1>14 DEF IInv

LEMMA CachePairKeeps ==
  ASSUME IInv, NEW t \in Thread, CachePair(t)
  PROVE  IInv'
<1> DEFINE place == IF t = Main THEN "paint" ELSE "store"
<1>1. /\ pc[t] = "cache" /\ Goto(t, place)
      /\ cache' = [cache EXCEPT ![colour[t]] = pairId[t]]
      /\ colour' = Forget(t)
      /\ pairId' = [pairId EXCEPT ![t] = NoPair]
      /\ UNCHANGED <<control, mutexes, console, nextPair>>
  BY DEF CachePair
<1>2. place \in Places \ Called /\ place \in Locked /\ place # "cache"
  BY DEF Places, Called, Locked
<1> HIDE DEF place
<1>3. /\ ControlOK' /\ OthersStay(t)
      /\ \A u \in Thread \ {t} : base'[u] = base[u]
      /\ base'[t] = place /\ base[t] = "cache"
  BY <1>1, <1>2, MoveTo DEF Called
<1>4. /\ colour[t] \in Colours /\ ~Cached(colour[t])
      /\ pairId[t] \in Shorts /\ NoPair \notin Int
      /\ pairId \in [Thread -> Shorts \cup {NoPair}]
      /\ cache \in [Colours -> Shorts \cup {NoPair}]
      /\ base[t] \in Locked
  BY <1>3, ConstantsAssumption DEF IInv, Pending, DataOK, Locked
<1>5. DataOK'
  BY <1>1, <1>4 DEF IInv, DataOK, control, mutexes, console, screen, Forget
<1>6. Others(t)
  BY <1>1, <1>3 DEF IInv, DataOK, Others, control, mutexes, Forget
<1>7. HoldsChannels'
  BY <1>1, <1>2, <1>3, <1>4, <1>6, HoldsSame DEF IInv, mutexes
<1>8. \A u \in Thread : AtCache(u)'
  BY <1>2, <1>3, <1>6, OthersAtCache DEF AtCache
<1>9. \A u \in Thread \ {t} : base[u] # "cache" /\ pairId[u] = NoPair
  BY <1>4, OnlyOneAtIt
<1>10. \A u \in Thread : Pending(u)'
  BY <1>1, <1>2, <1>3, <1>4, <1>9 DEF Pending
<1>11. PairsOK'
  <2> DEFINE c == colour[t]
             n == pairId[t]
  <2>1. /\ cache' = [cache EXCEPT ![c] = n] /\ nextPair' = nextPair
        /\ c \in Colours /\ cache[c] = NoPair /\ n # NoPair
        /\ \A u \in Thread : pairId[u] = IF u = t THEN n ELSE NoPair
        /\ \A u \in Thread : pairId'[u] = NoPair
    BY <1>1, <1>3, <1>4, <1>9 DEF Cached, IInv, Pending
  <2> HIDE DEF c, n
  <2>2. cache'[c] = n /\ \A d \in Colours \ {c} : cache'[d] = cache[d]
    BY <2>1, <1>4
  <2>3. ASSUME NEW p \in Int, HandedOut(p)
        PROVE  HandedOut(p)'
    <3>1. CASE p = n
      BY <3>1, <2>1, <2>2 DEF HandedOut
    <3>2. CASE p # n
      <4>1. PICK d \in Colours : cache[d] = p
        BY <2>1, <2>3, <3>2, <1>4 DEF HandedOut
      <4>2. d # c
        BY <4>1, <2>1, <1>4
      <4> QED BY <4>1, <4>2, <2>2 DEF HandedOut
    <3> QED BY <3>1, <3>2
  <2>4. CASE RanOut
    BY <2>3, <2>4, ConstantsAssumption DEF PairsOK, RanOut
  <2>5. CASE InOrder
    <3>1. /\ n \in 2..nextPair - 1 /\ \A d \in Colours : cache[d] # n
          /\ \A d \in Colours : cache[d] # NoPair => cache[d] \in 2..nextPair - 1
          /\ \A d, e \in Colours : cache[d] # NoPair /\ cache[d] = cache[e] => d = e
          /\ nextPair >= 2 /\ \A p \in 2..nextPair - 1 : HandedOut(p)
      BY <2>1, <2>5 DEF InOrder, Cached
    <3>2. \A d \in Colours : cache'[d] # NoPair => cache'[d] \in 2..nextPair' - 1
      BY <2>1, <2>2, <3>1
    <3>3. \A d, e \in Colours : cache'[d] # NoPair /\ cache'[d] = cache'[e] => d = e
      BY <2>1, <2>2, <3>1
    <3>4. \A p \in 2..nextPair' - 1 : HandedOut(p)'
      BY <2>1, <2>3, <3>1
    <3> QED BY <2>1, <3>1, <3>2, <3>3, <3>4 DEF PairsOK, InOrder, Cached
  <2> QED BY <2>4, <2>5 DEF IInv, PairsOK
<1> QED BY <1>3, <1>5, <1>7, <1>8, <1>10, <1>11 DEF IInv

LEMMA ChoosePairKeeps ==
  ASSUME IInv, ChoosePair
  PROVE  IInv'
<1> DEFINE c == colour[Listener]
<1>1. /\ pc[Listener] = "choose"
      /\ UNCHANGED <<control, mutexes, console, cache>>
      /\ c \in Colours \cup {NoColour}
  BY ThreadsNamed DEF ChoosePair, IInv, DataOK
<1>2. \/ c # NoColour /\ FindPair(c)
      \/ /\ colour' = Forget(Listener)
         /\ Goto(Listener, "store") \/ Call(Listener, "log", "store")
         /\ UNCHANGED <<pairId, nextPair>>
  BY DEF ChoosePair
<1> HIDE DEF c
<1>3. CASE TakePair(Listener, c) /\ c # NoColour
  BY <1>1, <1>3, TakePairKeeps, ThreadsNamed
<1>4. CASE /\ colour' = Forget(Listener)
           /\ Goto(Listener, "store") \/ Call(Listener, "log", "store")
           /\ UNCHANGED <<pairId, nextPair>>
  <2>1. DataOK'
    BY <1>1, <1>4 DEF IInv, DataOK, control, mutexes, console, screen, Forget
  <2>2. \A u \in Thread \ {Listener} : colour'[u] = colour[u]
    BY <1>4 DEF IInv, DataOK, Forget
  <2>3. "store" \in Places \ Called /\ "log" \in Called /\ pc[Listener] \notin Called
    BY <1>1 DEF Places, Called
  <2> QED BY <1>1, <1>4, <2>1, <2>2, <2>3, MoveKeeps, ThreadsNamed
          DEF Locked, control, palette
<1> QED BY <1>2, <1>3, <1>4 DEF FindPair

LEMMA PaintColourKeeps ==
  ASSUME IInv, PaintColour
  PROVE  IInv'
<1>1. PICK i \in Visible : messages[i] # NoColour /\ TakePair(Main, messages[i])
  BY DEF PaintColour
<1>2. messages[i] \in Colours
  BY <1>1 DEF IInv, DataOK, Visible
<1> QED BY <1>1, <1>2, TakePairKeeps, ThreadsNamed DEF PaintColour

-----------------------------------------------------------------------------
LEMMA IInvInit == Init => IInv
<1> SUFFICES ASSUME Init PROVE IInv
  OBVIOUS
<1> USE ConstantsAssumption DEF Init
<1>1. /\ pc = [t \in Thread |-> IF t = Main THEN "loop" ELSE "idle"]
      /\ stack = [t \in Thread |-> <<>>]
      /\ \A t \in Thread : pc[t] \in {"loop", "idle"} /\ stack[t] = <<>>
  OBVIOUS
<1>2. ControlOK
  <2>1. <<>> \in Seq(Places) /\ Len(<<>>) = 0
    OBVIOUS
  <2>2. \A t \in Thread : Shape(t)
    BY <1>1, <2>1 DEF Shape, Called
  <2> QED BY <1>1, <2>1, <2>2 DEF ControlOK, Places
<1>3. DataOK
  <2>1. messages \in Seq(Colours \cup {NoColour}) /\ Len(messages) <= MaxMessages
    OBVIOUS
  <2>2. nextPair \in Shorts
    BY DEF Shorts
  <2> QED BY <2>1, <2>2 DEF DataOK
<1>4. \A t \in Thread : base[t] \in {"loop", "idle"}
  BY <1>1 DEF base
<1>5. HoldsChannels
  BY <1>4 DEF HoldsChannels, Locked
<1>6. PairsOK
  BY DEF PairsOK, InOrder, Cached
<1>7. \A t \in Thread : AtCache(t) /\ Pending(t)
  BY <1>4 DEF AtCache, Pending
<1> QED BY <1>2, <1>3, <1>5, <1>6, <1>7 DEF IInv

LEMMA StepKeeps ==
  ASSUME IInv, NEW t \in Thread, Step(t)
  PROVE  IInv'
<1>1. CASE AddStep(t)
  BY <1>1, LockSinkKeeps, LockConsoleKeeps, PushKeeps DEF AddStep
<1>2. CASE t = Main /\ MainStep /\ ~AddStep(Main)
  BY <1>2, LoopKeeps, EnterKeeps, ScrollKeeps, CachePairKeeps, ThreadsNamed,
     DrawLocksConsoleKeeps, DrawLocksChannelsKeeps, PaintColourKeeps, FinishPaintingKeeps
     DEF MainStep
<1>3. CASE t = Listener /\ ListenerStep /\ ~AddStep(Listener)
  BY <1>3, CachePairKeeps, LockChannelsKeeps, ChoosePairKeeps, StoreChannelKeeps,
     ThreadsNamed
     DEF ListenerStep
<1>4. CASE ClearFlags(t)
  BY <1>4, ClearFlagsKeeps
<1> QED BY <1>1, <1>2, <1>3, <1>4 DEF Step

LEMMA StutterKeeps == IInv /\ UNCHANGED vars => IInv'
<1> SUFFICES ASSUME IInv, UNCHANGED vars PROVE IInv'
  OBVIOUS
<1> USE DEF vars, control, locals, mutexes, console, screen, palette
<1>1. base' = base
  BY DEF base
<1>2. ControlOK'
  BY DEF IInv, ControlOK, Shape
<1>3. DataOK'
  BY DEF IInv, DataOK
<1>4. HoldsChannels' /\ PairsOK'
  BY <1>1, PairsUnchanged DEF IInv, HoldsChannels
<1>5. \A t \in Thread : AtCache(t)' /\ Pending(t)'
  BY <1>1 DEF IInv, AtCache, Pending, Cached
<1> QED BY <1>2, <1>3, <1>4, <1>5 DEF IInv

LEMMA IInvNext == IInv /\ [Next]_vars => IInv'
<1> SUFFICES ASSUME IInv, [Next]_vars PROVE IInv'
  OBVIOUS
<1>1. ASSUME NEW t \in Thread, Step(t) \/ LogLine(t) \/ Signal(t) PROVE IInv'
  BY <1>1, StepKeeps, LogLineKeeps, SignalKeeps
<1>2. ASSUME NEW c \in Colours \cup {NoColour}, OnPRNT(c) \/ OnCHAN(c) PROVE IInv'
  BY <1>2, ReceiveKeeps
<1>3. CASE UNCHANGED vars
  BY <1>3, StutterKeeps
<1> QED BY <1>1, <1>2, <1>3 DEF Next

(***************************************************************************)
(* The inductive invariant holds throughout every execution.               *)
(***************************************************************************)
THEOREM Invariance == Spec => []IInv
BY IInvInit, IInvNext, PTL DEF Spec

(***************************************************************************)
(* The state of the user interface keeps its shape.                        *)
(***************************************************************************)
THEOREM TypeCorrect == Spec => []TypeOK
<1>1. IInv => TypeOK
  BY DEF IInv, ControlOK, DataOK, TypeOK
<1> QED BY <1>1, Invariance, PTL

(***************************************************************************)
(* Drawing and registering, which share the cache and the next number,     *)
(* are never at it at once, wherever signals find them.                    *)
(***************************************************************************)
Exclusive ==
  \A t, u \in Thread : base[t] \in Locked /\ base[u] \in Locked => t = u

THEOREM ChannelsExclusive == Spec => []Exclusive
<1>1. IInv => Exclusive
  BY DEF IInv, HoldsChannels, Exclusive
<1> QED BY <1>1, Invariance, PTL

(***************************************************************************)
(* No colour pair is lost or given to two colours before the positive      *)
(* numbers of a short ran out, however drawing, registering and signals    *)
(* interleave.                                                             *)
(***************************************************************************)
THEOREM PairsCorrect == Spec => []PairsAccounted
<1>1. IInv => PairsAccounted
  <2> SUFFICES ASSUME IInv, channelsMutex = NoThread
               PROVE  \/ /\ Pairs = 2..nextPair - 1
                         /\ \A c, d \in Colours : Cached(c) /\ cache[c] = cache[d] => c = d
                      \/ 2..MaxShort \subseteq Pairs
    BY DEF PairsAccounted
  <2>1. \A t \in Thread : pairId[t] = NoPair
    BY ConstantsAssumption DEF IInv, HoldsChannels, Pending, Locked
  <2>2. ASSUME NEW p \in Int, HandedOut(p)
        PROVE  p \in Pairs
    <3>1. PICK c \in Colours : cache[c] = p
      BY <2>1, <2>2, ConstantsAssumption DEF HandedOut
    <3>2. Cached(c)
      BY <3>1, ConstantsAssumption DEF Cached
    <3> QED BY <3>1, <3>2 DEF Pairs
  <2>3. CASE RanOut
    BY <2>2, <2>3 DEF RanOut
  <2>4. CASE InOrder
    <3>1. 2..nextPair - 1 \subseteq Pairs
      BY <2>2, <2>4 DEF InOrder
    <3>2. Pairs \subseteq 2..nextPair - 1
      BY <2>4 DEF InOrder, Pairs
    <3> QED BY <2>4, <3>1, <3>2 DEF InOrder
  <2> QED BY <2>3, <2>4 DEF IInv, PairsOK
<1> QED BY <1>1, Invariance, PTL

-----------------------------------------------------------------------------
(***************************************************************************)
(* Who waits for whom.  Whether a signal is harmless depends on where it   *)
(* finds a thread: here at the places where the thread holds neither       *)
(* m_consoleMutex nor the mutex of the sink, which signalHandler() needs   *)
(* for its line.  A thread that is called away comes back to one of these, *)
(* or, from the warning of registerChannel(), to storing the channel.      *)
(***************************************************************************)
SafePlaces == {"idle", "log", "register", "loop", "input", "check", "draw", "clear"}

Resumable(t) ==
  SafePlaces \cup {"flag", "add", "done"} \cup (IF t = Listener THEN {"store"} ELSE {})

HoldsConsole(t) ==
  \/ pc[t] = "push"
  \/ t = Main /\ pc[t] \in {"drawLocked", "paint", "cache"}

MutexOK(t) ==
  /\ consoleMutex = t <=> HoldsConsole(t)
  /\ sinkMutex = t => pc[t] \in {"add", "push"}
  /\ stack[t] \in Seq(Resumable(t))

WaitInv == \A t \in Thread : MutexOK(t)

(***************************************************************************)
(* What a step of one thread does to the mutexes of the others: nothing.   *)
(***************************************************************************)
OthersMutexes(t) ==
  /\ OthersStay(t)
  /\ \A u \in Thread \ {t} : /\ consoleMutex' = u <=> consoleMutex = u
                             /\ sinkMutex' = u => sinkMutex = u

LEMMA OthersWait ==
  ASSUME WaitInv, NEW t \in Thread, OthersMutexes(t), MutexOK(t)'
  PROVE  WaitInv'
<1> SUFFICES ASSUME NEW u \in Thread \ {t} PROVE MutexOK(u)'
  BY DEF WaitInv
<1>1. /\ pc'[u] = pc[u] /\ stack'[u] = stack[u]
      /\ consoleMutex' = u <=> consoleMutex = u
      /\ sinkMutex' = u => sinkMutex = u
  BY DEF OthersMutexes, OthersStay
<1>2. MutexOK(u)
  BY DEF WaitInv
<1>3. HoldsConsole(u)' <=> HoldsConsole(u)
  BY <1>1 DEF HoldsConsole
<1>4. stack'[u] \in Seq(Resumable(u))'
  BY <1>1, <1>2 DEF MutexOK, Resumable
<1>5. (consoleMutex' = u <=> HoldsConsole(u)') /\ (sinkMutex' = u => pc'[u] \in {"add", "push"})
  BY <1>1, <1>2, <1>3 DEF MutexOK
<1> QED BY <1>4, <1>5 DEF MutexOK

(***************************************************************************)
(* A step that neither takes nor frees one of the two mutexes.             *)
(***************************************************************************)
LEMMA PlainWait ==
  ASSUME WaitInv, NEW t \in Thread, OthersStay(t), UNCHANGED <<consoleMutex, sinkMutex>>,
         HoldsConsole(t)' <=> HoldsConsole(t), pc[t] \notin {"add", "push"},
         stack'[t] \in Seq(Resumable(t))
  PROVE  WaitInv'
<1>1. OthersMutexes(t)
  BY DEF OthersMutexes
<1>2. MutexOK(t)'
  BY DEF WaitInv, MutexOK, Resumable
<1> QED BY <1>1, <1>2, OthersWait

LEMMA GotoWait ==
  ASSUME IInv, WaitInv, NEW t \in Thread, NEW place, Goto(t, place)
  PROVE  OthersStay(t) /\ pc'[t] = place /\ stack'[t] \in Seq(Resumable(t))
BY DEF IInv, ControlOK, WaitInv, MutexOK, Goto, OthersStay

LEMMA CallWait ==
  ASSUME IInv, WaitInv, NEW t \in Thread, NEW op, NEW place \in Resumable(t),
         Call(t, op, place)
  PROVE  OthersStay(t) /\ pc'[t] = op /\ stack'[t] \in Seq(Resumable(t))
<1>1. <<place>> \in Seq(Resumable(t)) /\ stack[t] \in Seq(Resumable(t))
  BY DEF WaitInv, MutexOK
<1>2. <<place>> \o stack[t] \in Seq(Resumable(t))
  BY <1>1, ConcatProperties
<1> QED BY <1>2 DEF IInv, ControlOK, Call, OthersStay

LEMMA ReturnWait ==
  ASSUME IInv, WaitInv, NEW t \in Thread, pc[t] \in Called, Return(t)
  PROVE  /\ OthersStay(t)
         /\ pc'[t] \in Resumable(t) /\ stack'[t] \in Seq(Resumable(t))
<1>1. stack[t] # <<>> /\ stack[t] \in Seq(Resumable(t))
  BY CalledHasStack DEF IInv, WaitInv, MutexOK
<1>2. Head(stack[t]) \in Resumable(t) /\ Tail(stack[t]) \in Seq(Resumable(t))
  BY <1>1, HeadTailProperties
<1> QED BY <1>2 DEF IInv, ControlOK, Return, OthersStay

-----------------------------------------------------------------------------
LEMMA LockSinkWait ==
  ASSUME IInv, WaitInv, NEW t \in Thread, LockSink(t)
  PROVE  WaitInv'
<1>1. /\ pc[t] = "log" /\ sinkMutex = NoThread /\ sinkMutex' = t /\ Goto(t, "add")
      /\ UNCHANGED consoleMutex
  BY DEF LockSink
<1>2. OthersStay(t) /\ pc'[t] = "add" /\ stack'[t] \in Seq(Resumable(t))
  BY <1>1, GotoWait
<1>3. OthersMutexes(t)
  BY <1>1, <1>2 DEF OthersMutexes
<1>4. MutexOK(t)'
  BY <1>1, <1>2 DEF WaitInv, MutexOK, HoldsConsole, Resumable
<1> QED BY <1>3, <1>4, OthersWait

LEMMA TakeConsoleWait ==
  ASSUME IInv, WaitInv, NEW t \in Thread, LockConsole(t) \/ (t = Main /\ DrawLocksConsole)
  PROVE  WaitInv'
<1>1. /\ consoleMutex = NoThread /\ consoleMutex' = t /\ UNCHANGED sinkMutex
      /\ \/ pc[t] = "add" /\ Goto(t, "push")
         \/ t = Main /\ pc[t] = "draw" /\ Goto(t, "drawLocked")
  BY DEF LockConsole, DrawLocksConsole
<1>2. /\ OthersStay(t) /\ HoldsConsole(t)' /\ stack'[t] \in Seq(Resumable(t))
      /\ pc[t] = "add" => pc'[t] = "push"
  <2>1. CASE pc[t] = "add" /\ Goto(t, "push")
    BY <2>1, GotoWait DEF HoldsConsole
  <2>2. CASE t = Main /\ pc[t] = "draw" /\ Goto(t, "drawLocked")
    BY <2>2, GotoWait DEF HoldsConsole
  <2> QED BY <1>1, <2>1, <2>2
<1>3. OthersMutexes(t)
  BY <1>1, <1>2, ConstantsAssumption DEF OthersMutexes
<1>4. MutexOK(t)'
  BY <1>1, <1>2 DEF WaitInv, MutexOK, Resumable
<1> QED BY <1>3, <1>4, OthersWait

LEMMA PushWait ==
  ASSUME IInv, WaitInv, NEW t \in Thread, Push(t)
  PROVE  WaitInv'
<1>1. /\ pc[t] = "push" /\ Return(t) /\ consoleMutex' = NoThread
      /\ sinkMutex' = IF sinkMutex = t THEN NoThread ELSE sinkMutex
  BY DEF Push
<1>2. /\ OthersStay(t)
      /\ pc'[t] \in Resumable(t) /\ stack'[t] \in Seq(Resumable(t))
  BY <1>1, ReturnWait DEF Called
<1>3. consoleMutex = t
  <2>1. (consoleMutex = t) <=> HoldsConsole(t)
    BY DEF WaitInv, MutexOK
  <2> QED BY <1>1, <2>1 DEF HoldsConsole
<1>4. OthersMutexes(t)
  BY <1>1, <1>2, <1>3, ConstantsAssumption DEF OthersMutexes
<1>5. ~HoldsConsole(t)'
  BY <1>2 DEF HoldsConsole, Resumable, SafePlaces
<1>6. MutexOK(t)'
  BY <1>1, <1>2, <1>5, ConstantsAssumption DEF MutexOK, Resumable
<1> QED BY <1>4, <1>6, OthersWait

LEMMA FinishPaintingWait ==
  ASSUME IInv, WaitInv, FinishPainting
  PROVE  WaitInv'
<1>1. /\ pc[Main] = "paint" /\ Goto(Main, "clear") /\ consoleMutex' = NoThread
      /\ UNCHANGED sinkMutex
  BY DEF FinishPainting
<1>2. OthersStay(Main) /\ pc'[Main] = "clear" /\ stack'[Main] \in Seq(Resumable(Main))
  BY <1>1, GotoWait, ThreadsNamed
<1>3. consoleMutex = Main /\ sinkMutex # Main
  BY <1>1, ThreadsNamed DEF WaitInv, MutexOK, HoldsConsole
<1>4. OthersMutexes(Main)
  BY <1>1, <1>2, <1>3, ConstantsAssumption DEF OthersMutexes
<1>5. MutexOK(Main)'
  BY <1>1, <1>2, <1>3, ConstantsAssumption, ThreadsNamed DEF MutexOK, HoldsConsole, Resumable
<1> QED BY <1>4, <1>5, OthersWait, ThreadsNamed

(***************************************************************************)
(* The other steps move one thread about.                                  *)
(***************************************************************************)
LEMMA MoveWait ==
  ASSUME IInv, WaitInv, NEW t \in Thread, NEW place,
         UNCHANGED <<consoleMutex, sinkMutex>>, pc[t] \notin {"add", "push"},
         \/ Goto(t, place) /\ place # "push"
            /\ (t = Main => (place \in {"drawLocked", "paint", "cache"}
                              <=> pc[t] \in {"drawLocked", "paint", "cache"}))
         \/ /\ \E op \in {"log", "add"} : Call(t, op, place)
            /\ place \in Resumable(t)
            /\ t = Main => pc[t] \notin {"drawLocked", "paint", "cache"}
  PROVE  WaitInv'
<1>1. CASE Goto(t, place) /\ place # "push"
           /\ (t = Main => (place \in {"drawLocked", "paint", "cache"}
                             <=> pc[t] \in {"drawLocked", "paint", "cache"}))
  BY <1>1, GotoWait, PlainWait DEF HoldsConsole
<1>2. CASE /\ \E op \in {"log", "add"} : Call(t, op, place)
           /\ place \in Resumable(t)
           /\ t = Main => pc[t] \notin {"drawLocked", "paint", "cache"}
  BY <1>2, CallWait, PlainWait DEF HoldsConsole
<1> QED BY <1>1, <1>2

LEMMA BeginWait ==
  ASSUME IInv, WaitInv, NEW t \in Thread,
         \/ LogLine(t) /\ t # Main
         \/ t = Listener /\ \E c \in Colours \cup {NoColour} : OnPRNT(c) \/ OnCHAN(c)
  PROVE  WaitInv'
<1>1. /\ pc[t] = "idle" /\ UNCHANGED <<consoleMutex, sinkMutex>> /\ t # Main
      /\ \/ Goto(t, "register")
         \/ \E op \in {"log", "add"} : Call(t, op, "idle")
  BY ConstantsAssumption DEF LogLine, OnPRNT, OnCHAN, mutexes
<1>2. "idle" \in Resumable(t)
  BY DEF Resumable, SafePlaces
<1>3. CASE Goto(t, "register")
  BY <1>1, <1>3, MoveWait
<1>4. CASE \E op \in {"log", "add"} : Call(t, op, "idle")
  BY <1>1, <1>2, <1>4, MoveWait
<1> QED BY <1>1, <1>3, <1>4

LEMMA ListenerWait ==
  ASSUME IInv, WaitInv,
         LockChannels \/ ChoosePair \/ StoreChannel \/ CachePair(Listener)
  PROVE  WaitInv'
<1>1. /\ pc[Listener] \in {"register", "choose", "store", "cache"}
      /\ UNCHANGED <<consoleMutex, sinkMutex>>
      /\ \/ \E place \in {"choose", "store", "cache", "idle"} : Goto(Listener, place)
         \/ Call(Listener, "log", "store")
  BY ConstantsAssumption
     DEF LockChannels, ChoosePair, FindPair, TakePair, StoreChannel, CachePair, mutexes
<1>2. "store" \in Resumable(Listener) /\ Listener # Main
  BY ConstantsAssumption DEF Resumable
<1>3. CASE \E place \in {"choose", "store", "cache", "idle"} : Goto(Listener, place)
  <2>1. PICK place \in {"choose", "store", "cache", "idle"} : Goto(Listener, place)
    BY <1>3
  <2> QED BY <1>1, <1>2, <2>1, MoveWait, ThreadsNamed
<1>4. CASE Call(Listener, "log", "store")
  BY <1>1, <1>2, <1>4, MoveWait, ThreadsNamed
<1> QED BY <1>1, <1>3, <1>4

LEMMA LoopWait ==
  ASSUME IInv, WaitInv,
         \/ RunLoop \/ LeaveLoop \/ NoKey \/ Resize \/ CheckDirty \/ ClearDirty
         \/ \E lines \in {Height, -Height} : ScrollConsole(lines)
  PROVE  WaitInv'
<1>1. /\ pc[Main] \in {"loop", "input", "check", "clear"}
      /\ UNCHANGED <<consoleMutex, sinkMutex>>
      /\ \/ \E place \in {"input", "check", "draw", "loop"} : Goto(Main, place)
         \/ Call(Main, "log", "done")
  BY DEF RunLoop, LeaveLoop, NoKey, Resize, CheckDirty, ClearDirty, ScrollConsole, mutexes
<1>2. "done" \in Resumable(Main)
  BY DEF Resumable
<1>3. CASE \E place \in {"input", "check", "draw", "loop"} : Goto(Main, place)
  <2>1. PICK place \in {"input", "check", "draw", "loop"} : Goto(Main, place)
    BY <1>3
  <2> QED BY <1>1, <2>1, MoveWait, ThreadsNamed
<1>4. CASE Call(Main, "log", "done")
  BY <1>1, <1>2, <1>4, MoveWait, ThreadsNamed
<1> QED BY <1>1, <1>3, <1>4

LEMMA DrawWait ==
  ASSUME IInv, WaitInv, DrawLocksChannels \/ PaintColour \/ CachePair(Main)
  PROVE  WaitInv'
<1>1. /\ pc[Main] \in {"drawLocked", "paint", "cache"}
      /\ UNCHANGED <<consoleMutex, sinkMutex>>
      /\ \E place \in {"paint", "cache"} : Goto(Main, place)
  BY DEF DrawLocksChannels, PaintColour, TakePair, CachePair, mutexes
<1>2. PICK place \in {"paint", "cache"} : Goto(Main, place)
  BY <1>1
<1> QED BY <1>1, <1>2, MoveWait, ThreadsNamed

LEMMA EnterWait ==
  ASSUME IInv, WaitInv, Enter
  PROVE  WaitInv'
<1>1. /\ pc[Main] = "input" /\ UNCHANGED <<consoleMutex, sinkMutex>>
  BY DEF Enter, mutexes
<1>2. PICK places \in {<<"add", "check">>, <<"log", "add", "check">>} :
        /\ pc' = [pc EXCEPT ![Main] = Head(places)]
        /\ stack' = [stack EXCEPT ![Main] = Tail(places) \o stack[Main]]
  BY DEF Enter
<1>3. Head(places) \in {"add", "log"} /\ Tail(places) \in Seq(Resumable(Main))
  <2>1. {"add", "check"} \subseteq Resumable(Main)
    BY DEF Resumable, SafePlaces
  <2>2. ASSUME places = <<"add", "check">>
        PROVE  Head(places) \in {"add", "log"} /\ Tail(places) \in Seq(Resumable(Main))
    <3>1. Head(places) = "add" /\ Tail(places) = <<"check">>
      BY <2>2
    <3> QED BY <3>1, <2>1
  <2>3. ASSUME places = <<"log", "add", "check">>
        PROVE  Head(places) \in {"add", "log"} /\ Tail(places) \in Seq(Resumable(Main))
    <3>1. Head(places) = "log" /\ Tail(places) = <<"add", "check">>
      BY <2>3
    <3>2. <<"add", "check">> \in Seq(Resumable(Main))
      BY <2>1
    <3> QED BY <3>1, <3>2
  <2> QED BY ONLY <2>2, <2>3, places \in {<<"add", "check">>, <<"log", "add", "check">>}, Zenon
<1> DEFINE s == Tail(places)
<1> HIDE DEF s
<1>4. s \o stack[Main] \in Seq(Resumable(Main))
  BY <1>3, ConcatProperties, ThreadsNamed DEF WaitInv, MutexOK, s
<1>5. /\ OthersStay(Main) /\ pc'[Main] \in {"add", "log"}
      /\ stack'[Main] \in Seq(Resumable(Main))
  BY <1>2, <1>3, <1>4, ThreadsNamed DEF IInv, ControlOK, OthersStay, s
<1> QED BY <1>1, <1>5, PlainWait, ThreadsNamed DEF HoldsConsole

LEMMA ClearFlagsWait ==
  ASSUME IInv, WaitInv, NEW t \in Thread, ClearFlags(t)
  PROVE  WaitInv'
<1>1. pc[t] = "flag" /\ Return(t) /\ UNCHANGED <<consoleMutex, sinkMutex>>
  BY DEF ClearFlags, mutexes
<1>2. /\ OthersStay(t)
      /\ pc'[t] \in Resumable(t) /\ stack'[t] \in Seq(Resumable(t))
  BY <1>1, ReturnWait DEF Called
<1>3. ~HoldsConsole(t)' /\ ~HoldsConsole(t)
  BY <1>1, <1>2 DEF HoldsConsole, Resumable, SafePlaces
<1> QED BY <1>1, <1>2, <1>3, PlainWait

LEMMA SignalWait ==
  ASSUME SignalAt \subseteq SafePlaces, IInv, WaitInv, NEW t \in Thread, Signal(t)
  PROVE  WaitInv'
<1>1. /\ pc[t] \in SafePlaces /\ UNCHANGED <<consoleMutex, sinkMutex>>
      /\ pc' = [pc EXCEPT ![t] = "log"]
      /\ stack' = [stack EXCEPT ![t] = <<"flag", pc[t]>> \o stack[t]]
  BY DEF Signal, mutexes
<1>2. <<"flag", pc[t]>> \in Seq(Resumable(t)) /\ stack[t] \in Seq(Resumable(t))
  <2>1. "flag" \in Resumable(t) /\ pc[t] \in Resumable(t)
    BY <1>1 DEF Resumable
  <2> QED BY <2>1 DEF WaitInv, MutexOK
<1> DEFINE s == <<"flag", pc[t]>>
<1> HIDE DEF s
<1>3. s \o stack[t] \in Seq(Resumable(t))
  BY <1>2, ConcatProperties DEF s
<1>4. OthersStay(t) /\ pc'[t] = "log" /\ stack'[t] \in Seq(Resumable(t))
  BY <1>1, <1>3 DEF IInv, ControlOK, OthersStay, s
<1> QED BY <1>1, <1>4, PlainWait DEF HoldsConsole, SafePlaces

LEMMA WaitInit == Init => WaitInv
<1> SUFFICES ASSUME Init, NEW t \in Thread PROVE MutexOK(t)
  BY DEF WaitInv
<1>1. pc[t] \in {"loop", "idle"} /\ stack[t] = <<>> /\ <<>> \in Seq(Resumable(t))
  BY DEF Init
<1>2. consoleMutex # t /\ sinkMutex # t
  BY ConstantsAssumption DEF Init
<1> QED BY <1>1, <1>2 DEF MutexOK, HoldsConsole

LEMMA WaitStep ==
  ASSUME IInv, WaitInv, NEW t \in Thread, Step(t)
  PROVE  WaitInv'
<1>1. CASE AddStep(t)
  BY <1>1, LockSinkWait, TakeConsoleWait, PushWait DEF AddStep
<1>2. CASE t = Main /\ MainStep /\ ~AddStep(Main)
  BY <1>2, LoopWait, EnterWait, TakeConsoleWait, DrawWait, FinishPaintingWait DEF MainStep
<1>3. CASE t = Listener /\ ListenerStep /\ ~AddStep(Listener)
  BY <1>3, ListenerWait DEF ListenerStep
<1>4. CASE ClearFlags(t)
  BY <1>4, ClearFlagsWait
<1> QED BY <1>1, <1>2, <1>3, <1>4 DEF Step

LEMMA WaitNext ==
  ASSUME SignalAt \subseteq SafePlaces, IInv, WaitInv, [Next]_vars
  PROVE  WaitInv'
<1>1. ASSUME NEW t \in Thread, Step(t) \/ Signal(t) PROVE WaitInv'
  BY <1>1, WaitStep, SignalWait
<1>2. ASSUME NEW t \in Thread \ {Main}, LogLine(t) PROVE WaitInv'
  BY <1>2, BeginWait
<1>3. ASSUME NEW c \in Colours \cup {NoColour}, OnPRNT(c) \/ OnCHAN(c) PROVE WaitInv'
  BY <1>3, BeginWait, ThreadsNamed
<1>4. CASE UNCHANGED vars
  BY <1>4 DEF vars, mutexes, WaitInv, MutexOK, HoldsConsole, Resumable
<1> QED BY <1>1, <1>2, <1>3, <1>4 DEF Next

(***************************************************************************)
(* In a set of threads that wait for each other somebody waits for         *)
(* m_channelsMutex, or else for m_consoleMutex, or else for the sink; its  *)
(* holder waits in turn, and only a warning has m_channelsMutex for that.  *)
(***************************************************************************)
LEMMA HoldersGoOn ==
  ASSUME IInv, WaitInv
  PROVE  OnlyWarningsDeadlock
<1> SUFFICES ASSUME NEW S \in SUBSET Thread, Deadlocked(S), ~(Warning /\ Listener \in S)
             PROVE  FALSE
  BY DEF OnlyWarningsDeadlock
<1>1. /\ S # {}
      /\ \A t \in S : t \in Thread /\ Awaited(t) \in S /\ Awaited(t) # NoThread
  BY ConstantsAssumption DEF Deadlocked
<1>2. \A t \in S : pc[t] \in {"log", "add", "draw", "register", "drawLocked"}
  BY <1>1 DEF Awaited
<1>3. channelsMutex \notin S
  <2> SUFFICES ASSUME NEW u \in S, channelsMutex = u PROVE FALSE
    OBVIOUS
  <2>1. base[u] \in Locked
    BY <1>1 DEF IInv, HoldsChannels
  <2>2. pc[u] \in {"log", "add"}
    <3>1. CASE pc[u] \in {"draw", "register", "drawLocked"}
      <4>1. base[u] = pc[u]
        BY <3>1, <1>1, BaseIsPc DEF IInv, Called
      <4> QED BY <4>1, <3>1, <2>1 DEF Locked
    <3> QED BY <3>1, <1>2
  <2>3. stack[u] # <<>> /\ stack[u] \in Seq(Resumable(u))
    BY <2>2, <1>1, CalledHasStack DEF IInv, WaitInv, MutexOK, Called
  <2>4. base[u] = stack[u][Len(stack[u])] /\ base[u] \in Resumable(u)
    <3>1. Len(stack[u]) \in 1..Len(stack[u])
      BY <2>3
    <3> QED BY <3>1, <2>3, <1>1 DEF base
  <2>5. u = Listener
    BY <2>1, <2>4 DEF Locked, Resumable, SafePlaces
  <2> QED BY <2>2, <2>5 DEF Warning
<1>4. \A t \in S : pc[t] \notin {"register", "drawLocked"}
  BY <1>1, <1>3 DEF Awaited
<1>5. consoleMutex \notin S
  <2> SUFFICES ASSUME NEW u \in S, consoleMutex = u PROVE FALSE
    OBVIOUS
  <2>1. HoldsConsole(u)
    BY <1>1 DEF WaitInv, MutexOK
  <2> QED BY <2>1, <1>2, <1>4 DEF HoldsConsole
<1>6. \A t \in S : pc[t] = "log"
  BY <1>1, <1>2, <1>4, <1>5 DEF Awaited
<1>7. sinkMutex \notin S
  BY <1>1, <1>6 DEF WaitInv, MutexOK
<1> QED BY <1>1, <1>6, <1>7 DEF Awaited

(***************************************************************************)
(* Drawing, messages, channels and log lines never wait for each other in  *)
(* a circle, for any number of threads and any signal at a safe place,     *)
(* unless it be for the warning of registerChannel(), which logs with      *)
(* m_channelsMutex held.                                                   *)
(***************************************************************************)
THEOREM DeadlockFreedom ==
  ASSUME SignalAt \subseteq SafePlaces
  PROVE  Spec => []OnlyWarningsDeadlock
<1>1. Init => WaitInv
  BY WaitInit
<1>2. IInv /\ WaitInv /\ [Next]_vars => WaitInv'
  BY WaitNext
<1>3. IInv /\ WaitInv => OnlyWarningsDeadlock
  BY HoldersGoOn
<1> QED BY <1>1, <1>2, <1>3, Invariance, PTL DEF Spec
=============================================================================
