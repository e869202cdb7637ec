-------------------------------- MODULE Tui ---------------------------------
(***************************************************************************)
(* The client's user interface (CS2RemoteConsole-client/src/tui/tui.cpp):  *)
(* the main thread, which draws; the CS2 console's listener, whose         *)
(* callbacks add messages and register channels; and any thread that logs, *)
(* since the log's sink adds a message too.  They share the messages under *)
(* m_consoleMutex, the channels and colour pairs under m_channelsMutex,    *)
(* the mutex of the sink, and the flag m_consoleDirty.                     *)
(*                                                                         *)
(* A thread's program counter says what it is about to do; its stack, what *)
(* it goes on with when it has added a message, be it registerChannel(),   *)
(* handleInput() or what a signal interrupted.  Messages and channels are  *)
(* their colours.  Time is left out: 16 ms have passed since the last      *)
(* drawing whenever the loop comes round.                                  *)
(***************************************************************************)
EXTENDS Integers, Sequences

CONSTANTS
  Main, Listener, Loggers,  (* Threads; Loggers only log.                   *)
  NoThread,
  Colours,                  (* Colours with a background: keys of the cache. *)
  NoColour,                 (* 0                                            *)
  NoPair,                   (* No entry in the cache, no pair at hand.      *)
  MaxShort,                 (* SHRT_MAX: pair numbers are shorts.           *)
  ColourPairs,              (* COLOR_PAIRS                                  *)
  MaxMessages,              (* MAX_CONSOLE_MESSAGES                         *)
  Height,                   (* Lines of the console window.                 *)
  SignalAt                  (* The places where SIGINT may find a thread.   *)

Thread == {Main, Listener} \cup Loggers
Places == {"idle", "log", "add", "push", "register", "choose", "cache", "store",
           "loop", "input", "check", "draw", "drawLocked", "paint", "clear",
           "done", "flag"}

Shorts == -(MaxShort + 1)..MaxShort

ASSUME ConstantsAssumption ==
  /\ Main # Listener
  /\ Main \notin Loggers /\ Listener \notin Loggers
  /\ NoThread \notin Thread
  /\ NoColour \notin Colours
  /\ MaxShort \in Nat /\ MaxShort >= 2
  /\ NoPair \notin Int
  /\ ColourPairs \in Nat
  /\ MaxMessages \in Nat \ {0} /\ Height \in Nat \ {0}
  /\ SignalAt \subseteq Places \ {"done"}

VARIABLES
  running,        (* applicationRunning and running                         *)
  signalled,      (* SIGINT was delivered, once.                            *)
  pc,
  stack,
  colour,         (* The colour of the message or channel at hand.          *)
  pairId,         (* The pair taken for that colour and not cached yet.     *)
  consoleMutex, channelsMutex, sinkMutex,  (* Their owners.                 *)
  messages,       (* m_consoleMessages                                      *)
  unshown,        (* The last message is not on the screen.                 *)
  dirty,          (* m_consoleDirty                                         *)
  scrollPosition,
  needsResize,
  cache,          (* m_colorCache                                           *)
  nextPair        (* m_nextColorPairId                                      *)

mutexes == <<consoleMutex, channelsMutex, sinkMutex>>
screen  == <<scrollPosition, needsResize>>
console == <<messages, unshown, dirty, screen>>
palette == <<cache, nextPair>>
control == <<running, signalled>>
locals  == <<colour, pairId>>
vars    == <<control, pc, stack, locals, mutexes, console, palette>>

Goto(t, place)     == pc' = [pc EXCEPT ![t] = place] /\ UNCHANGED stack
Call(t, op, place) == /\ pc' = [pc EXCEPT ![t] = op]
                      /\ stack' = [stack EXCEPT ![t] = <<place>> \o @]
Return(t)          == /\ pc' = [pc EXCEPT ![t] = Head(stack[t])]
                      /\ stack' = [stack EXCEPT ![t] = Tail(@)]

-----------------------------------------------------------------------------
(***************************************************************************)
(* Adding a message: the callback sink ("log"), addConsoleMessage()        *)
(* ("add"), which drops the oldest message when there are too many.        *)
(***************************************************************************)
LockSink(t) ==
  /\ pc[t] = "log"
  /\ sinkMutex = NoThread
  /\ sinkMutex' = t
  /\ Goto(t, "add")
  /\ UNCHANGED <<control, locals, consoleMutex, channelsMutex, console, palette>>

LockConsole(t) ==
  /\ pc[t] = "add"
  /\ consoleMutex = NoThread
  /\ consoleMutex' = t
  /\ Goto(t, "push")
  /\ UNCHANGED <<control, locals, channelsMutex, sinkMutex, console, palette>>

Forget(t) == [colour EXCEPT ![t] = NoColour]

\* Fault: one message too many is kept.
TrimmedLate(s) == IF Len(s) > MaxMessages + 1 THEN Tail(s) ELSE s

Trimmed(s) == IF Len(s) > MaxMessages THEN Tail(s) ELSE s

\* Log lines have no colour.
Push(t) ==
  /\ pc[t] = "push"
  /\ messages' = Trimmed(Append(messages, IF sinkMutex = t THEN NoColour ELSE colour[t]))
  /\ unshown' = TRUE
  /\ dirty' = TRUE
  /\ consoleMutex' = NoThread
  /\ sinkMutex' = IF sinkMutex = t THEN NoThread ELSE sinkMutex
  /\ colour' = IF sinkMutex = t THEN colour ELSE Forget(t)
  /\ Return(t)
  /\ UNCHANGED <<control, pairId, channelsMutex, screen, palette>>

AddStep(t) == LockSink(t) \/ LockConsole(t) \/ Push(t)

-----------------------------------------------------------------------------
(***************************************************************************)
(* initializeColor(), for a colour that is not in the cache: a number is   *)
(* taken, then the entry is made.  Both callers hold m_channelsMutex.  The *)
(* number is a short, which wraps and is not compared with COLOR_PAIRS.    *)
(***************************************************************************)
Cached(c) == cache[c] # NoPair

Incremented(short) == IF short = MaxShort THEN -(MaxShort + 1) ELSE short + 1

TakePair(t, c) ==
  /\ ~Cached(c)
  /\ colour' = [colour EXCEPT ![t] = c]
  /\ pairId' = [pairId EXCEPT ![t] = nextPair]
  /\ nextPair' = Incremented(nextPair)
  /\ Goto(t, "cache")

CachePair(t) ==
  /\ pc[t] = "cache"
  /\ cache' = [cache EXCEPT ![colour[t]] = pairId[t]]
  /\ colour' = Forget(t)
  /\ pairId' = [pairId EXCEPT ![t] = NoPair]
  /\ Goto(t, IF t = Main THEN "paint" ELSE "store")
  /\ UNCHANGED <<control, mutexes, console, nextPair>>

-----------------------------------------------------------------------------
(***************************************************************************)
(* The CS2 console's listener: onPRNTReceived, onCHANReceived.             *)
(***************************************************************************)
OnPRNT(c) ==
  /\ pc[Listener] = "idle"
  /\ colour' = [colour EXCEPT ![Listener] = c]
  /\ Call(Listener, "add", "idle")
  /\ UNCHANGED <<control, pairId, mutexes, console, palette>>

OnCHAN(c) ==
  /\ pc[Listener] = "idle"
  /\ colour' = [colour EXCEPT ![Listener] = c]
  /\ Goto(Listener, "register")
  /\ UNCHANGED <<control, pairId, mutexes, console, palette>>

LockChannels ==
  /\ pc[Listener] = "register"
  /\ channelsMutex = NoThread
  /\ channelsMutex' = Listener
  /\ Goto(Listener, "choose")
  /\ UNCHANGED <<control, locals, consoleMutex, sinkMutex, console, palette>>

FindPair(c) ==
  \/ /\ Cached(c)
     /\ colour' = Forget(Listener)
     /\ Goto(Listener, "store")
     /\ UNCHANGED <<pairId, nextPair>>
  \/ TakePair(Listener, c)

\* m_colorCache.find(color) finds nothing, as the keys are combined colours:
\* a channel gets the default pair when the numbers ran out, cached or not.
ChoosePair ==
  /\ pc[Listener] = "choose"
  /\ LET c == colour[Listener]
     IN  \/ c # NoColour /\ nextPair < ColourPairs /\ FindPair(c)
         \/ /\ colour' = Forget(Listener)
            /\ \/ c = NoColour /\ Goto(Listener, "store")
               \/ c # NoColour /\ nextPair >= ColourPairs /\ Call(Listener, "log", "store")
            /\ UNCHANGED <<pairId, nextPair>>
  /\ UNCHANGED <<control, mutexes, console, cache>>

\* m_channels[id] = channel: what the channel looks like is not kept here.
StoreChannel ==
  /\ pc[Listener] = "store"
  /\ channelsMutex' = NoThread
  /\ Goto(Listener, "idle")
  /\ UNCHANGED <<control, locals, consoleMutex, sinkMutex, console, palette>>

ListenerStep ==
  AddStep(Listener) \/ CachePair(Listener) \/ LockChannels \/ ChoosePair \/ StoreChannel

(***************************************************************************)
(* Any thread but the main one may log.                                    *)
(***************************************************************************)
LogLine(t) ==
  /\ pc[t] = "idle"
  /\ Call(t, "log", "idle")
  /\ UNCHANGED <<control, locals, mutexes, console, palette>>

-----------------------------------------------------------------------------
(***************************************************************************)
(* The main thread: run(), handleInput(), drawWindows().                   *)
(***************************************************************************)
RunLoop ==
  /\ pc[Main] = "loop" /\ running
  /\ dirty' = (dirty \/ needsResize)
  /\ needsResize' = FALSE
  /\ Goto(Main, "input")
  /\ UNCHANGED <<control, locals, mutexes, messages, unshown, scrollPosition, palette>>

\* gracefulShutdown() begins with a line to the log.
LeaveLoop ==
  /\ pc[Main] = "loop" /\ ~running
  /\ Call(Main, "log", "done")
  /\ UNCHANGED <<control, locals, mutexes, console, palette>>

NoKey ==
  /\ pc[Main] = "input"
  /\ Goto(Main, "check")
  /\ UNCHANGED <<control, locals, mutexes, console, palette>>

\* The command callback may log an error before the command is shown.
Enter ==
  /\ pc[Main] = "input"
  /\ \E places \in {<<"add", "check">>, <<"log", "add", "check">>} :
        /\ pc' = [pc EXCEPT ![Main] = Head(places)]
        /\ stack' = [stack EXCEPT ![Main] = Tail(places) \o @]
  /\ colour' = [colour EXCEPT ![Main] = NoColour]
  /\ UNCHANGED <<control, pairId, mutexes, console, palette>>

\* KEY_RESIZE: handleResize() is left to the next round.
Resize ==
  /\ pc[Main] = "input"
  /\ needsResize' = TRUE
  /\ Goto(Main, "check")
  /\ UNCHANGED <<control, locals, mutexes, messages, unshown, dirty, scrollPosition, palette>>

AtLeast0(n) == IF n < 0 THEN 0 ELSE n
Clamp(n, high) == AtLeast0(IF n > high THEN high ELSE n)

\* The size is read without the lock: any, while a message is being added.
SizesRead ==
  IF \E t \in Thread \ {Main} : pc[t] = "push" THEN 0..MaxMessages + 1
                                               ELSE {Len(messages)}

ScrollConsole(lines) ==
  /\ pc[Main] = "input"
  /\ \E size \in SizesRead :
        scrollPosition' = Clamp(scrollPosition + lines, AtLeast0(size - Height))
  /\ dirty' = TRUE
  /\ Goto(Main, "check")
  /\ UNCHANGED <<control, locals, mutexes, messages, unshown, needsResize, palette>>

\* Fault: a frame that is skipped clears the flag.
CheckDirtyOnce ==
  /\ pc[Main] = "check"
  /\ dirty' = FALSE
  /\ \E place \in {"draw", "loop"} : (place = "draw" => dirty) /\ Goto(Main, place)
  /\ UNCHANGED <<control, locals, mutexes, messages, unshown, screen, palette>>

CheckDirty ==
  /\ pc[Main] = "check"
  /\ Goto(Main, IF dirty THEN "draw" ELSE "loop")
  /\ UNCHANGED <<control, locals, mutexes, console, palette>>

DrawLocksConsole ==
  /\ pc[Main] = "draw"
  /\ consoleMutex = NoThread
  /\ consoleMutex' = Main
  /\ Goto(Main, "drawLocked")
  /\ UNCHANGED <<control, locals, channelsMutex, sinkMutex, console, palette>>

\* Fault: the channels are not locked, as only their names are read.
DrawSharesChannels ==
  /\ pc[Main] = "drawLocked"
  /\ Goto(Main, "paint")
  /\ UNCHANGED <<control, locals, mutexes, console, palette>>

\* Fault: a line to the log about every frame.
DrawLogs ==
  /\ pc[Main] = "drawLocked"
  /\ channelsMutex = NoThread
  /\ channelsMutex' = Main
  /\ Call(Main, "log", "paint")
  /\ UNCHANGED <<control, locals, consoleMutex, sinkMutex, console, palette>>

DrawLocksChannels ==
  /\ pc[Main] = "drawLocked"
  /\ channelsMutex = NoThread
  /\ channelsMutex' = Main
  /\ Goto(Main, "paint")
  /\ UNCHANGED <<control, locals, consoleMutex, sinkMutex, console, palette>>

StartIndex == AtLeast0(Len(messages) - Height - scrollPosition)
Visible    == {i \in DOMAIN messages : StartIndex < i /\ i <= StartIndex + Height}

\* The colours of visible messages get their pairs, whatever COLOR_PAIRS is.
PaintColour ==
  /\ pc[Main] = "paint"
  /\ \E i \in Visible : messages[i] # NoColour /\ TakePair(Main, messages[i])
  /\ UNCHANGED <<control, mutexes, console, cache>>

FinishPainting ==
  /\ pc[Main] = "paint"
  /\ \A i \in Visible : messages[i] # NoColour => Cached(messages[i])
  /\ unshown' = (unshown /\ Len(messages) \notin Visible)
  /\ consoleMutex' = NoThread /\ channelsMutex' = NoThread
  /\ Goto(Main, "clear")
  /\ UNCHANGED <<control, locals, sinkMutex, messages, dirty, screen, palette>>

ClearDirty ==
  /\ pc[Main] = "clear"
  /\ dirty' = FALSE
  /\ Goto(Main, "loop")
  /\ UNCHANGED <<control, locals, mutexes, messages, unshown, screen, palette>>

MainStep ==
  \/ AddStep(Main) \/ CachePair(Main)
  \/ RunLoop \/ LeaveLoop \/ NoKey \/ Enter \/ Resize
  \/ \E lines \in {Height, -Height} : ScrollConsole(lines)
  \/ CheckDirty \/ DrawLocksConsole \/ DrawLocksChannels
  \/ PaintColour \/ FinishPainting \/ ClearDirty

-----------------------------------------------------------------------------
(***************************************************************************)
(* signalHandler() of main.cpp, on whatever thread the signal is delivered *)
(* to: it logs, then clears the flags, then the thread goes on.            *)
(***************************************************************************)
Signal(t) ==
  /\ ~signalled
  /\ pc[t] \in SignalAt
  /\ signalled' = TRUE
  /\ pc' = [pc EXCEPT ![t] = "log"]
  /\ stack' = [stack EXCEPT ![t] = <<"flag", pc[t]>> \o @]
  /\ UNCHANGED <<running, locals, mutexes, console, palette>>

ClearFlags(t) ==
  /\ pc[t] = "flag"
  /\ running' = FALSE
  /\ Return(t)
  /\ UNCHANGED <<signalled, locals, mutexes, console, palette>>

-----------------------------------------------------------------------------
(***************************************************************************)
(* main() has registered the log's channel, with pair 1, and started the   *)
(* threads.                                                                *)
(***************************************************************************)
Init ==
  /\ running = TRUE /\ signalled = FALSE
  /\ pc = [t \in Thread |-> IF t = Main THEN "loop" ELSE "idle"]
  /\ stack = [t \in Thread |-> <<>>]
  /\ colour = [t \in Thread |-> NoColour]
  /\ pairId = [t \in Thread |-> NoPair]
  /\ consoleMutex = NoThread /\ channelsMutex = NoThread /\ sinkMutex = NoThread
  /\ messages = <<>>
  /\ unshown = FALSE /\ dirty = FALSE
  /\ scrollPosition = 0 /\ needsResize = FALSE
  /\ cache = [c \in Colours |-> NoPair]
  /\ nextPair = 2

\* What a thread does once it has begun something.
Step(t) ==
  \/ t = Main /\ MainStep
  \/ t = Listener /\ ListenerStep
  \/ t \in Loggers /\ AddStep(t)
  \/ ClearFlags(t)

Next ==
  \/ \E t \in Thread : Step(t)
  \/ \E c \in Colours \cup {NoColour} : OnPRNT(c) \/ OnCHAN(c)
  \/ \E t \in Thread \ {Main} : LogLine(t)
  \/ \E t \in Thread : Signal(t)

(***************************************************************************)
(* A thread that waits for a mutex which is free again and again gets it:  *)
(* the other threads sleep or block between two uses.  Nobody has to begin *)
(* anything.                                                               *)
(***************************************************************************)
Fairness == \A t \in Thread : SF_vars(Step(t))

Spec     == Init /\ [][Next]_vars
FairSpec == Spec /\ Fairness

-----------------------------------------------------------------------------
(***************************************************************************)
(* The shape of the state.                                                 *)
(***************************************************************************)
TypeOK ==
  /\ running \in BOOLEAN /\ signalled \in BOOLEAN
  /\ pc \in [Thread -> Places]
  /\ stack \in [Thread -> Seq(Places)]
  /\ colour \in [Thread -> Colours \cup {NoColour}]
  /\ pairId \in [Thread -> Shorts \cup {NoPair}]
  /\ consoleMutex \in Thread \cup {NoThread}
  /\ channelsMutex \in Thread \cup {NoThread}
  /\ sinkMutex \in Thread \cup {NoThread}
  /\ messages \in Seq(Colours \cup {NoColour}) /\ Len(messages) <= MaxMessages
  /\ unshown \in BOOLEAN /\ dirty \in BOOLEAN
  /\ scrollPosition \in Nat /\ needsResize \in BOOLEAN
  /\ cache \in [Colours -> Shorts \cup {NoPair}]
  /\ nextPair \in Shorts

(***************************************************************************)
(* Colour pairs are scarce, and taken by two threads, one drawing and one  *)
(* registering.  None is lost or given to two colours before the numbers   *)
(* run out: whenever no one is at it, the pairs of the cache are those     *)
(* handed out, one colour each, or else every positive number of a short   *)
(* is some colour's (1 is the log's) and numbers repeat.                   *)
(***************************************************************************)
Pairs == {cache[c] : c \in {d \in Colours : Cached(d)}}

PairsAccounted ==
  channelsMutex = NoThread =>
    \/ /\ Pairs = 2..nextPair - 1
       /\ \A c, d \in Colours : Cached(c) /\ cache[c] = cache[d] => c = d
    \/ 2..MaxShort \subseteq Pairs

(***************************************************************************)
(* Whatever the listener begins (a PRNT, a channel, a line to the log,     *)
(* which is all that the other threads begin) ends, although it may need   *)
(* all three mutexes: it is never starved nor waits for ever.  The one     *)
(* exception is when registerChannel() logs, which it does with            *)
(* m_channelsMutex held: see DefaultColourGiven.                           *)
(***************************************************************************)
Warning == channelsMutex = Listener /\ pc[Listener] \in {"log", "add"}

OperationsEnd ==
  pc[Listener] # "idle" ~> (pc[Listener] = "idle" \/ Warning)

(***************************************************************************)
(* No threads wait for each other, in whatever order they take the three   *)
(* mutexes and wherever signals make them log, unless registerChannel()    *)
(* logs in the midst of it: then the listener waits for m_consoleMutex,    *)
(* and drawWindows(), which has that, for m_channelsMutex.                 *)
(***************************************************************************)
Awaited(t) ==
  CASE pc[t] = "log"                      -> sinkMutex
    [] pc[t] \in {"add", "draw"}          -> consoleMutex
    [] pc[t] \in {"register", "drawLocked"} -> channelsMutex
    [] OTHER                              -> NoThread

Deadlocked(S) == S # {} /\ \A t \in S : Awaited(t) \in S

OnlyWarningsDeadlock ==
  \A S \in SUBSET Thread : Deadlocked(S) => Warning /\ Listener \in S

(***************************************************************************)
(* A message that finds run() anywhere but between drawing and clearing    *)
(* the flag is drawn.  One that comes in between is not until another      *)
(* message, a scroll or a resize sets the flag again.                      *)
(***************************************************************************)
DirtyIsDrawn ==
  (unshown /\ dirty /\ pc[Main] # "clear")
    ~> (~unshown \/ scrollPosition # 0 \/ ~running \/ Warning)

(***************************************************************************)
(* tui.cpp:125: "Ran out of color pairs. Using default color for channel". *)
(* The channel that is warned about is stored, with the default colour.    *)
(***************************************************************************)
DefaultColourGiven ==
  Warning ~> ~Warning

(***************************************************************************)
(* main.cpp:26: "Stop connection loops".  A signal clears the flags.       *)
(***************************************************************************)
SignalStopsLoops == signalled ~> ~running
=============================================================================
