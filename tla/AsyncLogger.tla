----------------------------- MODULE AsyncLogger -----------------------------
(***************************************************************************)
(* The asynchronous logger: threads append to __current, full batches move *)
(* to __alternate, and one detached thread carries them to the log file.   *)
(*                                                                         *)
(* Sources: Log/AsyncLogger.cc, Log/LogStream.cc, Log/Buffer.hpp.          *)
(*                                                                         *)
(* A vector of Buffers is modelled by the messages it holds, in order.  Of *)
(* the buffer boundaries only what the code tests is kept: the number of   *)
(* buffers in __current and the fill of the last one.  __lockBuff and      *)
(* __lockLogFile each protect one block of code, which is one action.      *)
(***************************************************************************)
EXTENDS Integers, Sequences, FiniteSets

CONSTANTS
    Writer,       \* the threads that log
    MaxMsg,       \* bound: messages per thread
    BufSize,      \* Buffer::capacity()
    Overflows,    \* the values setOverflowSize is called with
    Path,         \* names a log file can be opened under
    NoPath,       \* the empty string; also: __out is closed
    FileMayFail,  \* opening and writing may fail, and no file is set at first
    SpuriousWake, \* a wait may end without notification or timeout
    MayExit       \* the static logger may be destroyed (main returns)

ASSUME LoggerAssumption ==
    /\ MaxMsg \in Nat /\ BufSize \in Nat \ {0}
    /\ Overflows \subseteq Nat
    /\ NoPath \notin Path
    /\ FileMayFail \in BOOLEAN /\ MayExit \in BOOLEAN
    /\ SpuriousWake \in BOOLEAN

\* The k-th message of thread w.
Message == Writer \X (1..MaxMsg)

VARIABLES
    current,   \* __current: its messages ...
    nbufs,     \* ... its size() ...
    back,      \* ... and back().length()
    alternate, \* __alternate
    local,     \* __loggerLocal
    overflow,  \* __overflow
    running,   \* __running
    out,       \* the file __out is open on, or NoPath
    logFile,   \* __logFile
    notified,  \* the logger thread has been notified during its wait
    lpc,       \* the logger thread, in AsyncLogger::run
    wpc,       \* the logging threads, in AsyncLogger::append
    sent,      \* messages each of them has finished with
    dpc,       \* the thread in ~AsyncLogger
    \* history
    appended,  \* the messages append has taken, in the order of the lock
    flushed,   \* the messages given to flush2LogFile
    written,   \* the messages the log file holds
    failed     \* a write has failed since the file was last set

buffers == <<current, nbufs, back, alternate, local>>
file    == <<out, logFile, written, failed>>
control == <<running, overflow, notified>>
pcs     == <<lpc, wpc, dpc>>
vars == <<buffers, file, control, pcs, sent, appended, flushed>>

Alive == dpc # "done"
-----------------------------------------------------------------------------
(* The log file *)

\* setLogFile: close, then open in append mode.  The name is not remembered.
setLogFile(p) ==
    /\ Alive
    /\ out' \in IF FileMayFail THEN {p, NoPath} ELSE {p}
    /\ failed' = FALSE
    /\ UNCHANGED <<buffers, logFile, written, control, pcs, sent, appended,
                   flushed>>

\* flush2LogFile(batch).  A file that is not open takes nothing.  After a failed
\* write every later one of the batch fails as well: see Reopened.
flush2LogFile(batch) ==
    /\ flushed' = flushed \o batch
    /\ \/ /\ out = NoPath
          /\ UNCHANGED <<written, failed>>
       \/ /\ out # NoPath
          /\ written' = written \o batch
          /\ UNCHANGED failed
       \/ /\ out # NoPath /\ FileMayFail
          /\ \E k \in 0..Len(batch)-1 :
                written' = written \o SubSeq(batch, 1, k)
          /\ failed' = TRUE
    /\ UNCHANGED logFile

\* setLogFile(getLogFile()) when a write has failed: the name is the empty one.
Reopened == out' = IF failed' THEN logFile ELSE out

-----------------------------------------------------------------------------
(* AsyncLogger::append, called when a LogStreamBuffer is destroyed *)

setOverflowSizeUnchecked(n) ==
    /\ Alive
    /\ overflow' = n
    /\ UNCHANGED <<buffers, file, running, notified, pcs, sent, appended,
                   flushed>>

setOverflowSize(n) ==
    /\ Alive
    /\ n # 0
    /\ overflow' = n
    /\ UNCHANGED <<buffers, file, running, notified, pcs, sent, appended,
                   flushed>>

\* if (!isRunning()) return LOG_THREAD_STOPPED;  before the lock is taken
appendCheck(w) ==
    /\ Alive
    /\ wpc[w] = "idle" /\ sent[w] < MaxMsg
    /\ IF running
       THEN wpc' = [wpc EXCEPT ![w] = "lock"] /\ UNCHANGED sent
       ELSE sent' = [sent EXCEPT ![w] = @ + 1] /\ UNCHANGED wpc
    /\ UNCHANGED <<buffers, file, control, lpc, dpc, appended, flushed>>

rest == BufSize - back

currentAvailableOffByOne(len) == nbufs <= overflow \/ rest >= len

currentAvailable4(len) == nbufs < overflow \/ rest >= len

\* A Buffer with any room left is appended to.
append2CurrentCut(m, len, empty) ==
    IF empty
    THEN current' = <<m>> /\ nbufs' = 1 /\ back' = len
    ELSE /\ current' = Append(current, m)
         /\ IF nbufs = 0 \/ rest = 0
            THEN nbufs' = nbufs + 1 /\ back' = len
            ELSE nbufs' = nbufs /\ back' = back + len

\* append2Current on the vector the preceding statement has left
append2Current(m, len, empty) ==
    IF empty
    THEN current' = <<m>> /\ nbufs' = 1 /\ back' = len
    ELSE /\ current' = Append(current, m)
         /\ IF nbufs = 0 \/ rest < len
            THEN nbufs' = nbufs + 1 /\ back' = len
            ELSE nbufs' = nbufs /\ back' = back + len

\* The rest of append, under __lockBuff, for a message of length len.  A
\* notification that comes while the logger thread is not waiting is lost.
append(w, len) ==
    LET m == <<w, sent[w] + 1>>
        full == ~currentAvailable4(len) IN
    /\ Alive
    /\ wpc[w] = "lock"
    /\ alternate' = IF full THEN alternate \o current ELSE alternate
    /\ notified' = (notified \/ (lpc = "waiting" /\ alternate' # <<>>))
    /\ append2Current(m, len, full)
    /\ appended' = Append(appended, m)
    /\ sent' = [sent EXCEPT ![w] = @ + 1]
    /\ wpc' = [wpc EXCEPT ![w] = "idle"]
    /\ UNCHANGED <<local, file, running, overflow, lpc, dpc, flushed>>

-----------------------------------------------------------------------------
(* AsyncLogger::run, in the logger thread *)

LCheck ==
    /\ Alive
    /\ lpc = "check"
    /\ lpc' = IF running THEN "enter" ELSE "stopped"
    /\ UNCHANGED <<buffers, file, control, wpc, dpc, sent, appended, flushed>>

\* __wait4Flush.wait_for releases __lockBuff
LWait ==
    /\ Alive
    /\ lpc = "enter"
    /\ lpc' = "waiting"
    /\ notified' = FALSE
    /\ UNCHANGED <<buffers, file, running, overflow, wpc, dpc, sent, appended,
                   flushed>>

\* if (__alternate.size()) __loggerLocal.swap(__alternate);
Swapped == IF alternate # <<>> THEN alternate ELSE local
Leftover == IF alternate # <<>> THEN local ELSE alternate

\* wait_for returns no_timeout: notified by append or ~AsyncLogger, or
\* spuriously
LWoken ==
    /\ Alive
    /\ lpc = "waiting" /\ (notified \/ SpuriousWake)
    /\ local' = Swapped /\ alternate' = Leftover
    /\ lpc' = "flush"
    /\ UNCHANGED <<current, nbufs, back, file, control, wpc, dpc, sent,
                   appended, flushed>>

LTimeoutReordered ==
    /\ Alive
    /\ lpc = "waiting"
    /\ local' = current \o Swapped /\ alternate' = Leftover
    /\ current' = <<>> /\ nbufs' = 0 /\ back' = 0
    /\ lpc' = "flush"
    /\ UNCHANGED <<file, control, wpc, dpc, sent, appended, flushed>>

LTimeoutLeavesCurrent ==
    /\ Alive
    /\ lpc = "waiting"
    /\ local' = Swapped /\ alternate' = Leftover
    /\ lpc' = "flush"
    /\ UNCHANGED <<current, nbufs, back, file, control, wpc, dpc, sent,
                   appended, flushed>>

\* wait_for returns timeout: __current is taken as well
LTimeout ==
    /\ Alive
    /\ lpc = "waiting"
    /\ local' = Swapped \o current /\ alternate' = Leftover
    /\ current' = <<>> /\ nbufs' = 0 /\ back' = 0
    /\ lpc' = "flush"
    /\ UNCHANGED <<file, control, wpc, dpc, sent, appended, flushed>>

LFlushNotCleared ==
    /\ Alive
    /\ lpc = "flush"
    /\ flush2LogFile(local) /\ Reopened
    /\ lpc' = "check"
    /\ UNCHANGED <<current, nbufs, back, alternate, local, control, wpc, dpc,
                   sent, appended>>

LFlush ==
    /\ Alive
    /\ lpc = "flush"
    /\ flush2LogFile(local) /\ Reopened
    /\ local' = <<>>
    /\ lpc' = "check"
    /\ UNCHANGED <<current, nbufs, back, alternate, control, wpc, dpc, sent,
                   appended>>

LoggerStep == LCheck \/ LWait \/ LWoken \/ LTimeout \/ LFlush

-----------------------------------------------------------------------------
(* AsyncLogger::~AsyncLogger *)

\* if (isRunning()) stop(); __wait4Flush.notify_all();
DStop ==
    /\ MayExit
    /\ dpc = "none"
    /\ running' = FALSE
    /\ notified' = (notified \/ lpc = "waiting")
    /\ dpc' = "flush"
    /\ UNCHANGED <<buffers, file, overflow, lpc, wpc, sent, appended, flushed>>

DFlushNotCurrent ==
    /\ dpc = "flush"
    /\ flush2LogFile(local \o alternate) /\ out' = NoPath
    /\ local' = <<>> /\ alternate' = <<>>
    /\ dpc' = "done"
    /\ UNCHANGED <<current, nbufs, back, control, lpc, wpc, sent, appended>>

\* Both locks held: __loggerLocal, then __alternate, then __current are flushed
\* and the file is closed.
DFlush ==
    /\ dpc = "flush"
    /\ flush2LogFile(local \o alternate \o current) /\ out' = NoPath
    /\ local' = <<>> /\ alternate' = <<>>
    /\ current' = <<>> /\ nbufs' = 0 /\ back' = 0
    /\ dpc' = "done"
    /\ UNCHANGED <<control, lpc, wpc, sent, appended>>

-----------------------------------------------------------------------------
Init ==
    /\ current = <<>> /\ nbufs = 0 /\ back = 0
    /\ alternate = <<>> /\ local = <<>>
    /\ overflow = 2
    /\ running = TRUE /\ notified = FALSE
    /\ out \in IF FileMayFail THEN {NoPath} ELSE Path
    /\ logFile = NoPath
    /\ lpc = "check"
    /\ wpc = [w \in Writer |-> "idle"]
    /\ sent = [w \in Writer |-> 0]
    /\ dpc = "none"
    /\ appended = <<>> /\ flushed = <<>> /\ written = <<>>
    /\ failed = FALSE

\* LogStreamBuffer cuts a message off at the capacity of its Buffer.
Logging(w) == appendCheck(w) \/ \E len \in 1..BufSize : append(w, len)

Next ==
    \/ \E w \in Writer : Logging(w)
    \/ LoggerStep
    \/ \E p \in Path : setLogFile(p)
    \/ \E n \in Overflows : setOverflowSize(n)
    \/ DStop \/ DFlush

Spec == Init /\ [][Next]_vars

\* Threads are scheduled and time passes: the logger thread goes on, a wait that is
\* entered over and over again times out once in a while (notifications and spurious
\* wake-ups do not always come first), and a destructor that has begun ends.
FairSpec ==
    /\ Spec
    /\ WF_vars(LoggerStep) /\ SF_vars(LTimeout)
    /\ WF_vars(DFlush)

-----------------------------------------------------------------------------
(* Properties *)

\* The messages accepted and not yet given to flush2LogFile, oldest first.
pending == local \o alternate \o current

\* Every variable keeps its type; in particular __overflow is never 0, with
\* which currentAvailable4 would call back() on an empty vector.
TypeOK ==
    /\ current \in Seq(Message) /\ alternate \in Seq(Message)
    /\ local \in Seq(Message)
    /\ nbufs \in Nat /\ back \in Nat
    /\ overflow \in Nat \ {0}
    /\ running \in BOOLEAN /\ notified \in BOOLEAN
    /\ out \in Path \cup {NoPath} /\ logFile \in Path \cup {NoPath}
    /\ lpc \in {"check", "enter", "waiting", "flush", "stopped"}
    /\ wpc \in [Writer -> {"idle", "lock"}]
    /\ sent \in [Writer -> 0..MaxMsg]
    /\ dpc \in {"none", "flush", "done"}
    /\ appended \in Seq(Message) /\ flushed \in Seq(Message)
    /\ written \in Seq(Message)
    /\ failed \in BOOLEAN

\* The swaps and moves between the three vectors, done by several threads and
\* by the destructor, neither lose nor repeat nor reorder a message: what has
\* been flushed and what the vectors hold is exactly what was appended.
Conserved == flushed \o pending = appended

\* __loggerLocal is empty except between taking a batch and flushing it, so the
\* swap leaves an empty __alternate behind and no old message comes back.
LocalEmptyOutsideFlush == lpc # "flush" => local = <<>>

\* Buffer::append cuts off what does not fit, silently: append2Current never
\* gives it more than the last Buffer has room for.
NothingCutOff == back <= BufSize

\* Of any two messages of one thread the one in front is the older one.
InOrder(s) ==
    \A i, j \in DOMAIN s :
        i < j /\ s[i][1] = s[j][1] => s[i][2] < s[j][2]

\* The messages of one thread are in the file in the order in which the thread
\* logged them, none twice, even across failed writes and a new log file.
PerThreadOrder == InOrder(written)

\* When the logger has been destroyed everything append accepted was given to the
\* file, and is in it if the disk works: a message on its way between two vectors is
\* not forgotten.
CompleteAtExit ==
    dpc = "done" => flushed = appended /\ (~FileMayFail => written = appended)

\* __current grows to at most __overflow Buffers ("overflow describe the max
\* size of __current"), whatever setOverflowSize has done in between.
CurrentBounded == [][nbufs' > nbufs => nbufs' <= overflow]_vars

\* The logger is a FIFO channel from append to the file.
Channel == INSTANCE LogChannel WITH Reliable <- ~FileMayFail
ImplementsChannel == Channel!Spec

\* The inductive invariant behind Conserved, NothingCutOff and CompleteAtExit:
\* with a working disk the file is open, until the destructor closes it, and
\* holds what was flushed; a destroyed logger holds nothing.
IInv ==
    /\ TypeOK /\ Conserved /\ NothingCutOff /\ LocalEmptyOutsideFlush
    /\ ~FileMayFail => ~failed /\ written = flushed
    /\ ~FileMayFail /\ dpc # "done" => out # NoPath
    /\ dpc = "done" => local = <<>> /\ alternate = <<>> /\ current = <<>>
    /\ \A w \in Writer : wpc[w] = "lock" => sent[w] < MaxMsg

\* The inductive invariant behind PerThreadOrder: the order extends from the file
\* to what is pending, and no thread has a message in front of it that it has not
\* logged yet.
OrderInv ==
    LET s == written \o pending IN
    /\ InOrder(s)
    /\ \A i \in DOMAIN s : s[i][2] <= sent[s[i][1]]

\* What was appended is flushed in the end, although a notification that comes
\* while the logger thread is busy is lost: the timeout makes up for it.
EventuallyFlushed ==
    \A n \in 1..MaxMsg * Cardinality(Writer) :
        Len(appended) >= n ~> Len(flushed) >= n

\* "If write failed, try to reopen": after a failed write the file is open
\* again (here every file can be opened).
ReopenedAfterFailure == failed => out # NoPath
=============================================================================
