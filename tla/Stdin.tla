-------------------------------- MODULE Stdin --------------------------------
(***************************************************************************)
(* fibers::io::stdin (src/src/io/stdio.rs): a thread that reads standard   *)
(* input, and a Stdin whose read calls tell it to lock the input and, when *)
(* there is something to read, how much; then the fiber spins until it has *)
(* it.  requests is an ordinary channel, responses one of fibers::sync.    *)
(***************************************************************************)
EXTENDS FiberFutures

CONSTANTS
  Input,    \* the future of a read from standard input
  MaxInput  \* bound of the environment: how often somebody types something

ASSUME StdinAssumption == Input \in Futures /\ MaxInput \in Nat

VARIABLES
  lockRequested,  \* Stdin.lock_requested
  spinning,       \* read is in its inner loop
  requests,       \* "lock" (0) or "size"
  responses,      \* "ack" (an empty vector), "data", "error"
  reader,         \* the thread: "lock" (the first phase) -> "locking" ->
                  \* "check" -> "read" -> "lock", or to its end:
                  \* "closing" -> "notified" -> "gone",
                  \* which it also is if no fiber calls stdin
  locked,         \* the thread holds the process' lock of standard input
  input,          \* what has been typed and not read
  typed, eof

stdinVars == <<lockRequested, spinning, requests, responses, reader, locked,
               input, typed, eof>>

\* The two ends of the channels that the reader thread has.
ReaderReceives == reader \notin {"closing", "notified", "gone"}
StdinDropped == user[Input] = NoTask

\* The first read asks for the lock and would block; it does not look at the
\* responses, and so does not park the fiber.  A request finds its receiver
\* (StdinInStep), so that the error of a send is not modelled.
RequestLock(t) ==
  /\ Polls(Input, t) /\ ~ spinning /\ ~ lockRequested
  /\ lockRequested' = TRUE
  /\ requests' = Append(requests, "lock")
  /\ ReturnNotReady(Input)
  /\ UNCHANGED <<lifecycleVars, program, waiter, user, moves, spinning, responses,
                 reader, locked, input, typed, eof>>

\* Mutant of AwaitLock: a read that would block asks again the next time.
AwaitLockAgain(t) ==
  /\ Polls(Input, t) /\ ~ spinning /\ lockRequested
  /\ \/ /\ responses = <<>> /\ reader # "gone"
        /\ Await(Input, t) /\ ReturnNotReady(Input)
        /\ lockRequested' = FALSE
        /\ UNCHANGED <<requests, spinning>>
     \/ /\ responses # <<>>
        /\ lockRequested' = FALSE
        /\ requests' = Append(requests, "size")
        /\ spinning' = TRUE /\ StayIn(Input)
        /\ UNCHANGED <<lifecycleVars, waiter>>
  /\ responses' = IF responses = <<>> THEN responses ELSE Tail(responses)
  /\ UNCHANGED <<program, user, moves, reader, locked, input, typed, eof>>

\* The next reads look for the response.  It never is an error (the thread ends
\* instead), so it is answered by the size.
AwaitLock(t) ==
  /\ Polls(Input, t) /\ ~ spinning /\ lockRequested
  /\ \/ /\ responses = <<>> /\ reader # "gone"
        /\ Await(Input, t) /\ ReturnNotReady(Input)
        /\ UNCHANGED <<lockRequested, requests, spinning>>
     \/ /\ responses = <<>> /\ reader = "gone"
        /\ ReturnReady(Input)
        /\ UNCHANGED <<lifecycleVars, waiter, lockRequested, requests, spinning>>
     \/ /\ responses # <<>>
        /\ lockRequested' = FALSE
        /\ requests' = Append(requests, "size")
        /\ spinning' = TRUE /\ StayIn(Input)
        /\ UNCHANGED <<lifecycleVars, waiter>>
  /\ responses' = IF responses = <<>> THEN responses ELSE Tail(responses)
  /\ UNCHANGED <<program, user, moves, reader, locked, input, typed, eof>>

\* The inner loop: each poll without a result parks the fiber, which goes on.
Spin(t) ==
  /\ Polls(Input, t) /\ spinning
  /\ \/ /\ responses = <<>> /\ reader # "gone" /\ waiter[Input] # t
        /\ Await(Input, t) /\ StayIn(Input)
        /\ UNCHANGED <<spinning, responses>>
     \/ /\ responses # <<>> \/ reader = "gone"
        /\ responses' = IF responses = <<>> THEN responses ELSE Tail(responses)
        /\ spinning' = FALSE
        /\ ReturnReady(Input)
        /\ UNCHANGED <<lifecycleVars, waiter>>
  /\ UNCHANGED <<program, user, moves, lockRequested, requests, reader, locked,
                 input, typed, eof>>

PollStdin(t) == RequestLock(t) \/ AwaitLock(t) \/ Spin(t)

----------------------------------------------------------------------------
(* The reader thread                                                        *)

ReaderKeeps == UNCHANGED <<program, user, pollVars, moves, lockRequested, spinning, typed, eof>>

\* (1) A request is received, whichever it is, or the loop ends.
ReceiveLock ==
  /\ reader = "lock"
  /\ \/ requests # <<>> /\ requests' = Tail(requests) /\ reader' = "locking"
     \/ requests = <<>> /\ StdinDropped /\ reader' = "closing" /\ UNCHANGED requests
  /\ ReaderKeeps
  /\ UNCHANGED <<lifecycleVars, waiter, responses, locked, input>>

LockInput ==
  /\ reader = "locking"
  /\ locked' = TRUE
  /\ reader' = "check"
  /\ ReaderKeeps
  /\ UNCHANGED <<lifecycleVars, waiter, requests, responses, input>>

\* Leaving the loop, or a turn of it, unlocks the input.
Leave(phase) == reader' = phase /\ locked' = FALSE

\* What the thread sends is lost if Stdin was dropped.
Respond(r) ==
  /\ responses' = IF StdinDropped THEN responses ELSE Append(responses, r)
  /\ Notify(Input)

\* Mutant of CheckInput: the lock is released when the input has been checked.
CheckInputOnly ==
  /\ reader = "check"
  /\ input > 0 \/ eof
  /\ Leave(IF StdinDropped THEN "closing" ELSE "read")
  /\ Respond("ack")
  /\ ReaderKeeps
  /\ UNCHANGED <<requests, input>>

\* (2) The read of nothing blocks until there is something to read, and then
\* tells so; an error, or that nobody wants to know, ends the thread.
CheckInput ==
  /\ reader = "check"
  /\ \/ /\ input > 0 \/ eof
        /\ ~ StdinDropped
        /\ reader' = "read" /\ UNCHANGED locked
        /\ Respond("ack")
     \/ /\ eof \/ (StdinDropped /\ input > 0)
        /\ Leave("closing")
        /\ UNCHANGED <<lifecycleVars, waiter, responses>>
  /\ ReaderKeeps
  /\ UNCHANGED <<requests, input>>

\* (3) The size is received, whatever it is, and that much is read.
ReadInput ==
  /\ reader = "read"
  /\ \/ /\ requests # <<>> /\ (input > 0 \/ eof)
        /\ requests' = Tail(requests)
        /\ \/ input' = (IF input > 0 THEN input - 1 ELSE 0) /\ Respond("data")
           \/ eof /\ UNCHANGED input /\ Respond("error")
        /\ Leave(IF StdinDropped THEN "closing" ELSE "lock")
     \/ /\ requests = <<>> /\ StdinDropped
        /\ Leave("closing")
        /\ UNCHANGED <<lifecycleVars, waiter, requests, responses, input>>
  /\ ReaderKeeps

\* The thread's sender is dropped: it notifies, and then disconnects.
EndReader ==
  /\ \/ reader = "closing" /\ reader' = "notified" /\ Notify(Input)
     \/ reader = "notified" /\ reader' = "gone" /\ UNCHANGED <<lifecycleVars, waiter>>
  /\ ReaderKeeps
  /\ UNCHANGED <<requests, responses, locked, input>>

ReaderThread == ReceiveLock \/ LockInput \/ CheckInput \/ ReadInput \/ EndReader

\* Somebody types; or another thread of the process reads standard input; or
\* it ends or fails, and from then on no read of it blocks.  (A bound: nothing
\* of it is of interest without the thread.)
Typing ==
  /\ reader # "gone"
  /\ \/ typed < MaxInput /\ ~ eof /\ typed' = typed + 1 /\ input' = input + 1 /\ UNCHANGED eof
     \/ ~ locked /\ input > 0 /\ input' = input - 1 /\ UNCHANGED <<typed, eof>>
     \/ ~ eof /\ eof' = TRUE /\ UNCHANGED <<typed, input>>
  /\ UNCHANGED <<lifecycleVars, futuresVars, lockRequested, spinning, requests, responses,
                 reader, locked>>

StdinInit ==
  /\ lockRequested = FALSE /\ spinning = FALSE
  /\ requests = <<>> /\ responses = <<>>
  /\ reader = IF StdinDropped THEN "gone" ELSE "lock"
  /\ locked = FALSE
  /\ input = 0 /\ typed = 0 /\ eof = FALSE

StdinTypeOK ==
  /\ lockRequested \in BOOLEAN /\ spinning \in BOOLEAN
  /\ requests \in Seq({"lock", "size"}) /\ responses \in Seq({"ack", "data", "error"})
  /\ reader \in {"lock", "locking", "check", "read", "closing", "notified", "gone"}
  /\ locked \in BOOLEAN
  /\ input \in 0 .. MaxInput /\ typed \in 0 .. MaxInput /\ eof \in BOOLEAN

\* Stdin and the reader thread never take one message for another: the lock
\* phase receives a request for the lock (the assertion x == 0), the read phase
\* a size, the first response that a read sees is the acknowledgement, and the
\* spinning read gets the data or their error.  Whenever read sends a request,
\* the thread is there to receive it.
StdinInStep ==
  /\ reader = "lock" /\ requests # <<>> => Head(requests) = "lock"
  /\ reader = "read" /\ requests # <<>> => Head(requests) = "size"
  /\ responses # <<>> => (spinning <=> Head(responses) # "ack")
  /\ Len(requests) + Len(responses) <= 1
  /\ ~ StdinDropped /\ (~ lockRequested \/ responses # <<>>) => ReaderReceives
=============================================================================
