---------------------------- MODULE Supervision ----------------------------
(***************************************************************************)
(* How a connection watches the server's heart-beats (poll_next,           *)
(* poll_server_timeout and Monitored in src/src/client.rs), in discrete    *)
(* time. The server sends beats and frames, or nothing, as it likes; the   *)
(* application polls the stream, stays away from it as long as it likes,   *)
(* or drops the future it waits on. Both kinds of transport read this way. *)
(*                                                                         *)
(* A read goes through tokio, which asks the kernel only when its I/O      *)
(* driver has reported the socket readable, and only while the task has    *)
(* budget left: a poll may be pending with data in the kernel.             *)
(*                                                                         *)
(* The module is about a connection with automatic heart-beating and an    *)
(* incoming interval: without them supervise is None and poll_next only    *)
(* reads.                                                                  *)
(***************************************************************************)
EXTENDS Clock, Sequences

CONSTANTS
    Incoming,  \* the negotiated incoming interval
    MaxInbox   \* bound: what the socket holds unread

ASSUME SupervisionAssumption ==
    /\ Incoming \in Nat \ {0}
    /\ MaxInbox \in Nat

VARIABLES
    inbox,     \* what has arrived unread, in order: bytes that complete a
               \* frame, or bytes that do not, such as a heart-beat
    closed,    \* the server has closed its side
    readiness, \* tokio's cached readiness of the socket
    reported,  \* history: when the I/O driver last reported anything
    last,      \* Monitored.last_read
    buffered,  \* complete frames in the read buffer of FramedRead
    tick,      \* when the ticker of supervise is next due
    reader,    \* the application: away, or parked in next()
    spent,     \* the last poll was cut short by tokio's cooperative budget
    out        \* what the poll made in this step returned, if one was made

serverVars == <<inbox, closed, readiness, reported>>
supervisionVars == <<now, serverVars, last, buffered, tick, reader, spent, out>>

Tolerance == Incoming * 2

\* ClientTransport::new, the CONNECTED frame just read, and perhaps more with
\* it: the first tick of an interval is due at once.
SupervisionInit ==
    /\ now = 0 /\ inbox = << >> /\ closed = FALSE
    /\ readiness \in {"none", "readable"} /\ reported = 0
    /\ last = 0 /\ buffered \in 0..MaxInbox /\ tick = 0
    /\ reader = "away" /\ spent = FALSE /\ out = "none"

-----------------------------------------------------------------------------
(* The stream *)

Frames(s) == Len(SelectSeq(s, LAMBDA x : x = "frame"))

\* Reading r of what has arrived: Monitored stamps the read. A read that
\* empties the socket clears tokio's readiness, unless the buffer was just
\* full; that the server has closed is never cleared.
Take(r) ==
    /\ inbox' = SubSeq(inbox, r + 1, Len(inbox))
    /\ last' = IF r = 0 THEN last ELSE now
    /\ \/ UNCHANGED readiness
       \/ r = Len(inbox) /\ readiness = "readable" /\ readiness' = "none"

\* Fault: a frame is handed out whether or not one is complete.
PollBufferedEmpty ==
    /\ buffered' = buffered - 1
    /\ reader' = "away" /\ spent' = FALSE /\ out' = "frame"
    /\ UNCHANGED <<now, serverVars, last, tick>>

\* FramedRead still holds a frame of an earlier read: no read is made.
PollBuffered ==
    /\ buffered > 0
    /\ buffered' = buffered - 1
    /\ reader' = "away" /\ spent' = FALSE /\ out' = "frame"
    /\ UNCHANGED <<now, serverVars, last, tick>>

\* It reads until a frame is complete; how much more the last read takes is
\* up to the socket.
PollRead ==
    /\ buffered = 0 /\ readiness # "none"
    /\ \E r \in 1..Len(inbox) :
        /\ Frames(SubSeq(inbox, 1, r)) > 0
        /\ buffered' = Frames(SubSeq(inbox, 1, r)) - 1
        /\ Take(r)
    /\ reader' = "away" /\ spent' = FALSE /\ out' = "frame"
    /\ UNCHANGED <<now, closed, reported, tick>>

\* The server has closed its side and everything it sent has been read.
PollEnd ==
    /\ buffered = 0 /\ readiness # "none"
    /\ Frames(inbox) = 0 /\ closed
    /\ Take(Len(inbox))
    /\ reader' = "away" /\ spent' = FALSE /\ out' = "end"
    /\ UNCHANGED <<now, closed, reported, buffered, tick>>

\* Fault: the ticker is set to the tolerance instead of the interval.
DrainTickerSlow == tick' = IF tick <= now THEN now + Tolerance ELSE tick

\* poll_tick until it is pending: a tick that is due re-arms the ticker, from
\* now on when it comes late (MissedTickBehavior::Delay).
DrainTicker == tick' = IF tick <= now THEN now + Incoming ELSE tick

\* Fault: the server is judged on the stamp from before this poll's reads.
JudgeStale ==
    IF now - last > Tolerance
    THEN reader' = "away" /\ out' = "timeout"
    ELSE reader' = "parked" /\ out' = "pending"

\* poll_server_timeout's verdict, on the stamp Monitored has after the reads.
Judge ==
    IF now - last' > Tolerance
    THEN reader' = "away" /\ out' = "timeout"
    ELSE reader' = "parked" /\ out' = "pending"

\* No frame is to be had. A socket reported readable is read until it is
\* empty, and what there is are heart-beats, which the codec drops; any other
\* is not read at all, whatever the kernel has. Either way the server is
\* judged in the same poll.
PollPending ==
    /\ buffered = 0
    /\ \/ /\ readiness = "readable"
          /\ Frames(inbox) = 0 /\ (closed => inbox # << >>)
          /\ Take(Len(inbox))
       \/ /\ readiness = "none"
          /\ Take(0)
    /\ readiness' = "none"
    /\ DrainTicker /\ Judge
    /\ spent' = FALSE
    /\ UNCHANGED <<now, closed, reported, buffered>>

\* The task's budget is used up, before the first read or between two: tokio
\* makes the next read pending, and the ticker too, and wakes the task again.
\* The server is judged all the same.
PollExhausted ==
    /\ buffered = 0
    /\ \E r \in 0..Len(inbox) :
        /\ r > 0 => readiness # "none"
        /\ Frames(SubSeq(inbox, 1, r)) = 0
        /\ Take(r)
    /\ Judge
    /\ spent' = TRUE
    /\ UNCHANGED <<now, closed, reported, buffered, tick>>

Poll == PollBuffered \/ PollRead \/ PollEnd \/ PollPending \/ PollExhausted

\* The future waiting in next() is dropped.
Leave ==
    /\ reader = "parked"
    /\ reader' = "away" /\ out' = "none"
    /\ UNCHANGED <<now, serverVars, last, buffered, tick, spent>>

-----------------------------------------------------------------------------
(* The server, the I/O driver and the clock *)

ServerSends(what) ==
    /\ ~closed /\ Len(inbox) < MaxInbox
    /\ inbox' = Append(inbox, what)
    /\ out' = "none"
    /\ UNCHANGED <<now, closed, readiness, reported, last, buffered, tick, reader, spent>>

Close ==
    /\ ~closed
    /\ closed' = TRUE
    /\ out' = "none"
    /\ UNCHANGED <<now, inbox, readiness, reported, last, buffered, tick, reader, spent>>

\* tokio's I/O driver learns from the kernel what the socket has. While the
\* application keeps its thread busy it may be arbitrarily late.
Driver ==
    /\ inbox # << >> \/ (closed /\ readiness # "closed")
    /\ readiness' = IF closed THEN "closed" ELSE "readable"
    /\ reported' = now
    /\ out' = "none"
    /\ UNCHANGED <<now, inbox, closed, last, buffered, tick, reader, spent>>

\* The executor runs the driver and polls a woken task before the clock moves
\* on: a parked reader is woken by the socket, by the ticker and, when its
\* budget ran out, at once.
Woken == reader = "parked" /\ (inbox # << >> \/ closed \/ tick <= now \/ spent)

TimePasses ==
    /\ ~Woken
    /\ now < MaxTime
    /\ now' = now + 1
    /\ out' = "none"
    /\ UNCHANGED <<serverVars, last, buffered, tick, reader, spent>>

SupervisionNext ==
    \/ Poll
    \/ Leave
    \/ \E what \in {"beat", "frame"} : ServerSends(what)
    \/ Close
    \/ Driver
    \/ TimePasses

SupervisionSpec == SupervisionInit /\ [][SupervisionNext]_supervisionVars

-----------------------------------------------------------------------------
(* Properties *)

\* Every variable keeps its type, and nothing is stamped in the future.
SupervisionTypeOK ==
    /\ now \in Nat /\ reported \in 0..now /\ last \in 0..now
    /\ inbox \in Seq({"beat", "frame"}) /\ closed \in BOOLEAN
    /\ readiness \in {"none", "readable", "closed"}
    /\ buffered \in Nat /\ tick \in Nat
    /\ reader \in {"away", "parked"} /\ spent \in BOOLEAN
    /\ out \in {"none", "frame", "end", "timeout", "pending"}

\* What poll_next was told of in time counts: however long the application
\* stayed away and whatever piled up meanwhile, the stream reports silence
\* only when the I/O driver has reported nothing within twice the interval,
\* because reading comes before judging; or when the task's budget kept it
\* from reading. What the driver has not reported yet does not count.
ReportedIsHeard == out = "timeout" => spent \/ now - reported > Tolerance

\* A reader waiting in next() is never left waiting on a server that has been
\* quiet for longer than the tolerance and one more tick.
SilenceIsNoticed == reader = "parked" => now <= last + Tolerance + Incoming
=============================================================================
