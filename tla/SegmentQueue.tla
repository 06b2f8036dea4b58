------------------------------ MODULE SegmentQueue -----------------------------
(***************************************************************************)
(* clientSegmentQueue (src/client_segment_queue.go) between the goroutine  *)
(* that fills it, the downloader of a stream, and the one that empties it, *)
(* its processor.  A push is announced by closing the channel didPush and  *)
(* putting a new one in its place, a pull by the same with didPull; who    *)
(* has to wait copies the channel under the mutex and waits for the copy.  *)
(*                                                                         *)
(* A critical section of the mutex is a step.  A channel is the number of  *)
(* those closed before it, so that a copy is closed when it is not the     *)
(* current channel any more.                                               *)
(*                                                                         *)
(* What is pushed, and when, is for Downloader to say, which extends this  *)
(* module and is what TLC runs.                                            *)
(***************************************************************************)
EXTENDS Integers, Sequences

CONSTANTS
    Limit,      \* the size that the downloader waits for (1 in the code)
    MaxPushes   \* bound on the length of a run

ASSUME QueueAssumption == Limit \in Nat /\ MaxPushes \in Nat

VARIABLES
    queue,      \* the segments, each one the number of its push
    didPush,    \* the current channels
    didPull,
    downloader, \* where the downloader is
    throttled,  \* TRUE when it waits (traditional), FALSE when not (Low-Latency)
    pullCopy,   \* its copy of didPull
    processor,  \* where the processor is
    pushCopy,   \* its copy of didPush
    pushed,     \* how many segments have been pushed
    last,       \* the last segment pulled
    cancelled   \* the context of both

vars == << queue, didPush, didPull, downloader, throttled, pullCopy, processor,
           pushCopy, pushed, last, cancelled >>

\* "start": reads its first playlist; "push": downloads and pushes; "check": in waitUntilSizeIsBelow, wants the
\* mutex; "failed": has an error to push; "left": has pushed it.
DownloaderStates == {"start", "push", "check", "asleep", "failed", "left"}
ProcessorStates == {"pull", "asleep", "left"}

\* One type of all variables; the error is one push more than the segments.
TypeOK ==
    /\ queue \in Seq(Nat)
    /\ didPush \in Nat /\ didPull \in Nat /\ pullCopy \in Nat /\ pushCopy \in Nat
    /\ downloader \in DownloaderStates /\ processor \in ProcessorStates
    /\ pushed \in 0..MaxPushes + 1 /\ last \in Nat
    /\ throttled \in BOOLEAN /\ cancelled \in BOOLEAN

Init ==
    /\ queue = << >>
    /\ didPush = 0 /\ didPull = 0 /\ pullCopy = 0 /\ pushCopy = 0
    /\ downloader = "start" /\ processor = "pull"
    /\ pushed = 0 /\ last = 0
    /\ throttled = FALSE /\ cancelled = FALSE

--------------------------------------------------------------------------------
\* Mutants: the test for an empty queue comes after the append; the segment
\* goes to the front.
pushTestsLate ==
    /\ queue' = Append(queue, pushed + 1)
    /\ pushed' = pushed + 1
    /\ didPush' = IF queue' = << >> THEN didPush + 1 ELSE didPush

pushInFront ==
    /\ queue' = << pushed + 1 >> \o queue
    /\ pushed' = pushed + 1
    /\ didPush' = IF queue = << >> THEN didPush + 1 ELSE didPush

\* Only the push that finds the queue empty is announced.
push ==
    /\ queue' = Append(queue, pushed + 1)
    /\ pushed' = pushed + 1
    /\ didPush' = IF queue = << >> THEN didPush + 1 ELSE didPush

\* clientStreamDownloader.run: the first playlist tells how to go on, ...
StartDownloads ==
    /\ downloader = "start"
    /\ downloader' = "push" /\ throttled' \in BOOLEAN
    /\ UNCHANGED << queue, didPush, didPull, pullCopy, processor, pushCopy, pushed, last, cancelled >>

\* ... or cannot be downloaded: no queue is made.
StartFails ==
    /\ downloader = "start"
    /\ downloader' = "left"
    /\ UNCHANGED << throttled, queue, didPush, didPull, pullCopy, processor, pushCopy, pushed, last, cancelled >>

\* runTraditional and runLowLatency: a segment or a part is pushed.
PushSegment ==
    /\ downloader = "push" /\ pushed < MaxPushes
    /\ push
    /\ downloader' = IF throttled THEN "check" ELSE "push"
    /\ UNCHANGED << throttled, didPull, pullCopy, processor, pushCopy, last, cancelled >>

\* clientStreamDownloader.run: the error that ends the downloads is pushed
\* after everything else.
PushError ==
    /\ downloader \in {"push", "failed"}
    /\ push
    /\ downloader' = "left"
    /\ UNCHANGED << throttled, didPull, pullCopy, processor, pushCopy, last, cancelled >>

\* Mutant: one more segment is let in.
waitUntilSizeIsBelowLax ==
    /\ downloader = "check"
    /\ IF Len(queue) > Limit + 1
       THEN downloader' = "asleep" /\ pullCopy' = didPull
       ELSE downloader' = "push" /\ UNCHANGED pullCopy
    /\ UNCHANGED << throttled, queue, didPush, didPull, processor, pushCopy, pushed, last, cancelled >>

\* The test of the loop, with the copy of the channel.
waitUntilSizeIsBelow ==
    /\ downloader = "check"
    /\ IF Len(queue) > Limit
       THEN downloader' = "asleep" /\ pullCopy' = didPull
       ELSE downloader' = "push" /\ UNCHANGED pullCopy
    /\ UNCHANGED << throttled, queue, didPush, didPull, processor, pushCopy, pushed, last, cancelled >>

\* Mutant: the context is not among the cases of the select.
DownloaderWakesUncancelled ==
    /\ downloader = "asleep"
    /\ pullCopy # didPull /\ downloader' = "check"
    /\ UNCHANGED << throttled, queue, didPush, didPull, pullCopy, processor, pushCopy, pushed, last, cancelled >>

\* The select of the downloader: either case when both are ready.  The copy goes
\* out of scope.
DownloaderWakes ==
    /\ downloader = "asleep"
    /\ \/ pullCopy # didPull /\ downloader' = "check"
       \/ cancelled /\ downloader' = "failed"
    /\ pullCopy' = 0
    /\ UNCHANGED << throttled, queue, didPush, didPull, processor, pushCopy, pushed, last, cancelled >>

\* Mutant: a pull is only announced when it empties the queue.
pullAnnouncesEmpty ==
    /\ processor = "pull"
    /\ IF queue = << >>
       THEN /\ processor' = "asleep"
            /\ pushCopy' = didPush
            /\ UNCHANGED << queue, didPull, last >>
       ELSE /\ last' = Head(queue)
            /\ queue' = Tail(queue)
            /\ didPull' = IF queue' = << >> THEN didPull + 1 ELSE didPull
            /\ UNCHANGED << processor, pushCopy >>
    /\ UNCHANGED << throttled, didPush, downloader, pullCopy, pushed, cancelled >>

\* The first pass of the loop finds a segment, or copies the channel.  Nothing
\* is pulled after the error, which is the last thing to be pushed.
pull ==
    /\ processor = "pull"
    /\ IF queue = << >>
       THEN /\ processor' = "asleep"
            /\ pushCopy' = didPush
            /\ UNCHANGED << queue, didPull, last >>
       ELSE /\ last' = Head(queue)
            /\ queue' = Tail(queue)
            /\ didPull' = didPull + 1
            /\ processor' = IF downloader = "left" /\ Len(queue) = 1 THEN "left" ELSE "pull"
            /\ UNCHANGED pushCopy
    /\ UNCHANGED << throttled, didPush, downloader, pullCopy, pushed, cancelled >>

\* The select of the processor.
ProcessorWakes ==
    /\ processor = "asleep"
    /\ \/ pushCopy # didPush /\ processor' = "pull"
       \/ cancelled /\ processor' = "left"
    /\ pushCopy' = 0
    /\ UNCHANGED << throttled, queue, didPush, didPull, downloader, pullCopy, pushed, last, cancelled >>

\* A segment that cannot be processed ends the processor; the client that is
\* told of it cancels the context.
ProcessorFails ==
    /\ processor = "pull" /\ last > 0
    /\ processor' = "left"
    /\ UNCHANGED << throttled, queue, didPush, didPull, downloader, pullCopy, pushCopy, pushed, last, cancelled >>

Cancel ==
    /\ ~cancelled
    /\ cancelled' = TRUE
    /\ UNCHANGED << throttled, queue, didPush, didPull, downloader, pullCopy, processor, pushCopy, pushed, last >>

DownloaderNext ==
    StartDownloads \/ StartFails \/ PushSegment \/ PushError \/ waitUntilSizeIsBelow \/ DownloaderWakes
ProcessorNext == pull \/ ProcessorWakes

Next == DownloaderNext \/ ProcessorNext \/ ProcessorFails \/ Cancel

Spec == Init /\ [][Next]_vars

--------------------------------------------------------------------------------
\* No announcement is missed: whoever sleeps on a channel that is still open
\* has nothing to wake up for.
NoMissedAnnouncement ==
    /\ processor = "asleep" /\ pushCopy = didPush => queue = << >>
    /\ downloader = "asleep" /\ pullCopy = didPull => Len(queue) > Limit

\* The downloader of a traditional stream does not run ahead of the processor: when
\* it downloads, at most Limit segments wait, and never more than one above, with
\* the error behind them when it has been cancelled.
DownloadsThrottled ==
    throttled =>
        /\ downloader = "push" => Len(queue) <= Limit
        /\ downloader \in {"check", "asleep", "failed"} => Len(queue) <= Limit + 1
        /\ Len(queue) <= Limit + 2

\* The queue is a pipe: nothing is lost, duplicated or reordered.
Pipeline == INSTANCE Pipe WITH
    room <- IF throttled THEN Limit + 2 ELSE MaxPushes + 1,
    sent <- pushed,
    received <- last

IsPipe == Pipeline!Spec

\* Both goroutines leave the queue when their context is cancelled.
CancelReleases == cancelled ~> downloader = "left" /\ processor = "left"
================================================================================
