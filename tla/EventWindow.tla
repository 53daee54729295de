---------------------------- MODULE EventWindow ----------------------------
(***************************************************************************)
(* The dashboard's event window (peer/events.go), the routes that write    *)
(* chat events into it (hub/routes_events.go) and the SSE handler that     *)
(* follows it (hub/events_stream.go).                                      *)
(*                                                                         *)
(* Events are numbered in the order in which push() appends them, so the   *)
(* number is the event id.  push() appends under the window's lock, takes  *)
(* a snapshot of the subscribers, and signals them after the unlock: the   *)
(* signal is a step of its own, and several pushes may owe theirs.  The    *)
(* wake channel has room for one token.                                    *)
(***************************************************************************)
EXTENDS Naturals, Sequences, SequencesExt

CONSTANTS WindowCap,   \* eventsBufferCapacity
          FinalCap     \* finalizedTurnIDsCapacity

ASSUME WindowAssumption == WindowCap \in Nat \ {0} /\ FinalCap \in Nat

VARIABLES window,     \* eventBuffer.events, oldest first
          pushed,     \* how many events were pushed
          owed,       \* pushes that have yet to signal the subscriber
          stream,     \* one /events/stream handler
          finalized,  \* finalizedOrder: turns whose final chat_turn was posted
          delta       \* the turn of a chat_delta between its check and its push

winVars == <<window, pushed, owed, stream, finalized, delta>>

NoStream == [at |-> "off", cursor |-> 0, token |-> FALSE, base |-> 0]

WindowInit ==
  /\ window = <<>> /\ pushed = 0 /\ owed = 0
  /\ stream = NoStream
  /\ finalized = <<>> /\ delta = 0

WindowTypeOK ==
  /\ Len(window) <= WindowCap
  /\ \A i \in DOMAIN window : window[i] = pushed - Len(window) + i
  /\ stream.cursor <= pushed
  /\ Len(finalized) <= FinalCap

\* The last n elements of s: what stays when the oldest are evicted.
Newest(s, n) == IF Len(s) > n THEN SubSeq(s, Len(s) - n + 1, Len(s)) ELSE s

\* A push that evicts nothing.
PushUnbounded ==
  /\ pushed' = pushed + 1
  /\ window' = Append(window, pushed + 1)
  /\ owed' = IF stream.at \in {"off", "gone"} THEN owed ELSE owed + 1
  /\ UNCHANGED stream

\* A push that forgets the subscribers it found while it held the lock.
PushSilent ==
  /\ pushed' = pushed + 1
  /\ window' = Newest(Append(window, pushed + 1), WindowCap)
  /\ UNCHANGED <<owed, stream>>

\* push: append, evict the oldest beyond the capacity and, with a subscriber
\* registered, owe it a signal.
Push ==
  /\ pushed' = pushed + 1
  /\ window' = Newest(Append(window, pushed + 1), WindowCap)
  /\ owed' = IF stream.at \in {"off", "gone"} THEN owed ELSE owed + 1
  /\ UNCHANGED stream

\* The non-blocking send of a push that has left the lock.
Signal ==
  /\ owed > 0
  /\ owed' = owed - 1
  /\ stream' = [stream EXCEPT !.token = @ \/ stream.at # "gone"]
  /\ UNCHANGED <<window, pushed, finalized, delta>>

\* EventsSince: what follows the cursor, or the whole window when the cursor
\* is empty or evicted.
EventsSince(id) ==
  IF Contains(window, id)
    THEN LET i == CHOOSE j \in 1 .. Len(window) : window[j] = id
         IN  SubSeq(window, i + 1, Len(window))
    ELSE window

\* AddEvent: the journal row is written, or fails to be, and mirrored into the
\* window either way (appendEvent, appendStructured).
AddEvent == Push

-----------------------------------------------------------------------------
(* POST /events/chat and /events/chat_delta *)

\* markTurnFinalized: the key moves to, or enters at, the back of the FIFO.
MarkTurnFinalized(t) ==
  finalized' = Newest(Append(RemoveFirst(finalized, t), t), FinalCap)

IsTurnFinalized(t) == Contains(finalized, t)

\* ingestChatTurn of an assistant turn.
IngestChatTurn(t) == MarkTurnFinalized(t) /\ AddEvent /\ UNCHANGED delta

\* ingestChatTurnDelta, up to the check: a late delta is answered and dropped.
DeltaChecked(t) ==
  /\ delta = 0
  /\ delta' = IF IsTurnFinalized(t) THEN 0 ELSE t
  /\ UNCHANGED <<window, pushed, owed, stream, finalized>>

\* ... and the AddEvent of one that passed it.
DeltaAdded ==
  /\ delta # 0 /\ delta' = 0
  /\ AddEvent
  /\ UNCHANGED finalized

-----------------------------------------------------------------------------
(* handleEventsStream *)

\* SubscribeEvents, before the initial flush.
Subscribe ==
  /\ stream.at = "off"
  /\ stream' = [stream EXCEPT !.at = "subscribed"]
  /\ UNCHANGED <<window, pushed, owed, finalized, delta>>

\* GetEvents and the initial flush: the cursor is the last event written.
InitialFlush ==
  /\ stream.at = "subscribed"
  /\ stream' = [stream EXCEPT !.at = "flushed",
                              !.cursor = IF window = <<>> THEN 0 ELSE Last(window)]
  /\ UNCHANGED <<window, pushed, owed, finalized, delta>>

\* The drain of a wake raised during the flush, and the loop begins.
DrainWake ==
  /\ stream.at = "flushed"
  /\ stream' = [stream EXCEPT !.at = "loop", !.token = FALSE, !.base = pushed]
  /\ UNCHANGED <<window, pushed, owed, finalized, delta>>

\* <-wake: the token is taken, the window is read a moment later.
TakeWake ==
  /\ stream.at = "loop" /\ stream.token
  /\ stream' = [stream EXCEPT !.at = "woken", !.token = FALSE]
  /\ UNCHANGED <<window, pushed, owed, finalized, delta>>

\* EventsSince(cursor) written out, the cursor moved to its last event.
WriteNew ==
  /\ stream.at = "woken"
  /\ LET new == EventsSince(stream.cursor)
     IN  stream' = [stream EXCEPT !.at = "loop",
                                  !.cursor = IF new = <<>> THEN @ ELSE Last(new)]
  /\ UNCHANGED <<window, pushed, owed, finalized, delta>>

\* The client leaves (or a write fails): the handler returns and unsubscribes.
StreamGone ==
  /\ stream.at \in {"subscribed", "flushed", "loop", "woken"}
  /\ stream' = [NoStream EXCEPT !.at = "gone"]
  /\ UNCHANGED <<window, pushed, owed, finalized, delta>>

StreamStep == InitialFlush \/ DrainWake \/ TakeWake \/ WriteNew

\* A follower that waits with no token, and no signal on its way, has written the
\* last event, or none was pushed since its loop began: the safety half of
\* LoopEventsShown (the signal after the unlock in push, the read after the token
\* in handleEventsStream).
FollowerCovered ==
  stream.at = "loop" /\ ~stream.token /\ owed = 0
    => stream.cursor = pushed \/ stream.base = pushed

\* Once an event is pushed after the stream entered its loop, the stream always
\* catches up with the window: no push between the token and the read, no coalesced
\* or late signal and no eviction of the cursor leaves that event, or an earlier
\* one, behind (push, handleEventsStream, EventsSince).
LoopEventsShown ==
  []<>(stream.at \in {"loop", "woken"} => stream.cursor = pushed \/ stream.base = pushed)

\* A stream in its loop always catches up with the window, also with the events
\* added while it wrote the initial flush.
StreamCatchesUp ==
  []<>(stream.at \in {"loop", "woken"} => stream.cursor = pushed)
=============================================================================
