----------------------------- MODULE Observation -----------------------------
(*****************************************************************************)
(* The browser of one agent as BrowserObservationService keeps it, and the   *)
(* screenshots that ScreenshotModeService streams of it.  Every call opens a *)
(* connection of its own to the one browser, so calls of the tool, the       *)
(* routes and the stream's timer interleave; each is its steps between the   *)
(* answers of the browser.  A page is a number, and the hash of its picture  *)
(* is the number.                                                            *)
(*****************************************************************************)
EXTENDS Naturals

CONSTANTS
  ObsCalls,   \* calls that may be in flight
  Viewers,    \* connections to the screenshot stream
  MaxPage     \* navigations of the browser

ASSUME ObsAssumption == MaxPage \in Nat \ {0}

VARIABLES
  browser,    \* sessionStatus
  tracing,    \* traceStatus
  call,       \* the calls in flight
  page,       \* external: what the browser shows
  ticking,    \* the stream's timer runs
  lastHash,   \* of the last streamed picture; 0 is null
  frame,      \* what each viewer shows: Away, or the last picture it got, 0 for none
  muddled     \* history: a trace was started while another trace call was under way
              \* or a stop failed before it reached the browser

obsVars == <<browser, tracing, call, page, ticking, lastHash, frame, muddled>>

stream == <<ticking, lastHash, frame>>

Away == MaxPage + 1   \* not connected

NoCall == [kind |-> "none", step |-> "none", shot |-> 0]

ObsInit ==
  /\ browser = "disconnected" /\ tracing = "idle" /\ page = 1
  /\ call = [o \in ObsCalls |-> NoCall]
  /\ ticking = FALSE /\ lastHash = 0 /\ frame = [v \in Viewers |-> Away]
  /\ muddled = FALSE

At(o, kind, step) == call[o].kind = kind /\ call[o].step = step

Free(o) == call[o] = NoCall

Launched(o, kind, step) == call' = [call EXCEPT ![o] = [kind |-> kind, step |-> step, shot |-> 0]]

Moved(o, step) == call' = [call EXCEPT ![o].step = step]

Ended(o) == call' = [call EXCEPT ![o] = NoCall]

Tracers == {o \in ObsCalls : call[o].kind \in {"startTrace", "stopTrace"}}

------------------------------------------------------------------------------
\* navigate(), called by the tool.
navigate(o) ==
  /\ Free(o) /\ Launched(o, "navigate", "going") /\ browser' = "connecting"
  /\ UNCHANGED <<tracing, page, stream, muddled>>

\* The page was loaded (or the wait for its event ends later without it); then the tabs are
\* listed over another connection, which marks the session connected.
Loaded(o) ==
  /\ At(o, "navigate", "going") /\ Moved(o, "loaded")
  /\ page' \in {page, page + 1} /\ page' <= MaxPage
  /\ browser' \in {browser, "connected"}
  /\ UNCHANGED <<tracing, stream, muddled>>

\* Mutant: a browser that cannot be found is reported to the caller only.
NavigateFailsQuietly(o) ==
  /\ call[o].kind = "navigate" /\ call[o].step \in {"going", "loaded"} /\ Ended(o)
  /\ browser' \in {browser, "error"}
  /\ UNCHANGED <<tracing, page, stream, muddled>>

\* No browser, no connection, an error text or no load event in time: markError.
NavigateFails(o) ==
  /\ call[o].kind = "navigate" /\ call[o].step \in {"going", "loaded"} /\ Ended(o)
  /\ browser' = "error"
  /\ UNCHANGED <<tracing, page, stream, muddled>>

Navigated(o) ==
  /\ At(o, "navigate", "loaded") /\ Moved(o, "persisting")
  /\ browser' = "connected"
  /\ UNCHANGED <<tracing, page, stream, muddled>>

\* The tool writes rows of events, and takes a screenshot, which may fail quietly; an error of
\* an INSERT is reported as one of the navigation.
Persisted(o) ==
  /\ At(o, "navigate", "persisting") /\ Ended(o)
  /\ browser' \in {browser, "connected"}
  /\ UNCHANGED <<tracing, page, stream, muddled>>

\* The other readers: the tabs and a screenshot of a route.  They mark the session when
\* they succeed, and leave it alone when they do not.
Read(o) ==
  /\ Free(o) /\ Launched(o, "read", "going")
  /\ UNCHANGED <<browser, tracing, page, stream, muddled>>

ReadEnds(o) ==
  /\ At(o, "read", "going") /\ Ended(o) /\ browser' \in {browser, "connected"}
  /\ UNCHANGED <<tracing, page, stream, muddled>>

------------------------------------------------------------------------------
\* Tracing.

startTrace(o) ==
  /\ Free(o) /\ tracing # "recording" /\ Launched(o, "startTrace", "going")
  /\ muddled' = (muddled \/ Tracers # {})
  /\ UNCHANGED <<browser, tracing, page, stream>>

\* The state is written after the answers of the browser, whatever it is by then.
TraceStarts(o) ==
  /\ At(o, "startTrace", "going") /\ Ended(o)
  /\ tracing' \in {tracing, "recording"}
  /\ UNCHANGED <<browser, page, stream, muddled>>

\* Mutant: the state is only written at the end.
stopTraceLate(o) ==
  /\ Free(o) /\ tracing = "recording"
  /\ Launched(o, "stopTrace", "looking")
  /\ UNCHANGED <<browser, tracing, page, stream, muddled>>

stopTrace(o) ==
  /\ Free(o) /\ tracing = "recording" /\ tracing' = "stopping"
  /\ Launched(o, "stopTrace", "looking")
  /\ UNCHANGED <<browser, page, stream, muddled>>

\* The browser is looked for before the try block: an error leaves "stopping" behind.
StopFails(o) ==
  /\ At(o, "stopTrace", "looking") /\ Ended(o) /\ muddled' = TRUE
  /\ UNCHANGED <<browser, tracing, page, stream>>

StopFinds(o) ==
  /\ At(o, "stopTrace", "looking") /\ Moved(o, "collecting")
  /\ UNCHANGED <<browser, tracing, page, stream, muddled>>

\* The trace was saved, or there was an error.
TraceStops(o) ==
  /\ At(o, "stopTrace", "collecting") /\ Ended(o) /\ tracing' = "idle"
  /\ UNCHANGED <<browser, page, stream, muddled>>

------------------------------------------------------------------------------
\* The stream.

\* GET browser/screenshot/stream: start(), then onFrame().
Watch(v) ==
  /\ frame[v] = Away /\ frame' = [frame EXCEPT ![v] = 0] /\ ticking' = TRUE
  /\ UNCHANGED <<browser, tracing, call, page, lastHash, muddled>>

\* Mutant: the last viewer to leave takes the stream's picture away.
LeaveClears(v) ==
  /\ frame[v] # Away /\ frame' = [frame EXCEPT ![v] = Away] /\ lastHash' = Away
  /\ UNCHANGED <<browser, tracing, call, page, ticking, muddled>>

\* The connection closes; the timer stays.
Leave(v) ==
  /\ frame[v] # Away /\ frame' = [frame EXCEPT ![v] = Away]
  /\ UNCHANGED <<browser, tracing, call, page, ticking, lastHash, muddled>>

\* The timer does not wait for the picture before.
Tick(o) ==
  /\ ticking /\ Free(o) /\ Launched(o, "capture", "going")
  /\ UNCHANGED <<browser, tracing, page, stream, muddled>>

Taken(o) ==
  /\ At(o, "capture", "going") /\ call' = [call EXCEPT ![o].step = "taken", ![o].shot = page]
  /\ UNCHANGED <<browser, tracing, page, stream, muddled>>

\* Mutant: the picture is compared with the page that is shown now.
StreamedNow(o) ==
  /\ At(o, "capture", "taken") /\ Ended(o) /\ browser' = "connected"
  /\ lastHash' = page
  /\ frame' = IF call[o].shot = lastHash THEN frame
              ELSE [v \in Viewers |-> IF frame[v] = Away THEN Away ELSE call[o].shot]
  /\ UNCHANGED <<tracing, page, ticking, muddled>>

\* captureAndDiff: the session is marked, and who watches is told when the picture changed.
Streamed(o) ==
  /\ At(o, "capture", "taken") /\ Ended(o) /\ browser' = "connected"
  /\ lastHash' = call[o].shot
  /\ frame' = IF call[o].shot = lastHash THEN frame
              ELSE [v \in Viewers |-> IF frame[v] = Away THEN Away ELSE call[o].shot]
  /\ UNCHANGED <<tracing, page, ticking, muddled>>

CaptureFails(o) ==
  /\ call[o].kind = "capture" /\ Ended(o)
  /\ UNCHANGED <<browser, tracing, page, stream, muddled>>

ObsNext ==
  \/ \E o \in ObsCalls :
       \/ navigate(o) \/ Loaded(o) \/ NavigateFails(o) \/ Navigated(o) \/ Persisted(o)
       \/ Read(o) \/ ReadEnds(o)
       \/ startTrace(o) \/ TraceStarts(o) \/ stopTrace(o) \/ StopFails(o) \/ StopFinds(o) \/ TraceStops(o)
       \/ Tick(o) \/ Taken(o) \/ Streamed(o) \/ CaptureFails(o)
  \/ \E v \in Viewers : Watch(v) \/ Leave(v)

------------------------------------------------------------------------------
\* The types of the variables.
ObsTypeOK ==
  /\ browser \in {"disconnected", "connecting", "connected", "error"}
  /\ tracing \in {"idle", "recording", "stopping"}
  /\ call \in [ObsCalls -> [kind : {"none", "navigate", "read", "startTrace", "stopTrace", "capture"},
                           step : {"none", "going", "loaded", "persisting", "looking", "collecting", "taken"},
                           shot : 0 .. MaxPage]]
  /\ page \in 1 .. MaxPage /\ lastHash \in 0 .. MaxPage /\ frame \in [Viewers -> 0 .. Away]
  /\ {ticking, muddled} \subseteq BOOLEAN

\* A session does not stay "connecting": somebody is on the way, although readers, failures
\* and other navigations write the same status.
ConnectingIsGoing ==
  browser = "connecting" => \E o \in ObsCalls : call[o].kind = "navigate"

\* Whoever was shown a picture is shown the one the stream compares with, whatever order the
\* pictures come back in: no viewer stays behind the others.
ViewersAgree == \A v \in Viewers : frame[v] \in {Away, 0, lastHash}

\* "stopping" is a stop under way and two stops never collect one trace, unless a trace was
\* started beside it (startTrace refuses "recording" only) or a stop found no browser.
StoppingIsAStop ==
  ~muddled => LET stops == {o \in ObsCalls : call[o].kind = "stopTrace"}
              IN /\ tracing = "stopping" <=> stops # {}
                 /\ \A o, p \in stops : o = p
==============================================================================
