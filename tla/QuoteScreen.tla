----------------------------- MODULE QuoteScreen -----------------------------
(***************************************************************************)
(* The page "new quote" of the web application, beside the backend of      *)
(* FreightQuotes.  When the POST is answered the page starts three things  *)
(* at once: a GET of the quote, a socket that joins the tenant's room, and *)
(* a timeout.  The first answer of any of them marks the page settled.     *)
(* One submission with one access token is modelled; the rotation of the   *)
(* token, which starts the effect again, is not.                           *)
(***************************************************************************)
EXTENDS FreightQuotes, Sequences

CONSTANTS
  Mine,         \* the quote this page created
  AuthMayFail   \* whether the API may refuse the page's token

ASSUME ScreenAssumption == Mine \in Quotes /\ AuthMayFail \in BOOLEAN

VARIABLES
  shown,        \* createdQuote.status, "absent" before the POST is answered
  statusError,  \* the page shows an error message in place of the spinner
  settled,      \* the local variable of the effect
  response,     \* the POST's response on its way: the status it carries
  fetch,        \* the GET: not sent, sent, answered with a status, or over
  socket,       \* the page's connection to the gateway
  wire,         \* events emitted to the joined socket and not yet handled
  timer         \* the timeout: "off", "armed" or "fired"

page == <<shown, statusError, settled>>
network == <<response, fetch, socket, wire>>
screenVars == <<page, network, timer>>
allVars == <<vars, screenVars>>

FetchState == {"idle", "sent", "failed", "unauthorized", "over", "lost"} \cup Status
SocketState == {"off", "connecting", "joined", "rejected", "closed"}

ScreenInit ==
  /\ Init
  /\ shown = "absent"
  /\ statusError = FALSE
  /\ settled = FALSE
  /\ response = "absent"
  /\ fetch = "idle"
  /\ socket = "off"
  /\ wire = << >>
  /\ timer = "off"
-----------------------------------------------------------------------------
(* The backend's steps, and what the page's side of the network sees of    *)
(* them.                                                                   *)

\* Mutant: the event goes to a room the page is not in.
BackendAnnouncesElsewhere ==
  \E q \in Quotes : Announce(q) /\ UNCHANGED screenVars

\* The gateway emits to the sockets that are in the room at that moment.
BackendAnnounces ==
  \E q \in Quotes :
    /\ Announce(q)
    /\ wire' = IF q = Mine /\ socket = "joined"
               THEN Append(wire, status[q]) ELSE wire
    /\ UNCHANGED <<page, response, fetch, socket, timer>>

BackendReplies ==
  \E q \in Quotes :
    /\ Reply(q)
    /\ response' = IF q = Mine /\ q \notin deleted THEN status[q] ELSE response
    /\ UNCHANGED <<page, fetch, socket, wire, timer>>

BackendWorks ==
  /\ \/ \E q \in Quotes : Silent(q)
     \/ \E c \in Carriers : ToggleCarrier(c)
  /\ UNCHANGED screenVars

\* The sockets of a crashed process reconnect; a GET it had not answered
\* fails; events may be lost with the connection.
BackendCrashes ==
  /\ Crash
  /\ socket' = IF socket = "joined" THEN "connecting" ELSE socket
  /\ fetch' = IF fetch = "sent" THEN "failed" ELSE fetch
  /\ wire' \in {wire, << >>}
  /\ UNCHANGED <<page, response, timer>>

\* handleConnection: joins the tenant's room, or emits "error" and disconnects.
GatewayJoins ==
  /\ socket = "connecting"
  /\ socket' = "joined"
  /\ UNCHANGED <<vars, page, response, fetch, wire, timer>>

GatewayRejects ==
  /\ AuthMayFail
  /\ socket = "connecting"
  /\ socket' = "rejected"
  /\ UNCHANGED <<vars, page, response, fetch, wire, timer>>

\* The API answers the GET with the row it reads now, or with a 401.
ApiAnswers ==
  /\ fetch = "sent"
  /\ \/ fetch' = IF Mine \in deleted THEN "failed" ELSE status[Mine]
     \/ AuthMayFail /\ fetch' = "unauthorized"
  /\ UNCHANGED <<vars, page, response, socket, wire, timer>>
-----------------------------------------------------------------------------
(* The page *)

\* setCreatedQuote(quote) of handleSubmit, and the effect it triggers.
PostAnswered ==
  /\ response # "absent"
  /\ shown' = response
  /\ response' = "absent"
  /\ fetch' = "sent"
  /\ socket' = "connecting"
  /\ timer' = "armed"
  /\ UNCHANGED <<vars, statusError, settled, wire>>

\* Mutant: the error body of a refused GET is taken for a quote.
FetchResolvesAnything ==
  /\ fetch \in Status \cup {"failed"}
  /\ settled' = TRUE
  /\ shown' = fetch
  /\ fetch' = "over"
  /\ UNCHANGED <<vars, statusError, response, socket, wire, timer>>

\* .then of the GET: settled whatever status the quote has.
FetchResolves ==
  /\ fetch \in Status
  /\ settled' = TRUE
  /\ shown' = fetch
  /\ fetch' = "over"
  /\ UNCHANGED <<vars, statusError, response, socket, wire, timer>>

\* .catch of the GET: only a 401 is acted on.
FetchRejects ==
  /\ fetch \in {"failed", "unauthorized"}
  /\ IF fetch = "unauthorized"
     THEN settled' = TRUE /\ statusError' = TRUE
     ELSE UNCHANGED <<settled, statusError>>
  /\ fetch' = "lost"
  /\ UNCHANGED <<vars, shown, response, socket, wire, timer>>

EventArrives ==
  /\ wire # << >>
  /\ settled' = TRUE
  /\ shown' = Head(wire)
  /\ wire' = Tail(wire)
  /\ UNCHANGED <<vars, statusError, response, fetch, socket, timer>>

SocketErrorArrives ==
  /\ socket = "rejected"
  /\ settled' = TRUE
  /\ statusError' = TRUE
  /\ socket' = "closed"
  /\ UNCHANGED <<vars, shown, response, fetch, wire, timer>>

TimeoutFires ==
  /\ timer = "armed"
  /\ timer' = "fired"
  /\ statusError' = (statusError \/ ~settled)
  /\ UNCHANGED <<vars, shown, settled, network>>
-----------------------------------------------------------------------------
PageStep ==
  \/ PostAnswered \/ FetchResolves \/ FetchRejects \/ EventArrives
  \/ SocketErrorArrives \/ TimeoutFires

NetworkStep == GatewayJoins \/ GatewayRejects \/ ApiAnswers

\* A backend step the page's side of the network sees nothing of.
Unseen(A) == A /\ UNCHANGED screenVars

ScreenNext ==
  \/ BackendAnnounces \/ BackendReplies \/ BackendWorks \/ BackendCrashes
  \/ NetworkStep \/ PageStep

\* Every request is answered, every answer and event is handled and the
\* timer fires.
ScreenFairness ==
  /\ WF_allVars(BackendReplies)
  /\ WF_allVars(BackendAnnounces)
  /\ \A q \in Quotes :
       /\ WF_allVars(Unseen(Enqueue(q)))
       /\ WF_allVars(Unseen(TakeJob(q) \/ FailStalledJob(q)))
       /\ WF_allVars(Unseen(StalledCheck(q)))
       /\ WF_allVars(Unseen(RunNext(q)))
       /\ WF_allVars(Unseen(OnFailedMark(q)))
  /\ WF_allVars(PostAnswered)
  /\ WF_allVars(FetchResolves \/ FetchRejects)
  /\ WF_allVars(EventArrives)
  /\ WF_allVars(SocketErrorArrives)
  /\ WF_allVars(TimeoutFires)
  /\ WF_allVars(GatewayJoins \/ GatewayRejects)
  /\ WF_allVars(ApiAnswers)

ScreenSpec == ScreenInit /\ [][ScreenNext]_allVars /\ ScreenFairness
-----------------------------------------------------------------------------
ScreenTypeOK ==
  /\ TypeOK
  /\ shown \in Status \cup {"absent"}
  /\ statusError \in BOOLEAN
  /\ settled \in BOOLEAN
  /\ response \in Status \cup {"absent"}
  /\ fetch \in FetchState
  /\ socket \in SocketState
  /\ wire \in Seq(Status)
  /\ timer \in {"off", "armed", "fired"}

\* What the page renders as "calculating".
Spinning == shown \in {"PENDING", "PROCESSING"} /\ ~statusError

\* A result on the page is one the backend reached: DONE never while the first
\* run has yet to store the options, ERROR only once the job failed for good.
ShownResultIsReal ==
  ~patched[Mine] =>
    /\ shown = "DONE" /\ attempts[Mine] = 1 =>
         /\ run[Mine] \notin {"read", "processing", "carriers", "options", "done"}
         /\ \A c \in found[Mine] : options[Mine][c] > 0
    /\ shown = "ERROR" => job[Mine] = "failed"

\* The page stops spinning if its GET is over and its socket is in the room
\* before the result is announced, unless the process crashes; and if it lost
\* the answer to its GET, as the event or, in the end, the timeout ends the wait.
PageSettles ==
  /\ socket = "joined" /\ fetch = "over" /\ announced[Mine] = "absent"
       ~> Disturbed \/ ~Spinning
  /\ fetch = "lost" ~> ~Spinning

\* The comments of the effect: a fast worker can never leave this screen stuck,
\* and the screen does not spin forever.
ScreenNeverStuck == Spinning ~> ~Spinning
=============================================================================
