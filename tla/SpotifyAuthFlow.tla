--------------------------- MODULE SpotifyAuthFlow ---------------------------
(***************************************************************************)
(* Authorizing the Spotify account: SpotifyAuthService                     *)
(* (backend/src/media_service/spotify_auth_service.py), the token cache    *)
(* and the grant record (spotify_oauth.py), and the verdict of the player  *)
(* that uses the grant (spotify_player.py).                                *)
(*                                                                         *)
(* A request starts a flow.  Its handler waits at                          *)
(*   binding    for the redirect port; bound: before it holds the listener *)
(*   opening    for the browser; launched: before it holds the window      *)
(* and the listener's callback, once it has claimed a redirect, at         *)
(*   responding the browser's page                                         *)
(*   exchanging the code; redeemed: before the answer is read              *)
(*   failing    the reply, before the flow is torn down                    *)
(*   refreshing the player's poll and the profile                          *)
(* While either waits, another request, its own expiry or the other flow's *)
(* end may tear down what is pending.  Requests that name no redirect are  *)
(* answered and ignored.                                                   *)
(***************************************************************************)
EXTENDS Naturals, FiniteSets

CONSTANTS
    Client,      \* panels
    None, Idle,
    MaxFlows,    \* bound: requests
    MaxTroubles  \* bound: what fails, lapses or leaves

ASSUME ConstantsAssumption ==
    MaxFlows \in Nat \ {0} /\ MaxTroubles \in Nat /\ {None, Idle} \cap Nat = {}

Flow == 1 .. MaxFlows
Grant == 0 .. MaxFlows     \* the flow that issued it; 0 before them all
NoFlow == 0

VARIABLES
    pending,   \* the one flow the service holds
    flow,      \* each flow's handler, listener, timer and window
    back,      \* each flow's callback
    disk,      \* the token cache: a grant or None
    record,    \* the grant record beside it
    revoked,   \* grants Spotify no longer accepts
    latched,   \* the player's verdict: rejected
    polling,   \* the grant its call was made with
    seen,      \* the status each panel shows; None where it is away
    count, troubles

grantVars == <<disk, record, revoked>>
playerVars == <<latched, polling>>
vars == <<pending, flow, back, grantVars, playerVars, seen, count, troubles>>

Status == [state : {"rejected", "missing", "authorized"}, record : Grant \cup {None}]
MidWay == {"binding", "bound", "opening", "launched"}

NoHandler == [step |-> "none", client |-> None, listening |-> FALSE, held |-> FALSE,
              timer |-> FALSE, shown |-> FALSE, window |-> "none", owned |-> FALSE,
              left |-> FALSE, usurped |-> FALSE]

TypeOK ==
    /\ pending \in Flow \cup {NoFlow}
    /\ flow \in [Flow -> [step : MidWay \cup {"none", "over"}, client : Client \cup {None},
                          listening : BOOLEAN, held : BOOLEAN, timer : BOOLEAN,
                          shown : BOOLEAN, window : {"none", "open"}, owned : BOOLEAN,
                          left : BOOLEAN, usurped : BOOLEAN]]
    /\ back \in [Flow -> [step : {"none", "responding", "exchanging", "redeemed", "failing",
                                  "refreshing", "done"},
                          brings : {"none", "code", "alien", "error"}]]
    /\ disk \in Grant \cup {None} /\ record \in Grant \cup {None} /\ revoked \subseteq Grant
    /\ latched \in BOOLEAN /\ polling \in Grant \cup {None, Idle}
    /\ seen \in [Client -> Status \cup {None}]
    \* A flow's expiry runs while the flow is pending or its handler has been overtaken.
    /\ \A f \in Flow : flow[f].timer => pending = f \/ flow[f].left
    /\ \A f \in Flow : flow[f].held => flow[f].listening

(***************************************************************************)
(* Ends                                                                    *)
(***************************************************************************)

\* Mutant of Torn: the timer runs on.
TornTimed(one, other) ==
    [one EXCEPT !.listening = @ /\ ~one.held, !.held = FALSE, !.owned = FALSE, !.usurped = other,
                !.window = IF one.owned THEN "none" ELSE @, !.left = @ \/ one.step \in MidWay]

\* Mutant of Torn: the consent window is left to its page.
TornOpen(one, other) ==
    [one EXCEPT !.timer = FALSE, !.listening = @ /\ ~one.held, !.held = FALSE, !.owned = FALSE,
                !.left = @ \/ one.step \in MidWay, !.usurped = other]

\* What __cancel_pending closes is what its flow holds by then: the timer, the
\* listener, and the window (which is terminated, then killed).
Torn(one, other) ==
    [one EXCEPT !.timer = FALSE, !.listening = @ /\ ~one.held, !.held = FALSE, !.owned = FALSE,
                !.window = IF one.owned THEN "none" ELSE @,
                !.left = @ \/ one.step \in MidWay, !.usurped = other]

\* __cancel_pending, called by flow f: whatever is pending ends, its own or not.
CancelPending(flows, f) ==
    IF pending = NoFlow THEN flows ELSE [flows EXCEPT ![pending] = Torn(@, f # pending)]

Trouble == troubles < MaxTroubles /\ troubles' = troubles + 1

\* build_status: the player's verdict outranks the file.
StatusOf(rejected, cache, dates) ==
    [state |-> IF rejected THEN "rejected" ELSE IF cache = None THEN "missing" ELSE "authorized",
     record |-> IF ~rejected /\ cache = None THEN None ELSE dates]

\* The status frame goes to every panel connected.
Broadcast ==
    seen' = [c \in Client |-> IF seen[c] = None THEN None ELSE StatusOf(latched', disk', record')]

(***************************************************************************)
(* The request's handler                                                   *)
(***************************************************************************)

Over(f) == [flow EXCEPT ![f].step = "over"]

HandleGetUrl(c) ==
    /\ seen[c] # None /\ count < MaxFlows /\ count' = count + 1
    /\ LET f == count + 1
           flows == IF pending = NoFlow THEN flow
                    ELSE [flow EXCEPT ![pending] = Torn(@, FALSE)]
       IN  /\ pending' = f
           /\ flow' = [flows EXCEPT ![f] = [NoHandler EXCEPT !.step = "binding", !.client = c]]
    /\ UNCHANGED <<back, grantVars, playerVars, seen, troubles>>

handlerRest == <<back, grantVars, playerVars, seen, count>>

\* __start_callback_server: the port is free, or the flow, whichever is pending, ends.
Bind(f) ==
    /\ flow[f].step = "binding"
    /\ \/ /\ \A g \in Flow : ~flow[g].listening
          /\ flow' = [flow EXCEPT ![f].step = "bound", ![f].listening = TRUE]
          /\ UNCHANGED <<pending, troubles>>
       \/ /\ \/ UNCHANGED troubles /\ \E g \in Flow : flow[g].listening
             \/ Trouble   \* another program's port
          /\ flow' = CancelPending(Over(f), f) /\ pending' = NoFlow
    /\ UNCHANGED handlerRest

\* Mutant of Hold: no expiry is scheduled.
HoldUntimed(f) ==
    /\ flow[f].step = "bound"
    /\ flow' = [flow EXCEPT ![f].step = "opening", ![f].held = TRUE]
    /\ UNCHANGED <<pending, troubles, handlerRest>>

Hold(f) ==
    /\ flow[f].step = "bound"
    /\ flow' = [flow EXCEPT ![f].step = "opening", ![f].held = TRUE, ![f].timer = TRUE]
    /\ UNCHANGED <<pending, troubles, handlerRest>>

\* __open_in_browser: a window of ours, a page in xdg-open's browser, or none.
OpenInBrowser(f) ==
    /\ flow[f].step = "opening"
    /\ \/ /\ \E window \in {"open", "none"} :
                 flow' = [flow EXCEPT ![f].step = "launched", ![f].shown = TRUE, ![f].window = window]
          /\ UNCHANGED <<pending, troubles>>
       \/ /\ Trouble
          /\ flow' = CancelPending(Over(f), f) /\ pending' = NoFlow
    /\ UNCHANGED handlerRest

\* The window is the flow's, which is replied to with its address.
ReplyUrl(f) ==
    /\ flow[f].step = "launched"
    /\ flow' = [flow EXCEPT ![f].step = "over", ![f].owned = flow[f].window = "open"]
    /\ UNCHANGED <<pending, troubles, handlerRest>>

\* __expire: only its own flow.
Expire(f) ==
    /\ flow[f].timer
    /\ IF pending = f
       THEN flow' = [flow EXCEPT ![f] = Torn(@, FALSE)] /\ pending' = NoFlow
       ELSE flow' = [flow EXCEPT ![f].timer = FALSE] /\ UNCHANGED pending
    /\ UNCHANGED <<troubles, handlerRest>>

(***************************************************************************)
(* The callback                                                            *)
(***************************************************************************)

\* The consent page's redirect, with a code or an error, or that of another
\* flow's page; the first one claims the flow.
Redirect(f, brings) ==
    /\ flow[f].listening /\ back[f].step = "none"
    /\ \E g \in Flow : flow[g].shown /\ (g # f <=> brings = "alien")
    /\ back' = [back EXCEPT ![f] = [step |-> "responding", brings |-> brings]]
    /\ UNCHANGED <<pending, flow, grantVars, playerVars, seen, count, troubles>>

Done(f) == back' = [back EXCEPT ![f] = [step |-> "done", brings |-> "none"]]

\* The page is out: a flow that was replaced meanwhile is left alone, an error
\* or another flow's state ends it with a reply.
Responded(f) ==
    /\ back[f].step = "responding"
    /\ \/ pending # f /\ Done(f) /\ UNCHANGED <<pending, flow>>
       \/ /\ pending = f /\ back[f].brings # "code" /\ Done(f)
          /\ flow' = CancelPending(flow, f) /\ pending' = NoFlow
       \/ /\ pending = f /\ back[f].brings = "code"
          /\ back' = [back EXCEPT ![f].step = "exchanging"] /\ UNCHANGED <<pending, flow>>
    /\ UNCHANGED <<grantVars, playerVars, seen, count, troubles>>

\* The code is redeemed in an executor: the token is saved, lost with the file
\* it was to replace, or not written over it; or Spotify refuses.
Redeem(f) ==
    /\ back[f].step = "exchanging"
    /\ \/ disk' = f /\ back' = [back EXCEPT ![f].step = "redeemed"] /\ UNCHANGED troubles
       \/ disk' \in {None, disk} /\ Trouble /\ back' = [back EXCEPT ![f].step = "redeemed"]
       \/ Trouble /\ back' = [back EXCEPT ![f].step = "failing"] /\ UNCHANGED disk
    /\ UNCHANGED <<pending, flow, record, revoked, playerVars, seen, count>>

\* The reply is out; the flow is torn down only now.
Failed(f) ==
    /\ back[f].step = "failing" /\ Done(f)
    /\ flow' = CancelPending(flow, f) /\ pending' = NoFlow
    /\ UNCHANGED <<grantVars, playerVars, seen, count, troubles>>

\* Mutant of Redeemed: an exchange that left no grant is not told to the others.
RedeemedQuietly(f) ==
    /\ back[f].step = "redeemed" /\ UNCHANGED grantVars
    /\ flow' = CancelPending(flow, f) /\ pending' = NoFlow
    /\ \/ disk = None /\ Done(f) /\ UNCHANGED <<latched, seen>>
       \/ /\ disk # None /\ back' = [back EXCEPT ![f].step = "refreshing"]
          /\ latched' = FALSE /\ IF latched THEN Broadcast ELSE UNCHANGED seen
    /\ UNCHANGED <<polling, count, troubles>>

\* Whatever is pending by now ends.  No grant in the cache is a failure; one
\* that is there lifts the player's verdict, which is told.
Redeemed(f) ==
    /\ back[f].step = "redeemed" /\ UNCHANGED grantVars
    /\ flow' = CancelPending(flow, f) /\ pending' = NoFlow
    /\ \/ disk = None /\ Done(f) /\ latched' = latched /\ Broadcast
       \/ /\ disk # None /\ back' = [back EXCEPT ![f].step = "refreshing"]
          /\ latched' = FALSE /\ IF latched THEN Broadcast ELSE UNCHANGED seen
    /\ UNCHANGED <<polling, count, troubles>>

\* __record_grant, where it can be written; then the reply and the broadcast.
Refreshed(f) ==
    /\ back[f].step = "refreshing" /\ Done(f)
    /\ \/ record' = f /\ UNCHANGED troubles
       \/ Trouble /\ UNCHANGED record
    /\ UNCHANGED <<pending, flow, disk, revoked, playerVars, count>>
    /\ Broadcast

(***************************************************************************)
(* The player, the browser and the panels                                  *)
(***************************************************************************)

\* The timer fires.  A call reads the cache when it is made; none is made while
\* another is out or once rejected.
Poll ==
    /\ polling' = IF ~latched /\ polling = Idle THEN disk ELSE polling
    /\ UNCHANGED <<pending, flow, back, grantVars, latched, seen, count, troubles>>

\* _note_auth_failure: the verdict of that grant holds for whichever is cached.
Polled ==
    /\ polling # Idle /\ polling' = Idle /\ UNCHANGED grantVars
    /\ IF polling = None \/ polling \in revoked
       THEN latched' = TRUE /\ IF latched THEN UNCHANGED seen ELSE Broadcast
       ELSE UNCHANGED <<latched, seen>>
    /\ UNCHANGED <<pending, flow, back, count, troubles>>

\* A grant runs out or is revoked.
Lapse ==
    /\ disk # None /\ Trouble /\ revoked' = revoked \cup {disk}
    /\ UNCHANGED <<pending, flow, back, disk, record, playerVars, seen, count>>

\* The user closes the window.
WindowCloses(f) ==
    /\ flow[f].window = "open" /\ flow' = [flow EXCEPT ![f].window = "none"]
    /\ UNCHANGED <<pending, troubles, handlerRest>>

Connect(c) ==
    /\ seen[c] = None /\ seen' = [seen EXCEPT ![c] = StatusOf(latched, disk, record)]
    /\ UNCHANGED <<pending, flow, back, grantVars, playerVars, count, troubles>>

\* A panel leaves, and its handler is cancelled where it waits.
Leave(c) ==
    /\ seen[c] # None /\ Trouble /\ seen' = [seen EXCEPT ![c] = None]
    /\ flow' = [f \in Flow |-> IF flow[f].client = c /\ flow[f].step \in MidWay
                               THEN [flow[f] EXCEPT !.step = "over", !.left = TRUE] ELSE flow[f]]
    /\ UNCHANGED <<pending, back, grantVars, playerVars, count>>

Init ==
    /\ pending = NoFlow /\ flow = [f \in Flow |-> NoHandler]
    /\ back = [f \in Flow |-> [step |-> "none", brings |-> "none"]]
    /\ disk \in {0, None} /\ record = disk /\ revoked \in SUBSET ({disk} \ {None})
    /\ latched = FALSE /\ polling = Idle
    /\ seen = [c \in Client |-> StatusOf(FALSE, disk, record)] /\ count = 0 /\ troubles = 0

Handler(f) == Bind(f) \/ Hold(f) \/ OpenInBrowser(f) \/ ReplyUrl(f)
Callback(f) == Responded(f) \/ Redeem(f) \/ Failed(f) \/ Redeemed(f) \/ Refreshed(f)

Next ==
    \/ \E c \in Client : HandleGetUrl(c) \/ Connect(c) \/ Leave(c)
    \/ \E f \in Flow :
           \/ Handler(f) \/ Callback(f) \/ Expire(f) \/ WindowCloses(f)
           \/ \E brings \in {"code", "alien", "error"} : Redirect(f, brings)
    \/ Poll \/ Polled \/ Lapse

Spec == Init /\ [][Next]_vars

\* Tasks run on, calls to Spotify and to the browser return, a timer fires.
FairSpec == Spec /\ \A f \in Flow : WF_vars(Handler(f)) /\ WF_vars(Callback(f)) /\ WF_vars(Expire(f))

(***************************************************************************)
(* Properties                                                              *)
(***************************************************************************)

\* Between exchanges every panel shows the status as it is: whether there is a
\* grant, whether the player's last call was refused, and the dates on record.
StatusIsCurrent ==
    (\A f \in Flow : back[f].step \notin {"redeemed", "refreshing"}) =>
        \A c \in Client : seen[c] # None => seen[c] = StatusOf(latched, disk, record)

\* A flow that is over holds no port and no window of ours, so that the next can
\* bind, unless it was overtaken or cut off before it held them.
NothingLeftBehind ==
    \A f \in Flow : f # pending /\ flow[f].step = "over" /\ ~flow[f].left =>
        ~flow[f].listening /\ flow[f].window = "none"

\* A flow nobody finishes is ended by its own timer, and gives the port back.
PortComesFree ==
    \A f \in Flow : flow[f].listening ~> (~flow[f].listening \/ flow[f].left)

\* One flow at a time: a flow ends by its own outcome, its expiry or the next
\* request (handle_get_url: "a new GET_URL replaces whatever was pending").
FlowsEndThemselves == \A f \in Flow : ~flow[f].usurped

\* A tick for a grant that is on disk (__exchange_and_reply: "verify rather than assume").
TickMeansGrant ==
    [][\A f \in Flow : back[f].step = "refreshing" /\ back'[f].step = "done" =>
           \E g \in Flow : disk = g]_vars

\* The player is off only for a grant it was refused, once no call is out.
RejectedIsWhatIsCached ==
    latched /\ polling = Idle /\ (\A f \in Flow : back[f].step \notin {"redeemed", "refreshing"}) =>
        disk = None \/ disk \in revoked

=============================================================================
