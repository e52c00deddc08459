----------------------------- MODULE Spotify_proofs -----------------------------
(***************************************************************************)
(* Proofs about the Spotify pages.  About SpotifyAuthFlow, for any number  *)
(* of requests and panels: the panels show the status as it is, a flow     *)
(* that is over leaves neither port nor window behind, and every variable  *)
(* keeps its type.  About DeviceScan, for any number of panels and scans:  *)
(* silences are given back once, and a live scan is served.  Nothing ties  *)
(* the two: each theorem names its own specification.                      *)
(***************************************************************************)
EXTENDS SpotifyAuthFlow, DeviceScan, FiniteSetTheorems, TLAPS

(***************************************************************************)
(* The status                                                              *)
(***************************************************************************)

BackFields == {"step", "brings"}

BackShape == DOMAIN back = Flow /\ \A f \in Flow : DOMAIN back[f] = BackFields

\* An exchange has changed the cache and not told yet.
Untold(f) == back[f].step \in {"redeemed", "refreshing"}

Shown == \A c \in Client : seen[c] # None => seen[c] = StatusOf(latched, disk, record)

StatusInv == BackShape /\ DOMAIN seen = Client /\ latched \in BOOLEAN /\ StatusIsCurrent

LEMMA BroadcastShows ==
    ASSUME Broadcast PROVE Shown' /\ DOMAIN seen' = Client
  BY DEF Broadcast, Shown

LEMMA StatusParts == StatusIsCurrent <=> ((\A f \in Flow : ~Untold(f)) => Shown)
  BY DEF StatusIsCurrent, Untold, Shown

\* A callback ends, or goes on to step now, and its exchange is as told as before.
LEMMA BackMoves ==
    ASSUME BackShape, NEW f \in Flow, NEW now,
           Done(f) \/ back' = [back EXCEPT ![f].step = now]
           \/ (\E brings : back' = [back EXCEPT ![f] = [step |-> now, brings |-> brings]])
    PROVE  /\ BackShape'
           /\ \A g \in Flow \ {f} : back'[g] = back[g]
           /\ back'[f].step \in {now, "done"}
  BY DEF BackShape, BackFields, Done

LEMMA CallbackKeepsStatus ==
    ASSUME StatusInv, NEW f \in Flow, Callback(f) \/ \E brings : Redirect(f, brings)
    PROVE  StatusInv'
  <1> USE DEF StatusInv
  <1>1. CASE Responded(f) \/ Failed(f) \/ \E brings : Redirect(f, brings)
    <2>1. /\ ~Untold(f) /\ UNCHANGED <<latched, disk, record, seen>>
          /\ \/ Done(f)
             \/ back' = [back EXCEPT ![f].step = "exchanging"]
             \/ \E brings : back' = [back EXCEPT ![f] = [step |-> "responding", brings |-> brings]]
      BY <1>1 DEF Responded, Failed, Redirect, Untold, grantVars, playerVars
    <2>2. \/ back'[f].step \in {"exchanging", "done"} \/ back'[f].step \in {"responding", "done"}
      BY <2>1, BackMoves
    <2>3. BackShape' /\ \A g \in Flow \ {f} : back'[g] = back[g]
      BY <2>1, BackMoves
    <2>4. (\A g \in Flow : ~Untold(g)') => \A g \in Flow : ~Untold(g)
      BY <2>1, <2>3 DEF Untold
    <2> QED BY <2>1, <2>3, <2>4, StatusParts DEF StatusIsCurrent, Untold
  <1>2. CASE Redeem(f)
    <2>1. /\ UNCHANGED <<latched, record, seen>> /\ ~Untold(f)
          /\ \/ back' = [back EXCEPT ![f].step = "redeemed"]
             \/ back' = [back EXCEPT ![f].step = "failing"] /\ UNCHANGED disk
      BY <1>2 DEF Redeem, playerVars, Untold
    <2>2. CASE back' = [back EXCEPT ![f].step = "redeemed"]
      <3>1. BackShape' /\ back'[f].step = "redeemed"
        BY <2>2 DEF BackShape, BackFields
      <3> QED BY <2>1, <3>1 DEF StatusIsCurrent
    <2>3. CASE back' = [back EXCEPT ![f].step = "failing"] /\ UNCHANGED disk
      <3>1. BackShape' /\ (\A g \in Flow \ {f} : back'[g] = back[g])
        BY <2>3 DEF BackShape, BackFields
      <3> QED BY <2>1, <2>3, <3>1 DEF StatusIsCurrent, Untold
    <2> QED BY <2>1, <2>2, <2>3
  <1>3. CASE Redeemed(f)
    <2>1. CASE Done(f) /\ latched' = latched /\ Broadcast
      <3>1. BackShape'
        BY <2>1, BackMoves
      <3> QED BY <2>1, <3>1, BroadcastShows, StatusParts DEF StatusIsCurrent, Shown
    <2>2. CASE back' = [back EXCEPT ![f].step = "refreshing"] /\ latched' = FALSE
      <3>1. BackShape' /\ back'[f].step = "refreshing"
        BY <2>2 DEF BackShape, BackFields
      <3>2. DOMAIN seen' = Client
        BY <1>3, BroadcastShows DEF Redeemed
      <3> QED BY <2>2, <3>1, <3>2 DEF StatusIsCurrent
    <2> QED BY <1>3, <2>1, <2>2 DEF Redeemed
  <1>4. CASE Refreshed(f)
    <2>1. Done(f) /\ Broadcast /\ UNCHANGED latched
      BY <1>4 DEF Refreshed, playerVars
    <2>2. BackShape'
      BY <2>1, BackMoves
    <2> QED BY <2>1, <2>2, BroadcastShows DEF StatusIsCurrent, Shown
  <1> QED BY <1>1, <1>2, <1>3, <1>4 DEF Callback

\* Between exchanges every panel shows the grant as it is, for any number of
\* requests, redirects, polls and panels that come and go (build_status).
THEOREM StatusStaysCurrent == Spec => []StatusIsCurrent
  <1>1. Init => StatusInv
    <2> SUFFICES ASSUME Init PROVE StatusInv
      OBVIOUS
    <2>1. BackShape /\ DOMAIN seen = Client /\ latched = FALSE
      BY DEF Init, BackShape, BackFields
    <2>2. \A c \in Client : seen[c] = StatusOf(FALSE, disk, record)
      BY DEF Init
    <2>3. \A c \in Client : seen[c] = StatusOf(latched, disk, record)
      BY <2>1, <2>2, Zenon
    <2> QED BY <2>1, <2>3 DEF StatusInv, StatusIsCurrent
  <1>2. StatusInv /\ [Next]_vars => StatusInv'
    <2> SUFFICES ASSUME StatusInv, [Next]_vars PROVE StatusInv'
      OBVIOUS
    <2>1. CASE UNCHANGED <<back, latched, disk, record, seen>>
      BY <2>1 DEF StatusInv, BackShape, StatusIsCurrent
    <2>2. ASSUME NEW c \in Client, HandleGetUrl(c) \/ Connect(c) \/ Leave(c) PROVE StatusInv'
      <3>1. UNCHANGED <<back, latched, disk, record>>
        BY <2>2 DEF HandleGetUrl, Connect, Leave, grantVars, playerVars
      <3>2. \/ UNCHANGED seen
            \/ seen' = [seen EXCEPT ![c] = StatusOf(latched, disk, record)]
            \/ seen' = [seen EXCEPT ![c] = None]
        BY <2>2 DEF HandleGetUrl, Connect, Leave
      <3> QED BY <3>1, <3>2 DEF StatusInv, BackShape, StatusIsCurrent
    <2>3. ASSUME NEW f \in Flow, Handler(f) \/ Expire(f) \/ WindowCloses(f) PROVE StatusInv'
      BY <2>1, <2>3 DEF Handler, Bind, Hold, OpenInBrowser, ReplyUrl, Expire, WindowCloses, handlerRest,
                        grantVars, playerVars
    <2>4. CASE Polled
      <3>1. UNCHANGED <<back, disk, record>>
        BY <2>4 DEF Polled, grantVars
      <3>2. CASE UNCHANGED <<latched, seen>>
        BY <2>1, <3>1, <3>2
      <3>3. CASE latched' = TRUE /\ Broadcast
        BY <3>1, <3>3, BroadcastShows DEF StatusInv, BackShape, StatusIsCurrent, Shown
      <3> QED BY <2>4, <3>2, <3>3 DEF Polled, StatusInv
    <2>5. CASE Poll \/ Lapse \/ UNCHANGED vars
      BY <2>1, <2>5 DEF Poll, Lapse, vars, grantVars, playerVars
    <2> QED BY <2>2, <2>3, <2>4, <2>5, CallbackKeepsStatus DEF Next
  <1>3. StatusInv => StatusIsCurrent
    BY DEF StatusInv
  <1> QED BY <1>1, <1>2, <1>3, PTL DEF Spec

(***************************************************************************)
(* What a flow leaves behind                                               *)
(***************************************************************************)

FlowFields == {"step", "client", "listening", "held", "timer", "shown", "window", "owned",
               "left", "usurped"}

FlowShape == DOMAIN flow = Flow /\ \A f \in Flow : DOMAIN flow[f] = FlowFields

\* A flow holds the listener and the window it has, or is about to.
Tidy(one) ==
    /\ one.step = "binding" => ~one.listening
    /\ one.listening => one.held \/ one.step = "bound"
    /\ one.window = "open" => one.owned \/ one.step = "launched"
    /\ one.window \in {"open", "none"}

\* It has neither, and nobody at work on it.
Gone(one) == one.step \notin MidWay /\ ~one.listening /\ one.window = "none"

\* Only the pending flow has anything, save one whose handler was overtaken.
FlowInv ==
    /\ FlowShape
    /\ \A f \in Flow : flow[f].left \/ (Tidy(flow[f]) /\ (f = pending \/ Gone(flow[f])))

\* What __cancel_pending does to a flow.
LEMMA TornParts ==
    ASSUME NEW one, NEW other, DOMAIN one = FlowFields
    PROVE  /\ DOMAIN Torn(one, other) = FlowFields
           /\ Torn(one, other).step = one.step
           /\ Torn(one, other).listening <=> (one.listening /\ ~one.held)
           /\ Torn(one, other).window = IF one.owned THEN "none" ELSE one.window
           /\ Torn(one, other).left <=> (one.left \/ one.step \in MidWay)
  BY DEF Torn, FlowFields

\* It leaves nothing of a flow that it tears down.
LEMMA TornIsTidy ==
    ASSUME NEW one, NEW other, DOMAIN one = FlowFields, one.left \/ Tidy(one)
    PROVE  Torn(one, other).left \/ (Tidy(Torn(one, other)) /\ Gone(Torn(one, other)))
  <1> DEFINE torn == Torn(one, other)
  <1>1. /\ torn.step = one.step /\ (torn.listening <=> (one.listening /\ ~one.held))
        /\ torn.window = (IF one.owned THEN "none" ELSE one.window)
        /\ torn.left <=> (one.left \/ one.step \in MidWay)
    BY TornParts
  <1> HIDE DEF torn
  <1>2. CASE one.left \/ one.step \in MidWay
    BY <1>1, <1>2 DEF torn
  <1>3. CASE ~one.left /\ one.step \notin MidWay
    <2>1. Tidy(torn) /\ Gone(torn)
      BY <1>1, <1>3 DEF Tidy, Gone, MidWay
    <2> QED BY <2>1 DEF torn
  <1> QED BY <1>2, <1>3

\* As FlowInv, of the flows a step has reached.
Orderly(flows) ==
    /\ DOMAIN flows = Flow /\ \A g \in Flow : DOMAIN flows[g] = FlowFields
    /\ \A g \in Flow : flows[g].left \/ (Tidy(flows[g]) /\ (g = pending \/ Gone(flows[g])))

LEMMA InvIsOrderly == FlowInv <=> Orderly(flow)
  BY DEF FlowInv, FlowShape, Orderly

\* __cancel_pending, and the request that replaces a flow.
LEMMA CancelKeepsInv ==
    ASSUME NEW flows, Orderly(flows), NEW f, flow' = CancelPending(flows, f), pending' = NoFlow
    PROVE  FlowInv'
  <1>0. NoFlow \notin Flow
    BY DEF NoFlow, Flow
  <1> DEFINE other == f # pending
             torn  == Torn(flows[pending], other)
  <1>1. CASE pending \notin Flow
    <2>1. flow' = flows \/ flow' = [flows EXCEPT ![pending] = torn]
      BY Zenon DEF CancelPending
    <2> HIDE DEF torn
    <2>2. DOMAIN flow' = Flow /\ \A g \in Flow : flow'[g] = flows[g]
      BY <1>1, <2>1 DEF Orderly
    <2>3. \A g \in Flow : flows[g].left \/ (Tidy(flows[g]) /\ Gone(flows[g]))
      BY <1>1 DEF Orderly
    <2> QED BY <2>2, <2>3 DEF Orderly, FlowInv, FlowShape
  <1>2. CASE pending \in Flow
    <2>1. flow' = [flows EXCEPT ![pending] = torn]
      BY <1>0, <1>2, Zenon DEF CancelPending
    <2> HIDE DEF other
    <2>2. DOMAIN torn = FlowFields /\ (torn.left \/ (Tidy(torn) /\ Gone(torn)))
      BY <1>2, TornParts, TornIsTidy DEF Orderly
    <2> HIDE DEF torn
    <2>3. FlowShape'
      BY <1>2, <2>1, <2>2 DEF Orderly, FlowShape
    <2>4. ASSUME NEW g \in Flow PROVE flow'[g].left \/ (Tidy(flow'[g]) /\ Gone(flow'[g]))
      <3>1. CASE g = pending
        BY <1>2, <2>1, <2>2, <3>1 DEF Orderly
      <3>2. CASE g # pending
        <4>1. flow'[g] = flows[g]
          BY <1>2, <2>1, <3>2 DEF Orderly
        <4> QED BY <3>2, <4>1 DEF Orderly
      <3> QED BY <3>1, <3>2
    <2> QED BY <2>3, <2>4 DEF FlowInv
  <1> QED BY <1>1, <1>2

\* A flow's handler, or its page, moves one flow on.
LEMMA MoveKeepsInv ==
    ASSUME FlowInv, NEW f \in Flow, NEW one, DOMAIN one = FlowFields, UNCHANGED pending,
           flow' = [flow EXCEPT ![f] = one],
           one.left \/ (Tidy(one) /\ (f = pending \/ Gone(one)))
    PROVE  FlowInv'
  <1>1. FlowShape'
    BY DEF FlowInv, FlowShape
  <1>2. ASSUME NEW g \in Flow PROVE flow'[g].left \/ (Tidy(flow'[g]) /\ (g = pending \/ Gone(flow'[g])))
    <2>1. flow'[g] = IF g = f THEN one ELSE flow[g]
      BY DEF FlowInv, FlowShape
    <2> QED BY <2>1 DEF FlowInv
  <1> QED BY <1>1, <1>2 DEF FlowInv

LEMMA OverIsOrderly ==
    ASSUME FlowInv, NEW f \in Flow, flow[f].step \in {"binding", "opening"}
    PROVE  Orderly(Over(f))
  <1> DEFINE one == [flow[f] EXCEPT !.step = "over"]
  <1>1. Over(f) = [flow EXCEPT ![f] = one]
    BY DEF Over
  <1>2. /\ DOMAIN one = FlowFields /\ one.step = "over"
        /\ one.left = flow[f].left /\ one.listening = flow[f].listening /\ one.held = flow[f].held
        /\ one.window = flow[f].window /\ one.owned = flow[f].owned
    BY DEF FlowInv, FlowShape, FlowFields
  <1> HIDE DEF one
  <1>3. one.left \/ (Tidy(one) /\ f = pending)
    BY <1>2 DEF FlowInv, Tidy, Gone, MidWay
  <1>4. ASSUME NEW g \in Flow
        PROVE  /\ DOMAIN Over(f)[g] = FlowFields
               /\ Over(f)[g].left \/ (Tidy(Over(f)[g]) /\ (g = pending \/ Gone(Over(f)[g])))
    <2>1. Over(f)[g] = IF g = f THEN one ELSE flow[g]
      BY <1>1 DEF FlowInv, FlowShape
    <2> QED BY <1>2, <1>3, <2>1 DEF FlowInv, FlowShape
  <1> QED BY <1>1, <1>4 DEF Orderly, FlowInv, FlowShape

LEMMA HandlerKeepsInv ==
    ASSUME FlowInv, NEW f \in Flow, Handler(f) \/ WindowCloses(f)
    PROVE  FlowInv'
  <1>0. DOMAIN flow = Flow /\ DOMAIN flow[f] = FlowFields
    BY DEF FlowInv, FlowShape
  <1>1. CASE /\ flow' = CancelPending(Over(f), f) /\ pending' = NoFlow
             /\ flow[f].step \in {"binding", "opening"}
    BY <1>1, CancelKeepsInv, OverIsOrderly
  <1>2. CASE /\ flow[f].step = "binding" /\ UNCHANGED pending
             /\ flow' = [flow EXCEPT ![f].step = "bound", ![f].listening = TRUE]
    <2> DEFINE one == [flow[f] EXCEPT !.step = "bound", !.listening = TRUE]
    <2>1. /\ DOMAIN one = FlowFields /\ one.step = "bound" /\ one.left = flow[f].left
          /\ one.window = flow[f].window /\ one.owned = flow[f].owned
      BY <1>0 DEF FlowFields
    <2>2. flow' = [flow EXCEPT ![f] = one]
      BY <1>0, <1>2
    <2> HIDE DEF one
    <2>3. one.left \/ (Tidy(one) /\ f = pending)
      BY <1>2, <2>1 DEF FlowInv, Tidy, Gone, MidWay
    <2> QED BY <1>2, <2>1, <2>2, <2>3, MoveKeepsInv
  <1>3. CASE Hold(f)
    <2> DEFINE one == [flow[f] EXCEPT !.step = "opening", !.held = TRUE, !.timer = TRUE]
    <2>1. /\ DOMAIN one = FlowFields /\ one.step = "opening" /\ one.left = flow[f].left /\ one.held
          /\ one.window = flow[f].window /\ one.owned = flow[f].owned
      BY <1>0 DEF FlowFields
    <2>2. flow' = [flow EXCEPT ![f] = one] /\ flow[f].step = "bound" /\ UNCHANGED pending
      BY <1>0, <1>3 DEF Hold
    <2> HIDE DEF one
    <2>3. one.left \/ (Tidy(one) /\ f = pending)
      BY <2>1, <2>2 DEF FlowInv, Tidy, Gone, MidWay
    <2> QED BY <2>1, <2>2, <2>3, MoveKeepsInv
  <1>4. ASSUME NEW window \in {"open", "none"}, flow[f].step = "opening", UNCHANGED pending,
               flow' = [flow EXCEPT ![f].step = "launched", ![f].shown = TRUE, ![f].window = window]
        PROVE  FlowInv'
    <2> DEFINE one == [flow[f] EXCEPT !.step = "launched", !.shown = TRUE, !.window = window]
    <2>1. /\ DOMAIN one = FlowFields /\ one.step = "launched" /\ one.left = flow[f].left
          /\ one.held = flow[f].held /\ one.listening = flow[f].listening /\ one.window = window
      BY <1>0 DEF FlowFields
    <2>2. flow' = [flow EXCEPT ![f] = one]
      BY <1>0, <1>4
    <2> HIDE DEF one
    <2>3. one.left \/ (Tidy(one) /\ f = pending)
      BY <1>4, <2>1 DEF FlowInv, Tidy, Gone, MidWay
    <2> QED BY <1>4, <2>1, <2>2, <2>3, MoveKeepsInv
  <1>5. CASE ReplyUrl(f)
    <2> DEFINE one == [flow[f] EXCEPT !.step = "over", !.owned = flow[f].window = "open"]
    <2>1. /\ DOMAIN one = FlowFields /\ one.step = "over" /\ one.left = flow[f].left
          /\ one.held = flow[f].held /\ one.listening = flow[f].listening
          /\ one.window = flow[f].window /\ (one.window = "open" => one.owned)
      BY <1>0 DEF FlowFields
    <2>2. flow' = [flow EXCEPT ![f] = one] /\ flow[f].step = "launched" /\ UNCHANGED pending
      BY <1>0, <1>5 DEF ReplyUrl
    <2> HIDE DEF one
    <2>3. one.left \/ (Tidy(one) /\ f = pending)
      BY <2>1, <2>2 DEF FlowInv, Tidy, Gone, MidWay
    <2> QED BY <2>1, <2>2, <2>3, MoveKeepsInv
  <1>6. CASE WindowCloses(f)
    <2> DEFINE one == [flow[f] EXCEPT !.window = "none"]
    <2>1. /\ DOMAIN one = FlowFields /\ one.step = flow[f].step /\ one.left = flow[f].left
          /\ one.held = flow[f].held /\ one.listening = flow[f].listening /\ one.window = "none"
      BY <1>0 DEF FlowFields
    <2>2. flow' = [flow EXCEPT ![f] = one] /\ UNCHANGED pending
      BY <1>0, <1>6 DEF WindowCloses
    <2> HIDE DEF one
    <2>3. one.left \/ (Tidy(one) /\ (f = pending \/ Gone(one)))
      BY <2>1 DEF FlowInv, Tidy, Gone
    <2> QED BY <2>1, <2>2, <2>3, MoveKeepsInv
  <1> QED BY <1>1, <1>2, <1>3, <1>4, <1>5, <1>6 DEF Handler, Bind, OpenInBrowser

LEMMA RequestKeepsInv ==
    ASSUME FlowInv, count \in Nat, NEW c \in Client, HandleGetUrl(c)
    PROVE  FlowInv' /\ count' \in Nat
  <1> DEFINE new   == [NoHandler EXCEPT !.step = "binding", !.client = c]
             torn  == Torn(flow[pending], FALSE)
             flows == IF pending = NoFlow THEN flow ELSE [flow EXCEPT ![pending] = torn]
  <1>1. PICK f \in Flow : pending' = f /\ flow' = [flows EXCEPT ![f] = new] /\ count' = count + 1
    <2>1. count + 1 \in Flow
      BY ConstantsAssumption DEF HandleGetUrl, Flow
    <2> QED BY <2>1, Zenon DEF HandleGetUrl
  <1>2. DOMAIN new = FlowFields /\ new.step = "binding" /\ ~new.listening /\ new.window = "none"
    BY DEF NoHandler, FlowFields
  <1> HIDE DEF new
  <1>3. pending \in Flow =>
            /\ DOMAIN torn = FlowFields
            /\ torn.left \/ (Tidy(torn) /\ Gone(torn))
    <2>1. pending \in Flow => DOMAIN flow[pending] = FlowFields /\ (flow[pending].left \/ Tidy(flow[pending]))
      BY DEF FlowInv, FlowShape
    <2> QED BY <2>1, TornParts, TornIsTidy
  <1> HIDE DEF torn
  <1>4. DOMAIN flows = Flow /\ \A g \in Flow : flows[g] = flow[g] \/ (g = pending /\ flows[g] = torn)
    BY DEF FlowInv, FlowShape
  <1>5. \A g \in Flow : /\ DOMAIN flows[g] = FlowFields
                        /\ flows[g].left \/ (Tidy(flows[g]) /\ Gone(flows[g]))
    <2>0. pending \in Flow => flows[pending] = torn
      BY DEF FlowInv, FlowShape, Flow, NoFlow
    <2> HIDE DEF flows
    <2>1. ASSUME NEW g \in Flow, g = pending
          PROVE  /\ DOMAIN flows[g] = FlowFields
                 /\ flows[g].left \/ (Tidy(flows[g]) /\ Gone(flows[g]))
      <3>1. flows[g] = torn
        BY <2>0, <2>1
      <3>2. pending \in Flow
        BY <2>1
      <3> QED BY <1>3, <3>1, <3>2, Zenon
    <2>2. ASSUME NEW g \in Flow, g # pending
          PROVE  /\ DOMAIN flows[g] = FlowFields
                 /\ flows[g].left \/ (Tidy(flows[g]) /\ Gone(flows[g]))
      <3>1. flows[g] = flow[g]
        BY <1>4, <2>2
      <3> QED BY <2>2, <3>1 DEF FlowInv, FlowShape
    <2> QED BY <2>1, <2>2
  <1> HIDE DEF flows
  <1>6. DOMAIN flow' = Flow /\ \A g \in Flow : flow'[g] = IF g = f THEN new ELSE flows[g]
    BY <1>1, <1>4
  <1>7. Tidy(new)
    BY <1>2 DEF Tidy
  <1>8. \A g \in Flow : /\ DOMAIN flow'[g] = FlowFields
                        /\ flow'[g].left \/ (Tidy(flow'[g]) /\ (g = f \/ Gone(flow'[g])))
    BY <1>2, <1>5, <1>6, <1>7
  <1>9. FlowInv'
    BY <1>1, <1>6, <1>8 DEF FlowInv, FlowShape
  <1> QED BY <1>1, <1>9

LEMMA LeaveKeepsInv ==
    ASSUME FlowInv, NEW c \in Client, Leave(c) PROVE FlowInv'
  <1>1. /\ UNCHANGED pending
        /\ flow' = [f \in Flow |-> IF flow[f].client = c /\ flow[f].step \in MidWay
                                   THEN [flow[f] EXCEPT !.step = "over", !.left = TRUE] ELSE flow[f]]
    BY DEF Leave
  <1>2. ASSUME NEW g \in Flow
        PROVE  /\ DOMAIN flow'[g] = FlowFields
               /\ flow'[g].left \/ (Tidy(flow'[g]) /\ (g = pending \/ Gone(flow'[g])))
    <2> DEFINE one == [flow[g] EXCEPT !.step = "over", !.left = TRUE]
    <2>1. DOMAIN one = FlowFields /\ one.left
      BY DEF FlowInv, FlowShape, FlowFields
    <2>2. flow'[g] = one \/ flow'[g] = flow[g]
      BY <1>1
    <2> HIDE DEF one
    <2> QED BY <2>1, <2>2 DEF FlowInv, FlowShape
  <1> QED BY <1>1, <1>2 DEF FlowInv, FlowShape

LEMMA ExpireKeepsInv ==
    ASSUME FlowInv, NEW f \in Flow, Expire(f) PROVE FlowInv'
  <1>0. DOMAIN flow = Flow /\ DOMAIN flow[f] = FlowFields
    BY DEF FlowInv, FlowShape
  <1>1. CASE pending = f
    <2> DEFINE torn == Torn(flow[f], FALSE)
    <2>1. flow' = [flow EXCEPT ![f] = torn] /\ pending' = NoFlow
      BY <1>1 DEF Expire
    <2>2. DOMAIN torn = FlowFields /\ (torn.left \/ (Tidy(torn) /\ Gone(torn)))
      BY TornParts, TornIsTidy DEF FlowInv, FlowShape
    <2> HIDE DEF torn
    <2>3. DOMAIN flow' = Flow /\ \A g \in Flow : flow'[g] = IF g = f THEN torn ELSE flow[g]
      BY <1>0, <2>1
    <2> QED BY <1>1, <2>1, <2>2, <2>3 DEF FlowInv, FlowShape
  <1>2. CASE pending # f
    <2> DEFINE one == [flow[f] EXCEPT !.timer = FALSE]
    <2>1. flow' = [flow EXCEPT ![f] = one] /\ UNCHANGED pending
      BY <1>0, <1>2 DEF Expire
    <2>2. /\ DOMAIN one = FlowFields /\ one.step = flow[f].step /\ one.left = flow[f].left
          /\ one.held = flow[f].held /\ one.listening = flow[f].listening
          /\ one.window = flow[f].window /\ one.owned = flow[f].owned
      BY <1>0 DEF FlowFields
    <2> HIDE DEF one
    <2>3. one.left \/ (Tidy(one) /\ Gone(one))
      BY <1>2, <2>2 DEF FlowInv, Tidy, Gone
    <2> QED BY <2>1, <2>2, <2>3, MoveKeepsInv
  <1> QED BY <1>1, <1>2

LEMMA FlowInvHolds == Spec => [](FlowInv /\ count \in Nat)
  <1> DEFINE Inv == FlowInv /\ count \in Nat
  <1>1. Init => Inv
    <2> SUFFICES ASSUME Init PROVE FlowInv /\ count \in Nat
      OBVIOUS
    <2>1. DOMAIN NoHandler = FlowFields /\ Tidy(NoHandler) /\ Gone(NoHandler)
      BY DEF NoHandler, FlowFields, Tidy, Gone, MidWay
    <2>2. DOMAIN flow = Flow /\ \A f \in Flow : flow[f] = NoHandler
      BY DEF Init
    <2>3. count \in Nat
      BY DEF Init
    <2> QED BY <2>1, <2>2, <2>3 DEF FlowInv, FlowShape
  <1>2. Inv /\ [Next]_vars => Inv'
    <2> SUFFICES ASSUME FlowInv, count \in Nat, [Next]_vars PROVE FlowInv' /\ count' \in Nat
      OBVIOUS
    <2>1. CASE UNCHANGED <<flow, pending, count>>
      BY <2>1 DEF FlowInv, FlowShape
    <2>2. ASSUME NEW c \in Client, HandleGetUrl(c) \/ Connect(c) \/ Leave(c)
          PROVE  FlowInv' /\ count' \in Nat
      <3>1. CASE HandleGetUrl(c)
        BY <3>1, RequestKeepsInv
      <3>2. CASE Connect(c)
        BY <2>1, <3>2 DEF Connect
      <3>3. CASE Leave(c)
        BY <3>3, LeaveKeepsInv DEF Leave
      <3> QED BY <2>2, <3>1, <3>2, <3>3
    <2>3. ASSUME NEW f \in Flow, Handler(f) \/ Expire(f) \/ WindowCloses(f)
          PROVE  FlowInv' /\ count' \in Nat
      <3>1. UNCHANGED count
        BY <2>3 DEF Handler, Bind, Hold, OpenInBrowser, ReplyUrl, Expire, WindowCloses, handlerRest
      <3> QED BY <2>3, <3>1, HandlerKeepsInv, ExpireKeepsInv
    <2>4. ASSUME NEW f \in Flow, Callback(f) \/ \E brings : Redirect(f, brings)
          PROVE  FlowInv' /\ count' \in Nat
      <3>1. UNCHANGED count
        BY <2>4 DEF Callback, Responded, Redeem, Failed, Redeemed, Refreshed, Redirect
      <3>2. \/ UNCHANGED <<flow, pending>>
            \/ flow' = CancelPending(flow, f) /\ pending' = NoFlow
        BY <2>4 DEF Callback, Responded, Redeem, Failed, Redeemed, Refreshed, Redirect
      <3> QED BY <2>1, <3>1, <3>2, InvIsOrderly, CancelKeepsInv
    <2>5. CASE Poll \/ Polled \/ Lapse \/ UNCHANGED vars
      BY <2>1, <2>5 DEF Poll, Polled, Lapse, vars
    <2> QED BY <2>2, <2>3, <2>4, <2>5 DEF Next
  <1> QED BY <1>1, <1>2, PTL DEF Spec

\* A flow that is over, whatever ended it, holds neither the redirect port nor a
\* window, for any number of requests and panels (__cancel_pending).
THEOREM NothingStaysBehind == Spec => []NothingLeftBehind
  <1>1. FlowInv /\ count \in Nat => NothingLeftBehind
    BY DEF FlowInv, Gone, NothingLeftBehind
  <1> QED BY <1>1, FlowInvHolds, PTL


(***************************************************************************)
(* Types                                                                   *)
(***************************************************************************)

AFlow == [step : MidWay \cup {"none", "over"}, client : Client \cup {None},
          listening : BOOLEAN, held : BOOLEAN, timer : BOOLEAN,
          shown : BOOLEAN, window : {"none", "open"}, owned : BOOLEAN,
          left : BOOLEAN, usurped : BOOLEAN]

\* A flow takes hold of the listener it has just bound.
Sound(one) ==
    /\ one \in AFlow /\ (one.held => one.listening)
    /\ one.step \in {"binding", "bound"} => ~one.held
    /\ one.step = "bound" => one.listening

\* As the flow part of TypeOK, of the flows a step has reached.
Fit(flows) ==
    /\ flows \in [Flow -> AFlow] /\ \A g \in Flow : Sound(flows[g])
    /\ \A g \in Flow : flows[g].timer => pending = g \/ flows[g].left

FlowTypes == pending \in Flow \cup {NoFlow} /\ Fit(flow)

GrantTypes ==
    /\ back \in [Flow -> [step : {"none", "responding", "exchanging", "redeemed", "failing",
                                  "refreshing", "done"},
                          brings : {"none", "code", "alien", "error"}]]
    /\ disk \in Grant \cup {None} /\ record \in Grant \cup {None} /\ revoked \subseteq Grant
    /\ latched \in BOOLEAN /\ polling \in Grant \cup {None, Idle}
    /\ seen \in [Client -> Status \cup {None}]

LEMMA TornIsSound ==
    ASSUME NEW one, Sound(one), NEW other \in BOOLEAN
    PROVE  Sound(Torn(one, other)) /\ ~Torn(one, other).timer
  <1> DEFINE torn == Torn(one, other)
  <1>1. /\ torn \in AFlow /\ ~torn.timer /\ torn.step = one.step /\ ~torn.held
        /\ torn.listening <=> (one.listening /\ ~one.held)
    <2>1. (one.listening /\ ~one.held) \in BOOLEAN /\ (one.left \/ one.step \in MidWay) \in BOOLEAN
      OBVIOUS
    <2>2. (IF one.owned THEN "none" ELSE one.window) \in {"none", "open"}
      BY DEF Sound, AFlow
    <2> QED BY <2>1, <2>2 DEF Sound, AFlow, Torn
  <1> HIDE DEF torn
  <1>2. Sound(torn) /\ ~torn.timer
    BY <1>1 DEF Sound
  <1> QED BY <1>2 DEF torn

\* One flow becomes another, while the pending one stays or is it.
LEMMA MoveIsFit ==
    ASSUME Fit(flow), NEW f \in Flow, NEW one, Sound(one), flow' = [flow EXCEPT ![f] = one],
           \/ UNCHANGED pending /\ (one.timer => pending = f \/ one.left)
           \/ pending = f /\ ~one.timer,
           pending' \in Flow \cup {NoFlow}
    PROVE  FlowTypes'
  <1>1. flow' \in [Flow -> AFlow] /\ \A g \in Flow : flow'[g] = IF g = f THEN one ELSE flow[g]
    BY DEF Fit, Sound
  <1>2. \A g \in Flow : Sound(flow'[g])
    BY <1>1 DEF Fit
  <1>3. \A g \in Flow : flow'[g].timer => pending' = g \/ flow'[g].left
    BY <1>1 DEF Fit
  <1> QED BY <1>1, <1>2, <1>3 DEF FlowTypes, Fit

LEMMA CancelIsFit ==
    ASSUME pending \in Flow \cup {NoFlow}, NEW flows, Fit(flows), NEW f,
           flow' = CancelPending(flows, f), pending' = NoFlow
    PROVE  FlowTypes'
  <1> DEFINE other == f # pending
             torn  == Torn(flows[pending], other)
  <1>0. NoFlow \notin Flow /\ other \in BOOLEAN
    BY DEF NoFlow, Flow
  <1>1. CASE pending = NoFlow
    <2>1. flow' = flows
      BY <1>1, Zenon DEF CancelPending
    <2> QED BY <1>0, <1>1, <2>1 DEF FlowTypes, Fit
  <1>2. CASE pending \in Flow
    <2>1. flow' = [flows EXCEPT ![pending] = torn]
      BY <1>0, <1>2, Zenon DEF CancelPending
    <2> HIDE DEF other
    <2>2. Sound(torn) /\ ~torn.timer
      BY <1>0, <1>2, TornIsSound DEF Fit
    <2> HIDE DEF torn
    <2>3. flow' \in [Flow -> AFlow] /\ \A g \in Flow : flow'[g] = IF g = pending THEN torn ELSE flows[g]
      BY <1>2, <2>1, <2>2 DEF Fit, Sound
    <2>4. (\A g \in Flow : Sound(flow'[g])) /\ \A g \in Flow : flow'[g].timer => flow'[g].left
      BY <2>2, <2>3 DEF Fit
    <2> QED BY <2>3, <2>4 DEF FlowTypes, Fit
  <1> QED BY <1>1, <1>2

LEMMA OverIsFit ==
    ASSUME Fit(flow), NEW f \in Flow PROVE Fit(Over(f))
  <1> DEFINE one == [flow[f] EXCEPT !.step = "over"]
  <1>1. Over(f) = [flow EXCEPT ![f] = one]
    BY DEF Over
  <1>2. Sound(one) /\ one.timer = flow[f].timer /\ one.left = flow[f].left
    BY DEF Fit, Sound, AFlow
  <1> HIDE DEF one
  <1>3. Over(f) \in [Flow -> AFlow] /\ \A g \in Flow : Over(f)[g] = IF g = f THEN one ELSE flow[g]
    BY <1>1, <1>2 DEF Fit, Sound
  <1> QED BY <1>2, <1>3 DEF Fit

LEMMA HandlerIsFit ==
    ASSUME FlowTypes, FlowInv, NEW f \in Flow, Handler(f) \/ WindowCloses(f) \/ Expire(f)
    PROVE  FlowTypes'
  <1>0. Fit(flow) /\ Sound(flow[f]) /\ flow[f] \in AFlow /\ pending \in Flow \cup {NoFlow}
    BY DEF FlowTypes, Fit, Sound
  <1>1. CASE flow' = CancelPending(Over(f), f) /\ pending' = NoFlow
    BY <1>0, <1>1, CancelIsFit, OverIsFit
  <1>2. CASE UNCHANGED pending /\ flow' = [flow EXCEPT ![f].step = "bound", ![f].listening = TRUE] /\ flow[f].step = "binding"
    <2> DEFINE one == [flow[f] EXCEPT !.step = "bound", !.listening = TRUE]
    <2>1. one \in AFlow /\ one.step = "bound" /\ one.listening /\ one.held = flow[f].held /\ one.timer = flow[f].timer /\ one.left = flow[f].left
      BY <1>0 DEF AFlow, MidWay
    <2>2. flow' = [flow EXCEPT ![f] = one]
      BY <1>0, <1>2 DEF Fit
    <2> HIDE DEF one
    <2>3. Sound(one) /\ (one.timer => pending = f \/ one.left)
      BY <1>0, <1>2, <2>1 DEF Sound, Fit
    <2> QED BY <1>0, <1>2, <2>2, <2>3, MoveIsFit
  <1>3. CASE Hold(f)
    <2> DEFINE one == [flow[f] EXCEPT !.step = "opening", !.held = TRUE, !.timer = TRUE]
    <2>1. one \in AFlow /\ one.step = "opening" /\ one.listening = flow[f].listening /\ one.left = flow[f].left
      BY <1>0 DEF AFlow, MidWay
    <2>2. flow' = [flow EXCEPT ![f] = one] /\ UNCHANGED pending /\ flow[f].step = "bound"
      BY <1>0, <1>3 DEF Hold, Fit
    <2> HIDE DEF one
    <2>3. Sound(one) /\ (pending = f \/ one.left)
      BY <1>0, <2>1, <2>2 DEF Sound, FlowInv, Gone, MidWay
    <2> QED BY <1>0, <2>2, <2>3, MoveIsFit
  <1>4. ASSUME NEW window \in {"open", "none"}, UNCHANGED pending,
               flow' = [flow EXCEPT ![f].step = "launched", ![f].shown = TRUE, ![f].window = window]
        PROVE  FlowTypes'
    <2> DEFINE one == [flow[f] EXCEPT !.step = "launched", !.shown = TRUE, !.window = window]
    <2>1. /\ one \in AFlow /\ one.step = "launched" /\ one.listening = flow[f].listening /\ one.held = flow[f].held
          /\ one.timer = flow[f].timer /\ one.left = flow[f].left
      BY <1>0 DEF AFlow, MidWay
    <2>2. flow' = [flow EXCEPT ![f] = one]
      BY <1>0, <1>4 DEF Fit
    <2> HIDE DEF one
    <2>3. Sound(one) /\ (one.timer => pending = f \/ one.left)
      BY <1>0, <2>1 DEF Sound, Fit
    <2> QED BY <1>0, <1>4, <2>2, <2>3, MoveIsFit
  <1>5. CASE ReplyUrl(f)
    <2> DEFINE ours == flow[f].window = "open"
               one  == [flow[f] EXCEPT !.step = "over", !.owned = ours]
    <2>0. ours \in BOOLEAN /\ flow' = [flow EXCEPT ![f] = one] /\ UNCHANGED pending
      BY <1>0, <1>5 DEF ReplyUrl, Fit
    <2> HIDE DEF ours
    <2>1. /\ one \in AFlow /\ one.step = "over" /\ one.listening = flow[f].listening /\ one.held = flow[f].held
          /\ one.timer = flow[f].timer /\ one.left = flow[f].left
      BY <1>0, <2>0 DEF AFlow
    <2> HIDE DEF one
    <2>3. Sound(one) /\ (one.timer => pending = f \/ one.left)
      BY <1>0, <2>1 DEF Sound, Fit
    <2> QED BY <1>0, <2>0, <2>3, MoveIsFit
  <1>6. CASE WindowCloses(f)
    <2> DEFINE one == [flow[f] EXCEPT !.window = "none"]
    <2>1. /\ one \in AFlow /\ one.step = flow[f].step /\ one.listening = flow[f].listening /\ one.held = flow[f].held
          /\ one.timer = flow[f].timer /\ one.left = flow[f].left
      BY <1>0 DEF AFlow
    <2>2. flow' = [flow EXCEPT ![f] = one] /\ UNCHANGED pending
      BY <1>0, <1>6 DEF WindowCloses, Fit
    <2> HIDE DEF one
    <2>3. Sound(one) /\ (one.timer => pending = f \/ one.left)
      BY <1>0, <2>1 DEF Sound, Fit
    <2> QED BY <1>0, <2>2, <2>3, MoveIsFit
  <1>7. CASE Expire(f) /\ pending = f
    <2> DEFINE torn == Torn(flow[f], FALSE)
    <2>1. flow' = [flow EXCEPT ![f] = torn] /\ pending' = NoFlow
      BY <1>7 DEF Expire
    <2>2. Sound(torn) /\ ~torn.timer
      BY <1>0, TornIsSound
    <2> HIDE DEF torn
    <2> QED BY <1>0, <1>7, <2>1, <2>2, MoveIsFit
  <1>8. CASE Expire(f) /\ pending # f
    <2> DEFINE one == [flow[f] EXCEPT !.timer = FALSE]
    <2>1. /\ one \in AFlow /\ one.step = flow[f].step /\ one.listening = flow[f].listening /\ one.held = flow[f].held
          /\ ~one.timer
      BY <1>0 DEF AFlow
    <2>2. flow' = [flow EXCEPT ![f] = one] /\ UNCHANGED pending
      BY <1>0, <1>8 DEF Expire, Fit
    <2> HIDE DEF one
    <2>3. Sound(one)
      BY <1>0, <2>1 DEF Sound
    <2> QED BY <1>0, <2>1, <2>2, <2>3, MoveIsFit
  <1> QED BY <1>1, <1>2, <1>3, <1>4, <1>5, <1>6, <1>7, <1>8 DEF Handler, Bind, OpenInBrowser

LEMMA RequestIsFit ==
    ASSUME FlowTypes, count \in Nat, NEW c \in Client, HandleGetUrl(c)
    PROVE  FlowTypes'
  <1> DEFINE new   == [NoHandler EXCEPT !.step = "binding", !.client = c]
             torn  == Torn(flow[pending], FALSE)
             flows == IF pending = NoFlow THEN flow ELSE [flow EXCEPT ![pending] = torn]
  <1>0. Fit(flow) /\ pending \in Flow \cup {NoFlow} /\ NoFlow \notin Flow
    BY DEF FlowTypes, Flow, NoFlow
  <1>1. PICK f \in Flow : pending' = f /\ flow' = [flows EXCEPT ![f] = new]
    <2>1. count + 1 \in Flow
      BY ConstantsAssumption DEF HandleGetUrl, Flow
    <2> QED BY <2>1, Zenon DEF HandleGetUrl
  <1>2. Sound(new) /\ ~new.timer
    BY DEF NoHandler, Sound, AFlow, MidWay
  <1> HIDE DEF new
  <1>3. pending \in Flow => Sound(torn) /\ ~torn.timer
    BY <1>0, TornIsSound DEF Fit
  <1> HIDE DEF torn
  <1>4. flows \in [Flow -> AFlow] /\ \A g \in Flow : Sound(flows[g]) /\ (flows[g].timer => flows[g].left)
    <2>1. CASE pending = NoFlow
      BY <1>0, <2>1 DEF Fit
    <2>2. CASE pending \in Flow
      <3>1. flows \in [Flow -> AFlow] /\ \A g \in Flow : flows[g] = IF g = pending THEN torn ELSE flow[g]
        BY <1>0, <1>3, <2>2 DEF Fit, Sound
      <3> HIDE DEF flows
      <3> QED BY <1>0, <1>3, <2>2, <3>1 DEF Fit
    <2> QED BY <1>0, <2>1, <2>2
  <1> HIDE DEF flows
  <1>5. flow' \in [Flow -> AFlow] /\ \A g \in Flow : flow'[g] = IF g = f THEN new ELSE flows[g]
    BY <1>1, <1>2, <1>4 DEF Sound
  <1> QED BY <1>1, <1>2, <1>4, <1>5 DEF FlowTypes, Fit

LEMMA LeaveIsFit ==
    ASSUME FlowTypes, NEW c \in Client, Leave(c) PROVE FlowTypes'
  <1>0. Fit(flow) /\ pending \in Flow \cup {NoFlow}
    BY DEF FlowTypes
  <1>1. /\ UNCHANGED pending
        /\ flow' = [f \in Flow |-> IF flow[f].client = c /\ flow[f].step \in MidWay
                                   THEN [flow[f] EXCEPT !.step = "over", !.left = TRUE] ELSE flow[f]]
    BY DEF Leave
  <1>2. ASSUME NEW g \in Flow
        PROVE  Sound(flow'[g]) /\ (flow'[g].timer => pending = g \/ flow'[g].left)
    <2> DEFINE one == [flow[g] EXCEPT !.step = "over", !.left = TRUE]
    <2>1. Sound(one) /\ one.left
      BY <1>0 DEF Fit, Sound, AFlow
    <2>2. flow'[g] = one \/ flow'[g] = flow[g]
      BY <1>1
    <2> HIDE DEF one
    <2> QED BY <1>0, <2>1, <2>2 DEF Fit
  <1>3. flow' \in [Flow -> AFlow]
    <2>1. DOMAIN flow' = Flow /\ flow' = [g \in Flow |-> flow'[g]]
      BY <1>1
    <2> QED BY <1>2, <2>1 DEF Sound
  <1> QED BY <1>0, <1>1, <1>2, <1>3 DEF FlowTypes, Fit

LEMMA StatusIsTyped ==
    ASSUME NEW rejected \in BOOLEAN, NEW cache, NEW dates \in Grant \cup {None}
    PROVE  StatusOf(rejected, cache, dates) \in Status
  BY DEF StatusOf, Status

LEMMA BroadcastIsTyped ==
    ASSUME GrantTypes, latched' \in BOOLEAN, record' \in Grant \cup {None}, Broadcast
    PROVE  seen' \in [Client -> Status \cup {None}]
  <1> DEFINE now == StatusOf(latched', disk', record')
  <1>1. now \in Status
    BY StatusIsTyped
  <1>2. seen' = [c \in Client |-> IF seen[c] = None THEN None ELSE now]
    BY DEF Broadcast
  <1> HIDE DEF now
  <1> QED BY <1>1, <1>2

LEMMA CallbackIsTyped ==
    ASSUME GrantTypes, NEW f \in Flow,
           Callback(f) \/ \E brings \in {"code", "alien", "error"} : Redirect(f, brings)
    PROVE  GrantTypes'
  <1> DEFINE Backs == [Flow -> [step : {"none", "responding", "exchanging", "redeemed", "failing",
                                        "refreshing", "done"},
                                brings : {"none", "code", "alien", "error"}]]
  <1>0. /\ f \in Grant /\ back \in Backs
        /\ \A now \in {"exchanging", "redeemed", "failing", "refreshing"} : [back EXCEPT ![f].step = now] \in Backs
        /\ Done(f) => back' \in Backs
    <2>1. f \in Grant
      BY ConstantsAssumption DEF Flow, Grant
    <2>2. back \in Backs
      BY DEF GrantTypes
    <2>3. \A now \in {"exchanging", "redeemed", "failing", "refreshing"} : [back EXCEPT ![f].step = now] \in Backs
      BY <2>2
    <2>4. Done(f) => back' \in Backs
      BY <2>2 DEF Done
    <2> QED BY <2>1, <2>2, <2>3, <2>4
  <1>1. CASE Responded(f) \/ Failed(f)
    <2>1. UNCHANGED <<disk, record, revoked, latched, polling, seen>> /\ back' \in Backs
      BY <1>0, <1>1 DEF Responded, Failed, grantVars, playerVars
    <2> QED BY <2>1 DEF GrantTypes
  <1>2. ASSUME NEW brings \in {"code", "alien", "error"}, Redirect(f, brings) PROVE GrantTypes'
    <2>1. UNCHANGED <<disk, record, revoked, latched, polling, seen>>
      BY <1>2 DEF Redirect, grantVars, playerVars
    <2>2. back' \in Backs
      BY <1>0, <1>2 DEF Redirect
    <2> QED BY <2>1, <2>2 DEF GrantTypes
  <1>3. CASE Redeem(f)
    <2>1. /\ UNCHANGED <<record, revoked, latched, polling, seen>> /\ disk' \in {f, None, disk}
          /\ back' \in Backs
      BY <1>0, <1>3 DEF Redeem, playerVars
    <2> QED BY <1>0, <2>1 DEF GrantTypes
  <1>4. CASE Redeemed(f)
    <2>1. /\ UNCHANGED <<disk, record, revoked, polling>> /\ (UNCHANGED seen \/ Broadcast)
          /\ back' \in Backs
          /\ latched' = latched \/ latched' = FALSE
      BY <1>0, <1>4 DEF Redeemed, grantVars
    <2>2. latched' \in BOOLEAN /\ record' \in Grant \cup {None}
      BY <2>1 DEF GrantTypes
    <2> QED BY <2>1, <2>2, BroadcastIsTyped DEF GrantTypes
  <1>5. CASE Refreshed(f)
    <2>1. /\ UNCHANGED <<disk, revoked, latched, polling>> /\ Broadcast /\ back' \in Backs
          /\ record' = f \/ record' = record
      BY <1>0, <1>5 DEF Refreshed, playerVars
    <2>2. latched' \in BOOLEAN /\ record' \in Grant \cup {None}
      BY <1>0, <2>1 DEF GrantTypes
    <2> QED BY <2>1, <2>2, BroadcastIsTyped DEF GrantTypes
  <1> QED BY <1>1, <1>2, <1>3, <1>4, <1>5 DEF Callback

LEMMA PlayerIsTyped ==
    ASSUME GrantTypes,
           \/ \E c \in Client : HandleGetUrl(c) \/ Connect(c) \/ Leave(c)
           \/ \E f \in Flow : Handler(f) \/ WindowCloses(f) \/ Expire(f)
           \/ Poll \/ Polled \/ Lapse \/ UNCHANGED vars
    PROVE  GrantTypes'
  <1>1. CASE UNCHANGED <<back, disk, record, revoked, latched, polling, seen>>
    BY <1>1 DEF GrantTypes
  <1>2. ASSUME NEW c \in Client, HandleGetUrl(c) \/ Connect(c) \/ Leave(c) PROVE GrantTypes'
    <2>1. UNCHANGED <<back, disk, record, revoked, latched, polling>>
      BY <1>2 DEF HandleGetUrl, Connect, Leave, grantVars, playerVars
    <2>2. StatusOf(latched, disk, record) \in Status
      BY StatusIsTyped DEF GrantTypes
    <2>3. \/ UNCHANGED seen
          \/ seen' = [seen EXCEPT ![c] = StatusOf(latched, disk, record)]
          \/ seen' = [seen EXCEPT ![c] = None]
      BY <1>2 DEF HandleGetUrl, Connect, Leave
    <2>4. seen' \in [Client -> Status \cup {None}]
      BY <2>2, <2>3 DEF GrantTypes
    <2> QED BY <2>1, <2>4 DEF GrantTypes
  <1>3. ASSUME NEW f \in Flow, Handler(f) \/ WindowCloses(f) \/ Expire(f) PROVE GrantTypes'
    BY <1>1, <1>3 DEF Handler, Bind, Hold, OpenInBrowser, ReplyUrl, Expire, WindowCloses, handlerRest,
                      grantVars, playerVars
  <1>4. CASE Poll
    <2>1. UNCHANGED <<back, disk, record, revoked, latched, seen>> /\ polling' \in {disk, polling}
      BY <1>4 DEF Poll, grantVars
    <2> QED BY <2>1 DEF GrantTypes
  <1>5. CASE Polled
    <2>1. /\ UNCHANGED <<back, disk, record, revoked>> /\ polling' = Idle
          /\ \/ UNCHANGED <<latched, seen>>
             \/ latched' = TRUE /\ (UNCHANGED seen \/ Broadcast)
      BY <1>5 DEF Polled, grantVars
    <2>2. latched' \in BOOLEAN /\ record' \in Grant \cup {None}
      BY <2>1 DEF GrantTypes
    <2> QED BY <2>1, <2>2, BroadcastIsTyped DEF GrantTypes
  <1>6. CASE Lapse
    <2>1. /\ UNCHANGED <<back, disk, record, latched, polling, seen>> /\ disk # None
          /\ revoked' = revoked \cup {disk}
      BY <1>6 DEF Lapse, playerVars
    <2> QED BY <2>1 DEF GrantTypes
  <1>7. CASE UNCHANGED vars
    BY <1>1, <1>7 DEF vars, grantVars, playerVars
  <1> QED BY <1>2, <1>3, <1>4, <1>5, <1>6, <1>7

\* Type correctness, for any number of requests and panels: the timer of a flow
\* runs only while the flow is pending or its handler has been overtaken, and
\* nothing holds a listener that it has not bound.
THEOREM TypeCorrect == Spec => []TypeOK
  <1> DEFINE Inv == FlowTypes /\ GrantTypes
  <1>1. Init => Inv
    <2> SUFFICES ASSUME Init PROVE FlowTypes /\ GrantTypes
      OBVIOUS
    <2>1. FlowTypes
      <3>1. Sound(NoHandler) /\ ~NoHandler.timer
        BY DEF NoHandler, Sound, AFlow
      <3>2. flow \in [Flow -> AFlow] /\ \A g \in Flow : flow[g] = NoHandler
        BY <3>1 DEF Init, Sound
      <3> QED BY <3>1, <3>2 DEF Init, FlowTypes, Fit
    <2>2. back \in [Flow -> [step : {"none", "responding", "exchanging", "redeemed", "failing", "refreshing", "done"},
                             brings : {"none", "code", "alien", "error"}]]
      BY DEF Init
    <2>3. disk \in Grant \cup {None} /\ record \in Grant \cup {None} /\ revoked \subseteq Grant
      BY ConstantsAssumption DEF Init, Grant
    <2>4. seen \in [Client -> Status \cup {None}]
      <3>1. \A rejected \in BOOLEAN : StatusOf(rejected, disk, record) \in Status
        BY <2>3, StatusIsTyped
      <3>2. StatusOf(FALSE, disk, record) \in Status
        BY <3>1
      <3> QED BY <3>2 DEF Init
    <2> QED BY <2>1, <2>2, <2>3, <2>4 DEF Init, GrantTypes
  <1>2. Inv /\ FlowInv /\ count \in Nat /\ [Next]_vars => Inv'
    <2> SUFFICES ASSUME FlowTypes, GrantTypes, FlowInv, count \in Nat, [Next]_vars
                 PROVE  FlowTypes' /\ GrantTypes'
      OBVIOUS
    <2>1. GrantTypes'
      BY CallbackIsTyped, PlayerIsTyped DEF Next
    <2>2. FlowTypes'
      <3>1. CASE UNCHANGED <<flow, pending>>
        BY <3>1 DEF FlowTypes, Fit
      <3>2. ASSUME NEW f \in Flow, Callback(f) \/ \E brings \in {"code", "alien", "error"} : Redirect(f, brings)
            PROVE  FlowTypes'
        <4>1. \/ UNCHANGED <<flow, pending>>
              \/ flow' = CancelPending(flow, f) /\ pending' = NoFlow
          BY <3>2 DEF Callback, Responded, Redeem, Failed, Redeemed, Refreshed, Redirect
        <4> QED BY <3>1, <4>1, CancelIsFit DEF FlowTypes
      <3>3. CASE Poll \/ Polled \/ Lapse \/ UNCHANGED vars \/ \E c \in Client : Connect(c)
        BY <3>1, <3>3 DEF Poll, Polled, Lapse, Connect, vars
      <3> QED BY <3>2, <3>3, HandlerIsFit, RequestIsFit, LeaveIsFit DEF Next
    <2> QED BY <2>1, <2>2
  <1>3. Inv => TypeOK
    BY DEF FlowTypes, Fit, Sound, AFlow, GrantTypes, TypeOK
  <1> QED BY <1>1, <1>2, <1>3, FlowInvHolds, PTL DEF Spec

(***************************************************************************)
(* DeviceScan: who is to give a silence back                               *)
(***************************************************************************)

\* Who is to give a silence back: the scans that owe one, and the handlers that
\* are told of one once stop_other_playback returns.
Debts == {s \in Scan : owes[s]}
Promises == {s \in Scan : step[s] = "stopping" /\ found[s]}

Steps == {"new", "polling", "leaving", "over"} \cup HandlerSteps

\* What the argument needs to know of the values.
Shape ==
    /\ live \in Scan \cup {NoScan}
    /\ step \in [Scan -> Steps]
    /\ owes \in [Scan -> BOOLEAN] /\ found \in [Scan -> BOOLEAN] /\ radio \in BOOLEAN
    /\ previous \in [Scan -> Scan \cup {NoScan}]
    /\ selection \in [Panel -> [step : {"none", "writing", "telling"}, scan : Scan \cup {NoScan}]]
    /\ silences \in Nat /\ resumes \in Nat

\* Every silence is resumed, owed, or about to be owed, at most once.
Accounted == resumes + Cardinality(Debts) + Cardinality(Promises) <= silences

ScanInv == Shape /\ Accounted /\ LiveScanIsServed

LEMMA FiniteDebts ==
    /\ IsFiniteSet(Debts) /\ Cardinality(Debts) \in Nat
    /\ IsFiniteSet(Promises) /\ Cardinality(Promises) \in Nat
  <1>1. Debts \subseteq Scan /\ Promises \subseteq Scan
    BY DEF Debts, Promises
  <1> QED BY <1>1, ScanAssumption, FS_Subset, FS_CardinalityType

LEMMA FiniteDebtsNext ==
    /\ IsFiniteSet(Debts') /\ Cardinality(Debts') \in Nat
    /\ IsFiniteSet(Promises') /\ Cardinality(Promises') \in Nat
  <1>1. Debts' \subseteq Scan /\ Promises' \subseteq Scan
    BY DEF Debts, Promises
  <1> QED BY <1>1, ScanAssumption, FS_Subset, FS_CardinalityType

\* A resume clears the debt it pays.
LEMMA GiveBackPays ==
    ASSUME Shape, NEW s \in Scan \cup {NoScan}, GiveBack(s)
    PROVE  /\ owes' \in [Scan -> BOOLEAN] /\ resumes' \in Nat
           /\ radio' \in BOOLEAN
           /\ resumes' + Cardinality(Debts') <= resumes + Cardinality(Debts)
  <1>1. CASE s # NoScan /\ owes[s]
    <2>1. s \in Debts /\ Debts' = Debts \ {s}
      BY <1>1 DEF GiveBack, Debts, Shape
    <2>2. Cardinality(Debts') = Cardinality(Debts) - 1
      BY <2>1, FiniteDebts, FS_RemoveElement
    <2>3. resumes' = resumes + 1 /\ owes' \in [Scan -> BOOLEAN] 
      BY <1>1 DEF GiveBack, Shape
    <2>4. radio' = (radio \/ ~spotify) \/ radio' = radio
      BY <1>1 DEF GiveBack
    <2>5. radio' \in BOOLEAN
      BY <2>4, Zenon DEF Shape
    <2> QED BY <2>2, <2>3, <2>5, FiniteDebts DEF Shape
  <1>2. CASE ~(s # NoScan /\ owes[s])
    <2>1. UNCHANGED <<owes, resumes, radio>> /\ Debts' = Debts
      BY <1>2 DEF GiveBack, Debts, radioVars
    <2> QED BY <2>1, FiniteDebts DEF Shape
  <1> QED BY <1>1, <1>2

\* A scan that becomes the live one takes over the debt of the one it replaced,
\* and adds what it has silenced itself.
LEMMA OwnTakesOver ==
    ASSUME Shape, NEW s \in Scan, NEW p \in Scan \cup {NoScan}, NEW stopped \in BOOLEAN, NEW steps,
           Own(s, p, stopped, steps)
    PROVE  /\ owes' \in [Scan -> BOOLEAN]
           /\ Cardinality(Debts') <= Cardinality(Debts) + 1
           /\ ~stopped => Cardinality(Debts') <= Cardinality(Debts)
  <1>1. owes' \in [Scan -> BOOLEAN] /\ Debts' \subseteq Debts \cup {s}
    BY DEF Own, Shape, Debts
  <1>2. Cardinality(Debts \cup {s}) <= Cardinality(Debts) + 1 /\ IsFiniteSet(Debts \cup {s})
    BY FiniteDebts, FS_AddElement
  <1>3. Cardinality(Debts') <= Cardinality(Debts) + 1
    BY <1>1, <1>2, FiniteDebts, FiniteDebtsNext, FS_Subset, FS_CardinalityType
  <1>4. ASSUME ~stopped PROVE Cardinality(Debts') <= Cardinality(Debts)
    <2>1. CASE p # NoScan /\ owes[p]
      <3>1. p \in Debts /\ Debts' \subseteq (Debts \ {p}) \cup {s}
        BY <2>1, ScanAssumption DEF Own, Shape, Debts
      <3> DEFINE Others == Debts \ {p}
                 Bound  == Others \cup {s}
      <3>2. Cardinality(Others) = Cardinality(Debts) - 1 /\ IsFiniteSet(Others)
        BY <3>1, FiniteDebts, FS_RemoveElement
      <3> HIDE DEF Others
      <3>3. IsFiniteSet(Bound) /\ Cardinality(Bound) \in {Cardinality(Others), Cardinality(Others) + 1}
        BY <3>2, FS_AddElement
      <3>4. Debts' \subseteq Bound
        BY <3>1 DEF Others
      <3> HIDE DEF Bound
      <3>5. Cardinality(Debts') <= Cardinality(Bound)
        BY <3>3, <3>4, FS_Subset
      <3> QED BY <3>2, <3>3, <3>5, FiniteDebts, FiniteDebtsNext
    <2>2. CASE ~(p # NoScan /\ owes[p])
      <3>1. Debts' \subseteq Debts
        BY <1>4, <2>2 DEF Own, Shape, Debts
      <3> QED BY <3>1, FiniteDebts, FS_Subset
    <2> QED BY <2>1, <2>2
  <1> QED BY <1>1, <1>3, <1>4

(***************************************************************************)
(* The invariant                                                           *)
(***************************************************************************)

\* A promise is only made by a handler that begins to stop what plays.
LEMMA PromisesShrink ==
    ASSUME UNCHANGED found, \A t \in Scan : step'[t] = "stopping" => step[t] = "stopping"
    PROVE  Cardinality(Promises') <= Cardinality(Promises)
  <1>1. Promises' \subseteq Promises
    BY DEF Promises
  <1> QED BY <1>1, FiniteDebts, FS_Subset

\* The step that both Start and Evicted end with.
LEMMA SilenceAccounts ==
    ASSUME Shape, Accounted,
           NEW s \in Scan, NEW p \in Scan \cup {NoScan}, NEW none \in Scan \cup {NoScan},
           NEW steps \in [Scan -> Steps], step[s] # "stopping",
           \A t \in Scan : steps[t] = "stopping" => step[t] = "stopping",
           Silence(s, p, steps, none)
    PROVE  /\ Accounted'
           /\ live' \in Scan \cup {NoScan} /\ step' \in [Scan -> Steps]
           /\ owes' \in [Scan -> BOOLEAN] /\ found' \in [Scan -> BOOLEAN] /\ radio' \in BOOLEAN
           /\ silences' \in Nat /\ resumes' \in Nat
  <1>1. CASE dead
    <2>1. GiveBack(p) /\ step' = [steps EXCEPT ![s] = "over"] /\ live' = none /\ UNCHANGED <<found, silences>>
      BY <1>1 DEF Silence
    <2>2. step' \in [Scan -> Steps] /\ \A t \in Scan : step'[t] = "stopping" => step[t] = "stopping"
      BY <2>1 DEF Steps
    <2>3. Accounted'
      BY <2>1, <2>2, GiveBackPays, PromisesShrink, FiniteDebts, FiniteDebtsNext DEF Accounted, Shape
    <2> QED BY <2>1, <2>2, <2>3, GiveBackPays DEF Shape
  <1>2. CASE ~dead /\ spotify
    <2>1. Own(s, p, FALSE, steps) /\ UNCHANGED <<found, radio, silences, resumes>>
      BY <1>2 DEF Silence, radioVars
    <2>2. step' = [steps EXCEPT ![s] = "resolving"] /\ live' = s
      BY <2>1 DEF Own
    <2>3. step' \in [Scan -> Steps] /\ \A t \in Scan : step'[t] = "stopping" => step[t] = "stopping"
      BY <2>2 DEF Steps, HandlerSteps
    <2>4. owes' \in [Scan -> BOOLEAN] /\ Cardinality(Debts') <= Cardinality(Debts)
      BY <2>1, OwnTakesOver, Zenon
    <2>5. Accounted'
      BY <2>1, <2>3, <2>4, PromisesShrink, FiniteDebts, FiniteDebtsNext DEF Accounted, Shape
    <2> QED BY <2>1, <2>2, <2>3, <2>4, <2>5 DEF Shape
  <1>3. CASE ~dead /\ ~spotify
    <2>1. /\ found' = [found EXCEPT ![s] = radio] /\ step' = [steps EXCEPT ![s] = "stopping"]
          /\ live' = none /\ UNCHANGED <<owes, resumes>>
          /\ silences' = IF radio THEN silences + 1 ELSE silences
      BY <1>3 DEF Silence
    <2>2. radio' \in BOOLEAN /\ found' \in [Scan -> BOOLEAN] /\ step' \in [Scan -> Steps] /\ silences' \in Nat
      <3>1. radio' = FALSE
        BY <1>3 DEF Silence
      <3>2. step' \in [Scan -> Steps]
        BY <2>1 DEF Steps, HandlerSteps
      <3>3. found' \in [Scan -> BOOLEAN]
        BY <2>1 DEF Shape
      <3>4. silences' \in Nat
        BY <2>1 DEF Shape
      <3> QED BY <3>1, <3>2, <3>3, <3>4
    <2>3. Debts' = Debts
      BY <2>1 DEF Debts
    <2>4. CASE radio
      <3>1. Promises' \subseteq Promises \cup {s}
        BY <2>1 DEF Promises, Shape
      <3> DEFINE Bound == Promises \cup {s}
      <3>2. IsFiniteSet(Bound) /\ Cardinality(Bound) \in {Cardinality(Promises), Cardinality(Promises) + 1}
        BY FiniteDebts, FS_AddElement
      <3> HIDE DEF Bound
      <3>3. Cardinality(Promises') <= Cardinality(Bound)
        BY <3>1, <3>2, FS_Subset DEF Bound
      <3> QED BY <2>1, <2>2, <2>3, <2>4, <3>2, <3>3, FiniteDebts, FiniteDebtsNext DEF Accounted, Shape
    <2>5. CASE ~radio
      <3>1. Promises' \subseteq Promises
        BY <2>1, <2>5 DEF Promises, Shape
      <3>2. Cardinality(Promises') <= Cardinality(Promises)
        BY <3>1, FiniteDebts, FS_Subset
      <3> QED BY <2>1, <2>2, <2>3, <2>5, <3>2, FiniteDebts, FiniteDebtsNext DEF Accounted, Shape
    <2> QED BY <2>1, <2>2, <2>4, <2>5 DEF Shape
  <1> QED BY <1>1, <1>2, <1>3 DEF Silence

LEMMA EvictedServes ==
    ASSUME Shape, LiveScanIsServed, UNCHANGED cut, NEW s \in Scan, NEW p, step[s] = "evicting",
           Silence(s, p, step, live)
    PROVE  LiveScanIsServed'
  <1>1. \/ Own(s, p, FALSE, step)
        \/ live' = live /\ (step' = [step EXCEPT ![s] = "over"] \/ step' = [step EXCEPT ![s] = "stopping"])
    BY Zenon DEF Silence
  <1>2. CASE Own(s, p, FALSE, step)
    BY <1>2 DEF Own, Shape, LiveScanIsServed
  <1>3. CASE live' = live /\ (step' = [step EXCEPT ![s] = "over"] \/ step' = [step EXCEPT ![s] = "stopping"])
    BY <1>3 DEF LiveScanIsServed, Shape
  <1> QED BY <1>1, <1>2, <1>3

LEMMA CancelledSteps ==
    ASSUME Shape
    PROVE  Cancelled \in [Scan -> Steps] /\ \A t \in Scan : Cancelled[t] = "stopping" => step[t] = "stopping"
  BY DEF Cancelled, Shape, Steps

\* A step that silences nothing, and gives back at most what is owed.
LEMMA QuietKeepsInv ==
    ASSUME Shape, Accounted, UNCHANGED <<found, previous, silences>>,
           (UNCHANGED <<owes, resumes>> /\ radio' \in BOOLEAN) \/ \E s \in Scan \cup {NoScan} : GiveBack(s),
           live' \in Scan \cup {NoScan}, step' \in [Scan -> Steps],
           \A t \in Scan : step'[t] = "stopping" => step[t] = "stopping",
           selection' \in [Panel -> [step : {"none", "writing", "telling"}, scan : Scan \cup {NoScan}]]
    PROVE  Shape' /\ Accounted'
  <1>1. Cardinality(Promises') <= Cardinality(Promises)
    BY PromisesShrink
  <1>2. CASE UNCHANGED <<owes, resumes>> /\ radio' \in BOOLEAN
    <2>1. Debts' = Debts
      BY <1>2 DEF Debts
    <2> QED BY <1>1, <1>2, <2>1, FiniteDebts, FiniteDebtsNext DEF Shape, Accounted
  <1>3. CASE \E s \in Scan \cup {NoScan} : GiveBack(s)
    <2>1. /\ owes' \in [Scan -> BOOLEAN] /\ resumes' \in Nat /\ radio' \in BOOLEAN
          /\ resumes' + Cardinality(Debts') <= resumes + Cardinality(Debts)
      BY <1>3, GiveBackPays
    <2> QED BY <1>1, <2>1, FiniteDebts, FiniteDebtsNext DEF Shape, Accounted
  <1> QED BY <1>2, <1>3

LEMMA ScanInitInv == ScanInit => ScanInv
  <1> SUFFICES ASSUME ScanInit PROVE ScanInv
    OBVIOUS
  <1>1. Debts = {} /\ Promises = {}
    BY DEF ScanInit, Debts, Promises
  <1>2. Accounted
    BY <1>1, FS_EmptySet DEF ScanInit, Accounted
  <1>3. Shape
    BY DEF ScanInit, Shape, Steps, NoSelection
  <1> QED BY <1>2, <1>3 DEF ScanInit, ScanInv, LiveScanIsServed

\* SPOTIFY_DEVICE_SCAN_START and the handler that serves it.
LEMMA ScanHandlerKeepsInv ==
    ASSUME ScanInv, NEW s \in Scan,
           (\E c \in Panel : Start(c, s)) \/ Evicted(s) \/ Stopped(s) \/ Resolved(s)
    PROVE  ScanInv'
  <1> USE DEF ScanInv
  <1>1. ASSUME NEW c \in Panel, Start(c, s) PROVE ScanInv'
    <2>1. /\ step[s] = "new" /\ UNCHANGED <<selection, cut>>
          /\ previous' = [previous EXCEPT ![s] = live]
      BY <1>1 DEF Start
    <2>2. previous' \in [Scan -> Scan \cup {NoScan}]
      BY <2>1 DEF Shape
    <2>3. CASE /\ step' = [Cancelled EXCEPT ![s] = "evicting"] /\ live' = NoScan
               /\ UNCHANGED <<owes, found, radioVars, silences, resumes>>
      <3>1. step' \in [Scan -> Steps] /\ \A t \in Scan : step'[t] = "stopping" => step[t] = "stopping"
        BY <2>3, CancelledSteps DEF Steps, HandlerSteps
      <3>2. Debts' = Debts /\ Cardinality(Promises') <= Cardinality(Promises)
        BY <2>3, <3>1, PromisesShrink DEF Debts
      <3>3. Accounted'
        BY <2>3, <3>2, FiniteDebts, FiniteDebtsNext DEF Accounted, Shape
      <3> QED BY <2>1, <2>2, <2>3, <3>1, <3>3 DEF Shape, radioVars, LiveScanIsServed
    <2>4. CASE Silence(s, live, Cancelled, NoScan)
      <3>1. LiveScanIsServed'
        <4>1. live' = NoScan \/ Own(s, live, FALSE, Cancelled)
          BY <2>4, Zenon DEF Silence
        <4>2. CASE Own(s, live, FALSE, Cancelled)
          BY <4>2, CancelledSteps DEF Own, LiveScanIsServed
        <4> QED BY <4>1, <4>2 DEF LiveScanIsServed
      <3>2. /\ Accounted'
            /\ live' \in Scan \cup {NoScan} /\ step' \in [Scan -> Steps]
            /\ owes' \in [Scan -> BOOLEAN] /\ found' \in [Scan -> BOOLEAN] /\ radio' \in BOOLEAN
            /\ silences' \in Nat /\ resumes' \in Nat
        BY <2>1, <2>4, CancelledSteps, SilenceAccounts DEF Shape
      <3> QED BY <2>1, <2>2, <3>1, <3>2 DEF Shape
    <2> QED BY <1>1, <2>3, <2>4 DEF Start
  <1>2. CASE Evicted(s)
    <2>1. /\ step[s] = "evicting" /\ UNCHANGED <<selection, cut, previous>>
          /\ Silence(s, previous[s], step, live)
      BY <1>2 DEF Evicted, histVars
    <2>2. LiveScanIsServed'
      BY <2>1, EvictedServes DEF Shape
    <2>3. /\ Accounted'
          /\ live' \in Scan \cup {NoScan} /\ step' \in [Scan -> Steps]
          /\ owes' \in [Scan -> BOOLEAN] /\ found' \in [Scan -> BOOLEAN] /\ radio' \in BOOLEAN
          /\ silences' \in Nat /\ resumes' \in Nat
      BY <2>1, SilenceAccounts DEF Shape
    <2> QED BY <2>1, <2>2, <2>3 DEF Shape
  <1>3. CASE Stopped(s)
    <2>1. /\ step[s] = "stopping" /\ Own(s, previous[s], found[s], step)
          /\ UNCHANGED <<previous, found, radio, selection, silences, resumes>>
      BY <1>3 DEF Stopped, radioVars
    <2>2. /\ step' = [step EXCEPT ![s] = "resolving"] /\ live' = s
          /\ owes' \in [Scan -> BOOLEAN]
      BY <2>1, OwnTakesOver DEF Own, Shape
    <2>3. step' \in [Scan -> Steps]
      BY <2>2 DEF Shape, Steps, HandlerSteps
    <2>4. CASE found[s]
      <3>1. s \in Promises /\ Promises' = Promises \ {s}
        BY <2>1, <2>2, <2>4 DEF Promises, Shape
      <3>2. Cardinality(Promises') = Cardinality(Promises) - 1
        BY <3>1, FiniteDebts, FS_RemoveElement
      <3>3. Cardinality(Debts') <= Cardinality(Debts) + 1
        BY <2>1, OwnTakesOver DEF Shape
      <3> QED BY <2>1, <2>2, <2>3, <3>2, <3>3, FiniteDebts, FiniteDebtsNext
                 DEF Shape, Accounted, LiveScanIsServed
    <2>5. CASE ~found[s]
      <3>1. Cardinality(Promises') <= Cardinality(Promises)
        BY <2>1, <2>2, PromisesShrink DEF Shape
      <3>2. Cardinality(Debts') <= Cardinality(Debts)
        BY <2>1, <2>5, OwnTakesOver DEF Shape
      <3> QED BY <2>1, <2>2, <2>3, <3>1, <3>2, FiniteDebts, FiniteDebtsNext
                 DEF Shape, Accounted, LiveScanIsServed
    <2> QED BY <2>4, <2>5
  <1>4. CASE Resolved(s)
    <2>1. /\ step[s] = "resolving" /\ step' = [step EXCEPT ![s] = IF live = s THEN "polling" ELSE "over"]
          /\ UNCHANGED <<live, owes, found, previous, radio, selection, silences, resumes, cut>>
      BY <1>4 DEF Resolved, radioVars, histVars
    <2>2. step' \in [Scan -> Steps] /\ \A t \in Scan : step'[t] = "stopping" => step[t] = "stopping"
      BY <2>1 DEF Shape, Steps
    <2>3. LiveScanIsServed'
      BY <2>1 DEF Shape, LiveScanIsServed
    <2> QED BY <2>1, <2>2, <2>3, QuietKeepsInv DEF Shape
  <1> QED BY <1>1, <1>2, <1>3, <1>4

\* The poll task.
LEMMA PollKeepsInv ==
    ASSUME ScanInv, NEW s \in Scan, PollSuperseded(s) \/ PollAlone(s) \/ PollEnds(s) \/ Left(s) \/ Probe(s)
    PROVE  ScanInv'
  <1> USE DEF ScanInv
  <1>1. CASE Probe(s)
    BY <1>1 DEF Probe, radioVars, histVars, Shape, Accounted, Debts, Promises, LiveScanIsServed
  <1>2. CASE PollSuperseded(s) \/ PollAlone(s) \/ PollEnds(s) \/ Left(s)
    <2>1. /\ step' = [step EXCEPT ![s] = "over"] \/ step' = [step EXCEPT ![s] = "leaving"]
          /\ live' = NoScan \/ (UNCHANGED live /\ (live # s \/ cut))
          /\ UNCHANGED <<found, previous, silences, selection, cut>>
          /\ UNCHANGED <<owes, resumes, radio>> \/ GiveBack(s)
      BY <1>2 DEF PollSuperseded, PollAlone, PollEnds, Left, radioVars, histVars, LiveScanIsServed
    <2>2. step' \in [Scan -> Steps] /\ \A t \in Scan : step'[t] = "stopping" => step[t] = "stopping"
      BY <2>1 DEF Shape, Steps
    <2>3. LiveScanIsServed'
      BY <2>1 DEF Shape, LiveScanIsServed
    <2> QED BY <2>1, <2>2, <2>3, QuietKeepsInv DEF Shape
  <1> QED BY <1>1, <1>2

\* What else a panel does.
LEMMA PanelKeepsInv ==
    ASSUME ScanInv, NEW c \in Panel, Stop(c) \/ Select(c) \/ SelectStep(c) \/ LeaveScan(c)
    PROVE  ScanInv'
  <1> USE DEF ScanInv
  <1>1. CASE Stop(c)
    <2>1. /\ live' = NoScan /\ step' = Cancelled /\ GiveBack(live)
          /\ UNCHANGED <<found, previous, silences, selection>>
      BY <1>1 DEF Stop
    <2> QED BY <2>1, CancelledSteps, QuietKeepsInv DEF Shape, LiveScanIsServed
  <1>2. CASE Select(c)
    <2>1. /\ selection' = [selection EXCEPT ![c] = [step |-> "writing", scan |-> live]]
          /\ UNCHANGED <<live, step, owes, found, previous, radio, silences, resumes, cut>>
      BY <1>2 DEF Select, scanVars, radioVars, histVars
    <2> QED BY <2>1, QuietKeepsInv DEF Shape, LiveScanIsServed
  <1>3. CASE SelectFailed(c)
    <2>1. /\ selection' = [selection EXCEPT ![c] = NoSelection]
          /\ UNCHANGED <<live, step, owes, found, previous, radio, silences, resumes, cut>>
      BY <1>3 DEF SelectFailed, scanVars, radioVars, histVars
    <2> QED BY <2>1, QuietKeepsInv DEF Shape, LiveScanIsServed, NoSelection
  <1>4. CASE SelectSaved(c)
    <2>1. /\ live' = NoScan /\ step' = Cancelled
          /\ \/ selection' = [selection EXCEPT ![c] = NoSelection]
             \/ selection' = [selection EXCEPT ![c].step = "telling"]
          /\ UNCHANGED <<owes, found, previous, radio, silences, resumes>>
      BY <1>4 DEF SelectSaved
    <2>2. selection' \in [Panel -> [step : {"none", "writing", "telling"}, scan : Scan \cup {NoScan}]]
      BY <2>1 DEF Shape, NoSelection
    <2> QED BY <2>1, <2>2, CancelledSteps, QuietKeepsInv DEF Shape, LiveScanIsServed
  <1>5. CASE SelectTold(c)
    <2>1. /\ GiveBack(selection[c].scan) /\ selection' = [selection EXCEPT ![c] = NoSelection]
          /\ UNCHANGED <<live, step, found, previous, silences, cut>>
      BY <1>5 DEF SelectTold, histVars
    <2>2. selection[c].scan \in Scan \cup {NoScan}
      BY DEF Shape
    <2>3. selection' \in [Panel -> [step : {"none", "writing", "telling"}, scan : Scan \cup {NoScan}]]
      BY <2>1 DEF Shape, NoSelection
    <2> QED BY <2>1, <2>2, <2>3, QuietKeepsInv DEF Shape, LiveScanIsServed
  <1>6. CASE LeaveScan(c)
    <2> DEFINE mine == {s \in Scan : owner[s] = c /\ step[s] \in HandlerSteps}
    <2>1. /\ step' = [s \in Scan |-> IF s \in mine THEN "over" ELSE step[s]]
          /\ cut' = (cut \/ mine # {} \/ selection[c] # NoSelection)
          /\ selection' = [selection EXCEPT ![c] = NoSelection]
          /\ UNCHANGED <<live, owes, found, previous, radio, silences, resumes>>
      BY <1>6 DEF LeaveScan, radioVars
    <2>2. step' \in [Scan -> Steps] /\ \A t \in Scan : step'[t] = "stopping" => step[t] = "stopping"
      BY <2>1 DEF Shape, Steps
    <2>3. LiveScanIsServed'
      <3>1. CASE mine = {}
        BY <2>1, <3>1 DEF Shape, LiveScanIsServed
      <3>2. CASE mine # {}
        BY <2>1, <3>2, Zenon DEF LiveScanIsServed
      <3> QED BY <3>1, <3>2
    <2> QED BY <2>1, <2>2, <2>3, QuietKeepsInv DEF Shape, NoSelection
  <1> QED BY <1>1, <1>2, <1>3, <1>4, <1>5, <1>6 DEF SelectStep

LEMMA ScanStepInv == ScanInv /\ [ScanNext]_deviceVars => ScanInv'
  <1> SUFFICES ASSUME ScanInv, [ScanNext]_deviceVars PROVE ScanInv'
    OBVIOUS
  <1>1. ASSUME NEW s \in Scan, ScanStep(s) \/ Probe(s) PROVE ScanInv'
    BY <1>1, ScanHandlerKeepsInv, PollKeepsInv DEF ScanStep
  <1>2. ASSUME NEW c \in Panel, SelectStep(c) \/ Stop(c) \/ Select(c) \/ LeaveScan(c) PROVE ScanInv'
    BY <1>2, PanelKeepsInv
  <1>3. ASSUME NEW c \in Panel, NEW s \in Scan, Start(c, s) PROVE ScanInv'
    BY <1>3, ScanHandlerKeepsInv
  <1>4. CASE RadioToggled \/ SpotifyTurns
    <2>1. UNCHANGED <<live, step, owes, found, previous, selection, silences, resumes, cut>>
      BY <1>4 DEF RadioToggled, SpotifyTurns, scanVars, histVars
    <2>2. radio' = ~radio \/ radio' = (radio /\ spotify)
      BY <1>4 DEF RadioToggled, SpotifyTurns
    <2>3. radio' \in BOOLEAN
      BY <2>2, Zenon
    <2> QED BY <2>1, <2>3, QuietKeepsInv DEF ScanInv, Shape, LiveScanIsServed
  <1>5. CASE GrantTurns \/ UNCHANGED deviceVars
    BY <1>5 DEF GrantTurns, deviceVars, scanVars, radioVars, histVars, ScanInv, Shape, Accounted, Debts, Promises,
                LiveScanIsServed
  <1> QED BY <1>1, <1>2, <1>3, <1>4, <1>5 DEF ScanNext

LEMMA AlwaysAccounted == ScanSpec => []ScanInv
  BY ScanInitInv, ScanStepInv, PTL DEF ScanSpec

\* However scans replace each other, expire, are stopped and selected from, none
\* resumes the radio twice, and the live one has its handler or its poll task at
\* work unless its start was cut off (SpotifyDeviceService).
THEOREM DutiesAreKept == ScanSpec => []ScansKeepTheirDuties
  <1>1. ScanInv => ScansKeepTheirDuties
    BY FiniteDebts DEF ScanInv, Shape, Accounted, ScansKeepTheirDuties, ResumedOnceEach, Debts
  <1> QED BY <1>1, AlwaysAccounted, PTL

(***************************************************************************)
(* Types                                                                   *)
(***************************************************************************)

Selection == {NoSelection} \cup [step : {"writing", "telling"}, scan : Scan]

\* What ScanTypeOK says beyond Shape.
Flags ==
    /\ unanswered \in BOOLEAN /\ spotify \in BOOLEAN /\ dead \in BOOLEAN
    /\ overlapped \in BOOLEAN /\ cut \in BOOLEAN
Panels ==
    /\ owner \in [Scan -> Panel] /\ saw \in [Scan -> BOOLEAN]
    /\ gone \subseteq Panel
    /\ selection \in [Panel -> Selection]

LEMMA InitFlags == ScanInit => Flags /\ Panels
  BY DEF ScanInit, Flags, Panels, Selection

LEMMA GiveBackFlags == ASSUME Flags, NEW s, GiveBack(s) PROVE unanswered' \in BOOLEAN
  BY DEF GiveBack, radioVars, Flags

LEMMA SilenceFlags ==
    ASSUME Shape, Flags, NEW s, NEW p, NEW steps, NEW none, Silence(s, p, steps, none)
    PROVE  unanswered' \in BOOLEAN
  <1>1. GiveBack(p) \/ UNCHANGED unanswered \/ unanswered' = (unanswered \/ radio)
    BY DEF Silence, radioVars
  <1> QED BY <1>1, GiveBackFlags, Zenon DEF Flags, Shape

LEMMA StepFlags == ScanInv /\ Flags /\ [ScanNext]_deviceVars => Flags'
  <1> SUFFICES ASSUME ScanInv, Flags, [ScanNext]_deviceVars PROVE Flags'
    OBVIOUS
  <1>0. Shape
    BY DEF ScanInv
  <1>1. ASSUME NEW s \in Scan, ScanStep(s) \/ Probe(s) PROVE Flags'
    <2>1. /\ UNCHANGED <<spotify, dead, overlapped, cut>>
          /\ \/ UNCHANGED unanswered
             \/ GiveBack(s)
             \/ Silence(s, previous[s], step, live)
      BY <1>1 DEF ScanStep, Probe, Evicted, Stopped, Resolved, PollSuperseded, PollAlone, PollEnds, Left,
                  radioVars, histVars
    <2>2. unanswered' \in BOOLEAN
      BY <1>0, <2>1, GiveBackFlags, SilenceFlags DEF Flags
    <2> QED BY <2>1, <2>2 DEF Flags
  <1>2. ASSUME NEW c \in Panel, SelectStep(c) \/ Stop(c) \/ Select(c) PROVE Flags'
    <2>1. /\ UNCHANGED <<spotify, dead, overlapped, cut>>
          /\ \/ UNCHANGED unanswered
             \/ unanswered' = FALSE
             \/ \E s \in Scan \cup {NoScan} : GiveBack(s)
      BY <1>0, <1>2 DEF Shape, SelectStep, SelectFailed, SelectSaved, SelectTold, Stop, Select,
                       radioVars, histVars
    <2>2. unanswered' \in BOOLEAN
      BY <2>1, GiveBackFlags DEF Flags
    <2> QED BY <2>1, <2>2 DEF Flags
  <1>3. ASSUME NEW c \in Panel, LeaveScan(c) PROVE Flags'
    BY <1>3 DEF LeaveScan, radioVars, Flags
  <1>4. ASSUME NEW c \in Panel, NEW s \in Scan, Start(c, s) PROVE Flags'
    <2>1. /\ UNCHANGED <<spotify, dead, cut>> /\ overlapped' = (overlapped \/ Busy)
          /\ UNCHANGED unanswered \/ Silence(s, live, Cancelled, NoScan)
      BY <1>4 DEF Start, radioVars
    <2>2. unanswered' \in BOOLEAN
      BY <1>0, <2>1, SilenceFlags DEF Flags
    <2>3. overlapped' \in BOOLEAN
      BY <2>1, Zenon DEF Flags, Busy
    <2> QED BY <2>1, <2>2, <2>3 DEF Flags
  <1>5. CASE RadioToggled \/ SpotifyTurns \/ GrantTurns \/ UNCHANGED deviceVars
    BY <1>5 DEF RadioToggled, SpotifyTurns, GrantTurns, deviceVars, radioVars, histVars, Flags
  <1> QED BY <1>1, <1>2, <1>3, <1>4, <1>5 DEF ScanNext

LEMMA StepPanels == ScanInv /\ Panels /\ [ScanNext]_deviceVars => Panels'
  <1> SUFFICES ASSUME ScanInv, Panels, [ScanNext]_deviceVars PROVE Panels'
    OBVIOUS
  <1> USE DEF Panels
  <1>1. ASSUME NEW s \in Scan, ScanStep(s) PROVE Panels'
    BY <1>1 DEF ScanStep, Evicted, Stopped, Resolved, PollSuperseded, PollAlone, PollEnds, Left
  <1>2. ASSUME NEW s \in Scan, Probe(s) PROVE Panels'
    BY <1>2 DEF Probe
  <1>3. ASSUME NEW c \in Panel, SelectTold(c) \/ SelectFailed(c) \/ LeaveScan(c) PROVE Panels'
    BY <1>3 DEF SelectTold, SelectFailed, LeaveScan, Selection, scanVars
  <1>4. ASSUME NEW c \in Panel, SelectSaved(c) PROVE Panels'
    <2>1. /\ UNCHANGED <<owner, saw, gone>> /\ selection[c].step = "writing"
          /\ \/ selection' = [selection EXCEPT ![c] = NoSelection]
             \/ selection' = [selection EXCEPT ![c].step = "telling"]
      BY <1>4 DEF SelectSaved
    <2>2. selection[c] \in [step : {"writing", "telling"}, scan : Scan]
      BY <2>1 DEF Selection, NoSelection
    <2>3. [selection[c] EXCEPT !.step = "telling"] \in Selection
      BY <2>2 DEF Selection
    <2>4. NoSelection \in Selection
      BY DEF Selection
    <2> QED BY <2>1, <2>3, <2>4
  <1>5. ASSUME NEW c \in Panel, Stop(c) PROVE Panels'
    BY <1>5 DEF Stop
  <1>6. ASSUME NEW c \in Panel, Select(c) PROVE Panels'
    <2>1. /\ selection' = [selection EXCEPT ![c] = [step |-> "writing", scan |-> live]]
          /\ live \in Scan /\ UNCHANGED <<owner, saw, gone>>
      BY <1>6 DEF Select, scanVars, ScanInv, Shape
    <2>2. [step |-> "writing", scan |-> live] \in Selection
      BY <2>1 DEF Selection
    <2> QED BY <2>1, <2>2
  <1>7. ASSUME NEW c \in Panel, NEW s \in Scan, Start(c, s) PROVE Panels'
    BY <1>7 DEF Start
  <1>8. CASE RadioToggled \/ SpotifyTurns \/ GrantTurns \/ UNCHANGED deviceVars
    BY <1>8 DEF RadioToggled, SpotifyTurns, GrantTurns, deviceVars, scanVars
  <1> QED BY <1>1, <1>2, <1>3, <1>4, <1>5, <1>6, <1>7, <1>8 DEF ScanNext, SelectStep

\* Every scan has an owner and a step of its coroutine, every selection in
\* flight is of a scan (SpotifyDeviceService.__scan is never half built).
THEOREM ScanTypeCorrect == ScanSpec => []ScanTypeOK
  <1>1. ScanSpec => [](Flags /\ Panels)
    BY InitFlags, StepFlags, StepPanels, AlwaysAccounted, PTL DEF ScanSpec
  <1>2. ScanInv /\ Flags /\ Panels => ScanTypeOK
    BY DEF ScanInv, Shape, Steps, Flags, Panels, Selection, ScanTypeOK
  <1> QED BY <1>1, <1>2, AlwaysAccounted, PTL
================================================================================
