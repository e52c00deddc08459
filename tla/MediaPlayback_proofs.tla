------------------------- MODULE MediaPlayback_proofs -------------------------
(***************************************************************************)
(* Proofs about MediaPlayback, for any number of coroutines and stations:  *)
(* the claim, the active player and the card agree between polls.          *)
(***************************************************************************)
EXTENDS MediaPlayback, TLAPS

Returning == {"loading", "announcing", "tuning", "tail"}

\* Where the poll is in a claim or a release says who holds playback, and only
\* the poll moves it.
ClaimInv ==
    /\ co[Poll].step \in {"idle", "asking"} => (claimed <=> active = "spotify")
    /\ co[Poll].step \in {"starting", "streaming"} => claimed /\ active = "spotify"
    /\ co[Poll].step \in Returning => claimed /\ active = "radio"
    /\ co[Poll].step \in {"idle", "asking", "starting", "streaming"} \cup Returning
    /\ co[Poll].step # "idle" => active # "none"

\* The media type is behind only while a claim is being started or a load of
\* the radio waits for its answer.
CardInv ==
    /\ co[Poll].step \notin {"starting", "loading"} /\ (\A x \in Task : co[x].step # "loading") =>
           card.type = active

Shape == DOMAIN co = Coroutine /\ DOMAIN card = {"type", "playing"}

IInv == Shape /\ ClaimInv /\ CardInv

(***************************************************************************)
(* What a step of one coroutine does to the others                         *)
(***************************************************************************)

\* Coroutine x alone has moved, to a step of its own.
Moved(x) ==
    /\ DOMAIN co' = Coroutine
    /\ \A y \in Coroutine \ {x} : co'[y] = co[y]

LEMMA AwaitMoves ==
    ASSUME Shape, NEW x \in Coroutine, NEW step, NEW station, NEW sound, Await(x, step, station, sound)
    PROVE  Moved(x) /\ co'[x].step = step
  BY DEF Shape, Await, Moved

LEMMA RestMoves ==
    ASSUME Shape, NEW x \in Coroutine, co' = [co EXCEPT ![x] = Rest]
    PROVE  Moved(x) /\ co'[x].step = "idle"
  BY DEF Shape, Moved, Rest

LEMMA PlayMoves ==
    ASSUME Shape, NEW x \in Coroutine, NEW tail, PlayRadio(x, tail)
    PROVE  \/ Moved(x) /\ co'[x].step \in {"tail", "tuning"}
           \/ UNCHANGED co /\ ~tail
  <1>1. CASE vlc.media # None /\ tail
    BY <1>1, AwaitMoves DEF PlayRadio
  <1>2. CASE vlc.media # None /\ ~tail
    BY <1>2 DEF PlayRadio
  <1>3. CASE vlc.media = None
    BY <1>3, AwaitMoves DEF PlayRadio, BeginLoad
  <1> QED BY <1>1, <1>2, <1>3

LEMMA CardKeepsShape ==
    ASSUME Shape
    PROVE  /\ RadioShown.type = card.type
           /\ DOMAIN RadioShown = {"type", "playing"}
           /\ [card EXCEPT !.type = active].type = active
           /\ DOMAIN [card EXCEPT !.type = active] = {"type", "playing"}
  BY DEF Shape, RadioShown

\* A task that neither loads nor moves playback keeps the invariant.
LEMMA TaskKeepsInv ==
    ASSUME IInv, NEW x \in Task, UNCHANGED <<active, claimed>>,
           (Moved(x) /\ co'[x].step # "loading") \/ UNCHANGED co,
           co[x].step # "loading" \/ card'.type = active \/ UNCHANGED co,
           card'.type = card.type \/ card'.type = active,
           DOMAIN card' = {"type", "playing"}
    PROVE  IInv'
  <1>1. UNCHANGED co \/ co'[Poll] = co[Poll]
    BY ConstantsAssumption DEF Moved, Coroutine
  <1>2. ClaimInv'
    BY <1>1 DEF IInv, ClaimInv
  <1>3. CardInv'
    BY <1>1 DEF IInv, CardInv, Moved, Coroutine
  <1> QED BY <1>2, <1>3 DEF IInv, Shape, Moved

(***************************************************************************)
(* The invariant                                                           *)
(***************************************************************************)

LEMMA InitInv == Init => IInv
  BY DEF Init, IInv, Shape, ClaimInv, CardInv, Coroutine, Rest, Returning

\* A step of the poll that moves nobody else.
LEMMA PollKeepsInv == ASSUME IInv, PollStep PROVE IInv'
  <1> USE DEF IInv
  <1>0. Poll \in Coroutine /\ \A x \in Task : x \in Coroutine \ {Poll}
    BY ConstantsAssumption DEF Coroutine
  <1>1. CASE PollTick
    <2>1. Moved(Poll) /\ co'[Poll].step = "asking" /\ co[Poll].step = "idle"
      <3>1. Await(Poll, "asking", None, FALSE) /\ co[Poll] = Rest
        BY <1>1 DEF PollTick
      <3>2. Rest.step = "idle"
        BY DEF Rest
      <3> QED BY <1>0, <3>1, <3>2 DEF Await, Moved, Shape
    <2> QED BY <1>0, <1>1, <2>1 DEF PollTick, spotifyVars, Moved, Shape, ClaimInv, CardInv, Returning
  <1>2. CASE PollFailed \/ PollNothing
    <2>1. Moved(Poll) /\ co'[Poll].step = "idle" /\ co[Poll].step = "asking"
      BY <1>0, <1>2, RestMoves DEF PollFailed, PollNothing
    <2> QED BY <1>0, <1>2, <2>1 DEF PollFailed, PollNothing, Moved, Shape, ClaimInv, CardInv, Returning
  <1>3. CASE Claim
    <2>1. Moved(Poll) /\ co'[Poll].step = "starting"
      BY <1>0, <1>3, AwaitMoves DEF Claim
    <2> QED BY <1>0, <1>3, <2>1 DEF Claim, Moved, Shape, ClaimInv, CardInv, Returning
  <1>4. CASE ClaimStarted
    <2>1. Moved(Poll) /\ co'[Poll].step = "streaming" /\ co[Poll].step = "starting"
      BY <1>0, <1>4, AwaitMoves DEF ClaimStarted
    <2>2. card'.type = active' /\ DOMAIN card' = {"type", "playing"}
      BY <1>4, CardKeepsShape DEF ClaimStarted
    <2> QED BY <1>0, <1>4, <2>1, <2>2 DEF ClaimStarted, Moved, Shape, ClaimInv, CardInv, Returning
  <1>5. CASE PollPlaying
    <2>1. Moved(Poll) /\ co'[Poll].step = "streaming" /\ co[Poll].step = "asking"
      BY <1>0, <1>5, AwaitMoves DEF PollPlaying
    <2> QED BY <1>0, <1>5, <2>1 DEF PollPlaying, Moved, Shape, ClaimInv, CardInv, Returning
  <1>6. CASE Release
    <2>1. Moved(Poll) /\ co'[Poll].step = "loading" /\ co[Poll].step = "asking"
      BY <1>0, <1>6, AwaitMoves DEF Release, LoadDefault, BeginLoad
    <2> QED BY <1>0, <1>6, <2>1 DEF Release, LoadDefault, Moved, Shape, ClaimInv, CardInv, Returning
  <1>7. CASE SpotifyStreamed
    <2>1. Moved(Poll) /\ co'[Poll].step = "idle" /\ co[Poll].step = "streaming"
      BY <1>0, <1>7, RestMoves DEF SpotifyStreamed
    <2>2. card'.type = card.type /\ DOMAIN card' = {"type", "playing"}
      BY <1>7 DEF SpotifyStreamed, Shape
    <2> QED BY <1>0, <1>7, <2>1, <2>2 DEF SpotifyStreamed, spotifyVars, Moved, Shape, ClaimInv, CardInv, Returning
  <1> QED BY <1>1, <1>2, <1>3, <1>4, <1>5, <1>6, <1>7 DEF PollStep, PollSucceeds

\* The poll's own steps of the radio's load, at the end of a release.
LEMMA ReleaseKeepsInv == ASSUME IInv, LoadStep(Poll) PROVE IInv'
  <1> USE DEF IInv
  <1>0. Poll \in Coroutine /\ \A x \in Task : x \in Coroutine \ {Poll}
    BY ConstantsAssumption DEF Coroutine
  <1>1. co[Poll].step \in Returning /\ UNCHANGED active /\ claimed /\ active = "radio"
    BY DEF LoadStep, DefaultLoaded, Announced, Tuned, TailSent, ClaimInv, Returning
  <1>2. card'.type = (IF DefaultLoaded(Poll) THEN active ELSE card.type) /\ DOMAIN card' = {"type", "playing"}
    BY CardKeepsShape DEF LoadStep, DefaultLoaded, Announced, Tuned, TailSent, Shape
  <1>3. Moved(Poll) /\ \/ co'[Poll].step \in Returning \ {"loading"} /\ UNCHANGED claimed
                       \/ co'[Poll].step = "idle" /\ ~claimed'
    <2>1. CASE DefaultLoaded(Poll)
      BY <1>0, <2>1, AwaitMoves DEF DefaultLoaded, spotifyVars, Returning
    <2>2. CASE Announced(Poll) /\ co[Poll].sound
      BY <1>0, <2>2, PlayMoves DEF Announced, Returning
    <2>3. CASE Announced(Poll) /\ ~co[Poll].sound
      BY <1>0, <2>3, RestMoves DEF Announced, Finish
    <2>4. CASE Tuned(Poll) /\ co[Poll].sound
      <3>1. Await(Poll, "tail", None, FALSE) /\ UNCHANGED claimed
        BY <2>4 DEF Tuned
      <3> QED BY <1>0, <3>1 DEF Await, Moved, Shape, Returning
    <2>5. CASE Tuned(Poll) /\ ~co[Poll].sound
      BY <1>0, <2>5, RestMoves DEF Tuned, Finish
    <2>6. CASE TailSent(Poll)
      BY <1>0, <2>6, RestMoves DEF TailSent, Finish
    <2> QED BY <2>1, <2>2, <2>3, <2>4, <2>5, <2>6 DEF LoadStep
  <1>4. ClaimInv'
    BY <1>1, <1>3 DEF ClaimInv, Returning
  <1>5. CardInv'
    <2>1. CASE DefaultLoaded(Poll)
      BY <1>1, <1>2, <2>1 DEF CardInv
    <2>2. CASE ~DefaultLoaded(Poll)
      <3>1. co[Poll].step # "loading"
        BY <2>2 DEF LoadStep, Announced, Tuned, TailSent
      <3> QED BY <1>0, <1>1, <1>2, <1>3, <2>2, <3>1 DEF CardInv, Moved, Returning
    <2> QED BY <2>1, <2>2
  <1> QED BY <1>2, <1>3, <1>4, <1>5 DEF Shape, Moved

LEMMA TaskStepKeepsInv ==
    ASSUME IInv, NEW x \in Task,
           \/ LoadStep(x) \/ Run(x) \/ PausePlay(x) \/ Skip(x) \/ StreamEnds(x) \/ Reload(x)
           \/ StopForScan(x) \/ ResumeAfterScan(x)
    PROVE  IInv'
  <1>0. x \in Coroutine /\ x # Poll /\ Shape
    BY ConstantsAssumption DEF Coroutine, IInv
  <1>1. CASE DefaultLoaded(x)
    BY <1>0, <1>1, AwaitMoves, CardKeepsShape, TaskKeepsInv DEF DefaultLoaded, spotifyVars
  <1>2. CASE Announced(x)
    <2>1. /\ UNCHANGED <<active, claimed>> /\ co[x].step # "loading"
          /\ card' = RadioShown
      BY <1>0, <1>2 DEF Announced, Finish
    <2>2. (Moved(x) /\ co'[x].step # "loading") \/ UNCHANGED co
      BY <1>0, <1>2, PlayMoves, RestMoves DEF Announced, Finish
    <2> QED BY <1>0, <2>1, <2>2, CardKeepsShape, TaskKeepsInv
  <1>3. CASE Tuned(x)
    <2>1. UNCHANGED <<active, claimed, card>> /\ co[x].step # "loading"
      BY <1>0, <1>3 DEF Tuned, Finish
    <2>2. Moved(x) /\ co'[x].step # "loading"
      <3>1. CASE Await(x, "tail", None, FALSE)
        BY <1>0, <3>1 DEF Await, Moved, Shape
      <3>2. CASE co' = [co EXCEPT ![x] = Rest]
        BY <1>0, <3>2, RestMoves
      <3> QED BY <1>3, <3>1, <3>2 DEF Tuned, Finish
    <2> QED BY <1>0, <2>1, <2>2, TaskKeepsInv DEF Shape
  <1>4. CASE TailSent(x)
    BY <1>0, <1>4, RestMoves, CardKeepsShape, TaskKeepsInv DEF TailSent, Finish
  <1>5. CASE Run(x)
    <2>1. active = "none" /\ active' = "radio" /\ UNCHANGED <<claimed, card>>
      BY <1>5 DEF Run, LoadDefault, spotifyVars
    <2>2. Moved(x) /\ co'[x].step = "loading"
      BY <1>0, <1>5, AwaitMoves DEF Run, LoadDefault, BeginLoad
    <2>3. co'[Poll] = co[Poll] /\ co[Poll].step = "idle"
      BY <1>0, <2>1, <2>2 DEF Moved, Coroutine, IInv, ClaimInv
    <2> QED BY <1>0, <2>1, <2>2, <2>3 DEF IInv, Shape, Moved, ClaimInv, CardInv, Returning
  <1>6. CASE PausePlay(x)
    <2>1. UNCHANGED <<active, claimed, card>> /\ co[x].step # "loading"
      BY <1>6 DEF PausePlay, spotifyVars, Rest
    <2>2. (Moved(x) /\ co'[x].step # "loading") \/ UNCHANGED co
      BY <1>0, <1>6, PlayMoves DEF PausePlay
    <2> QED BY <1>0, <2>1, <2>2, TaskKeepsInv DEF Shape
  <1>7. CASE Skip(x) \/ Reload(x)
    <2>1. UNCHANGED <<active, claimed, card>> /\ co[x].step # "loading"
      <3>1. UNCHANGED <<active, claimed, card>> /\ (co[x] = Rest \/ co[x].step = "queued")
        BY <1>7 DEF Skip, Reload, spotifyVars
      <3> QED BY <3>1 DEF Rest
    <2>2. PICK station : Await(x, "tuning", station, FALSE)
      BY <1>7 DEF Skip, Reload, BeginLoad
    <2>3. Moved(x) /\ co'[x].step # "loading"
      BY <1>0, <2>2 DEF Await, Moved, Shape
    <2> QED BY <1>0, <2>1, <2>3, TaskKeepsInv DEF Shape
  <1>8. CASE StreamEnds(x) \/ StopForScan(x)
    <2>1. UNCHANGED <<active, claimed, card>> /\ co[x].step # "loading"
      <3>1. UNCHANGED <<active, claimed, card>> /\ co[x] = Rest
        BY <1>8 DEF StreamEnds, StopForScan, spotifyVars
      <3> QED BY <3>1 DEF Rest
    <2>2. Await(x, "queued", None, FALSE) \/ Await(x, "tail", None, FALSE)
      BY <1>8 DEF StreamEnds, StopForScan
    <2>3. Moved(x) /\ co'[x].step # "loading"
      BY <1>0, <2>2 DEF Await, Moved, Shape
    <2> QED BY <1>0, <2>1, <2>3, TaskKeepsInv DEF Shape
  <1>9. CASE ResumeAfterScan(x)
    <2>1. UNCHANGED <<active, claimed, card>> /\ co[x].step # "loading"
      BY <1>9 DEF ResumeAfterScan, spotifyVars, Rest
    <2>2. (Moved(x) /\ co'[x].step # "loading") \/ UNCHANGED co
      BY <1>0, <1>9, PlayMoves DEF ResumeAfterScan
    <2> QED BY <1>0, <2>1, <2>2, TaskKeepsInv DEF Shape
  <1> QED BY <1>1, <1>2, <1>3, <1>4, <1>5, <1>6, <1>7, <1>8, <1>9 DEF LoadStep

LEMMA StepInv == IInv /\ [Next]_vars => IInv'
  <1> SUFFICES ASSUME IInv, [Next]_vars PROVE IInv'
    OBVIOUS
  <1>1. CASE PollStep BY <1>1, PollKeepsInv
  <1>2. ASSUME NEW x \in Coroutine, LoadStep(x) PROVE IInv'
    BY <1>2, ReleaseKeepsInv, TaskStepKeepsInv DEF Coroutine
  <1>3. ASSUME NEW x \in Task,
               \/ Run(x) \/ PausePlay(x) \/ Skip(x) \/ StreamEnds(x) \/ Reload(x)
               \/ StopForScan(x) \/ ResumeAfterScan(x)
        PROVE IInv'
    BY <1>3, TaskStepKeepsInv
  <1>4. CASE VlcEvent
    BY <1>4, CardKeepsShape DEF VlcEvent, spotifyVars, IInv, Shape, ClaimInv, CardInv
  <1>5. CASE RefreshAuth \/ SpotifyMoves \/ UNCHANGED vars
    BY <1>5 DEF RefreshAuth, SpotifyMoves, vars, spotifyVars, IInv, Shape, ClaimInv, CardInv
  <1> QED BY <1>1, <1>2, <1>3, <1>4, <1>5 DEF Next

LEMMA AlwaysIInv == Spec => []IInv
  BY InitInv, StepInv, PTL DEF Spec

\* Between polls the Spotify player believes it holds playback exactly when the
\* manager gave it playback, however many commands, VLC restarts and scans run
\* beside it (claim_media_control, release_playback).
THEOREM ClaimAgrees == Spec => []ClaimIsPlayback
  <1>1. IInv => ClaimIsPlayback BY DEF IInv, ClaimInv, ClaimIsPlayback
  <1> QED BY <1>1, AlwaysIInv, PTL

\* Between polls, with no first load under way, the dashboards show the player
\* that is active (__stream_media_type).
THEOREM CardAgrees == Spec => []CardShowsWhoPlays
  <1>1. IInv => CardShowsWhoPlays BY DEF IInv, CardInv, CardShowsWhoPlays
  <1> QED BY <1>1, AlwaysIInv, PTL

(***************************************************************************)
(* Types                                                                   *)
(***************************************************************************)

Address == Station \cup {None}
Steps == {"idle", "queued", "asking", "starting", "streaming", "loading", "announcing", "tuning", "tail"}
Progress == [step : Steps, station : Address, sound : BOOLEAN]
Player == [media : Address, playing : BOOLEAN]

LEMMA RestIsProgress == Rest \in Progress /\ Silence \in Player
  BY DEF Rest, Progress, Steps, Address, Silence, Player

LEMMA AwaitTypes ==
    ASSUME TypeOK, NEW x \in Coroutine, NEW step \in Steps, NEW station \in Address,
           NEW sound \in BOOLEAN, Await(x, step, station, sound)
    PROVE  co' \in [Coroutine -> Progress]
  <1>1. [step |-> step, station |-> station, sound |-> sound] \in Progress
    BY DEF Progress
  <1> QED BY <1>1 DEF Await, TypeOK, Progress, Steps, Address

LEMMA BeginLoadTypes ==
    ASSUME TypeOK, NEW x \in Coroutine, NEW step \in Steps, NEW station \in Address,
           NEW sound \in BOOLEAN, BeginLoad(x, step, station, sound)
    PROVE  co' \in [Coroutine -> Progress] /\ vlc' \in Player /\ url' \in Address
  BY AwaitTypes, RestIsProgress DEF BeginLoad, Address

LEMMA SoundingTypes ==
    ASSUME NEW player \in Player
    PROVE  Sounding(player) \in Player
  BY DEF Sounding, Player

LEMMA LoadedTypes ==
    ASSUME TypeOK, NEW x \in Coroutine, NEW address \in Answers(x)
    PROVE  address \in Address /\ Loaded(address) \in Player
  <1>1. address \in Address
    BY DEF TypeOK, Answers, Address
  <1> QED BY <1>1 DEF Loaded, Player, TypeOK, Address

LEMMA PlayTypes ==
    ASSUME TypeOK, NEW x \in Coroutine, NEW tail \in BOOLEAN, PlayRadio(x, tail)
    PROVE  /\ co' \in [Coroutine -> Progress] /\ vlc' \in Player
           /\ url' \in Address /\ event' \in BOOLEAN
  <1>1. co \in [Coroutine -> Progress] /\ vlc \in Player /\ channel \in Address /\ url \in Address
        /\ event \in BOOLEAN
    BY DEF TypeOK, Progress, Steps, Player, Address
  <1>2. CASE vlc.media # None
    <2>1. vlc' = Sounding(vlc) /\ event' = TRUE /\ UNCHANGED url
      BY <1>2 DEF PlayRadio
    <2>2. Await(x, "tail", None, FALSE) \/ UNCHANGED co
      BY <1>2 DEF PlayRadio
    <2>3. co' \in [Coroutine -> Progress]
      BY <1>1, <2>2, AwaitTypes DEF Steps, Address
    <2> QED BY <1>1, <2>1, <2>3, SoundingTypes
  <1>3. CASE vlc.media = None
    <2>1. BeginLoad(x, "tuning", channel, tail) /\ UNCHANGED event
      BY <1>3 DEF PlayRadio
    <2> QED BY <1>1, <2>1, BeginLoadTypes DEF Steps
  <1> QED BY <1>2, <1>3

\* TypeOK by its parts: the flags and the players.
Flags ==
    /\ claimed \in BOOLEAN /\ heard \in BOOLEAN /\ latched \in BOOLEAN
    /\ interrupted \in BOOLEAN /\ silenced \in BOOLEAN
    /\ autoplay \in BOOLEAN /\ resume \in BOOLEAN
Players ==
    /\ spotify \in {"off", "elsewhere"} \cup OnTarget
    /\ active \in {"none", "radio", "spotify"}
    /\ channel \in Station /\ url \in Address
    /\ vlc \in Player /\ event \in BOOLEAN
    /\ co \in [Coroutine -> Progress]
    /\ card \in [type : {"none", "radio", "spotify"}, playing : BOOLEAN]

LEMMA TypeParts == TypeOK <=> Flags /\ Players
  BY DEF TypeOK, Flags, Players, Address, Steps, Progress, Player

LEMMA CardTypes ==
    ASSUME TypeOK, card' \in {card, [card EXCEPT !.type = active], RadioShown, [card EXCEPT !.playing = heard]}
    PROVE  card' \in [type : {"none", "radio", "spotify"}, playing : BOOLEAN]
  BY DEF TypeOK, RadioShown

LEMMA StepFlags == TypeOK /\ [Next]_vars => Flags'
  <1> SUFFICES ASSUME TypeOK, [Next]_vars PROVE Flags'
    OBVIOUS
  <1>0. Flags /\ vlc.playing \in BOOLEAN
    BY TypeParts DEF Players, Player
  <1>1. CASE PollStep
    <2>1. UNCHANGED <<silenced, autoplay, resume>>
      BY <1>1 DEF PollStep, PollTick, PollFailed, PollSucceeds, PollNothing, Claim, PollPlaying, Release,
                  ClaimStarted, SpotifyStreamed, configVars
    <2>2. heard' \in BOOLEAN
      BY <1>0, <1>1 DEF Flags, PollStep, PollTick, PollFailed, PollSucceeds, PollNothing, Claim, PollPlaying,
                       Release, ClaimStarted, SpotifyStreamed, spotifyVars
    <2>3. claimed' \in BOOLEAN /\ latched' \in BOOLEAN
      BY <1>0, <1>1 DEF Flags, PollStep, PollTick, PollFailed, PollSucceeds, PollNothing, Claim, PollPlaying,
                       Release, ClaimStarted, SpotifyStreamed, spotifyVars
    <2>4. interrupted' \in BOOLEAN
      BY <1>0, <1>1 DEF Flags, PollStep, PollTick, PollFailed, PollSucceeds, PollNothing, Claim, PollPlaying,
                       Release, ClaimStarted, SpotifyStreamed
    <2> QED BY <1>0, <2>1, <2>2, <2>3, <2>4 DEF Flags
  <1>2. ASSUME NEW x \in Coroutine, LoadStep(x) PROVE Flags'
    <2>1. UNCHANGED <<heard, latched, interrupted, silenced, autoplay, resume>>
      BY <1>2 DEF LoadStep, DefaultLoaded, Announced, Tuned, TailSent, spotifyVars, configVars
    <2>2. claimed' \in {claimed, FALSE}
      BY <1>2 DEF LoadStep, DefaultLoaded, Announced, Tuned, TailSent, spotifyVars, Finish
    <2> QED BY <1>0, <2>1, <2>2 DEF Flags
  <1>3. ASSUME NEW x \in Task,
               \/ Run(x) \/ PausePlay(x) \/ Skip(x) \/ StreamEnds(x) \/ Reload(x)
               \/ StopForScan(x) \/ ResumeAfterScan(x)
        PROVE  Flags'
    <2>1. UNCHANGED <<claimed, heard, latched, interrupted, autoplay, resume>>
          /\ silenced' \in {silenced, FALSE, vlc.playing}
      BY <1>3 DEF Run, PausePlay, Skip, StreamEnds, Reload, StopForScan, ResumeAfterScan, spotifyVars, configVars
    <2> QED BY <1>0, <2>1 DEF Flags
  <1>4. CASE VlcEvent \/ RefreshAuth \/ SpotifyMoves \/ UNCHANGED vars
    BY <1>0, <1>4 DEF VlcEvent, RefreshAuth, SpotifyMoves, vars, spotifyVars, configVars, Flags
  <1> QED BY <1>1, <1>2, <1>3, <1>4 DEF Next

LEMMA PollPlayers == ASSUME TypeOK, PollStep PROVE Players'
  <1>0. Players /\ Flags /\ Poll \in Coroutine
    BY TypeParts DEF Coroutine
  <1> USE DEF Players
  <1>1. CASE PollTick
    <2>1. co' \in [Coroutine -> Progress]
      BY <1>0, <1>1, AwaitTypes DEF PollTick, Steps, Address
    <2> QED BY <1>0, <1>1, <2>1 DEF PollTick, radioVars
  <1>2. CASE PollFailed \/ PollNothing
    BY <1>0, <1>2, RestIsProgress DEF PollFailed, PollNothing, radioVars
  <1>3. CASE Claim
    <2>1. co' \in [Coroutine -> Progress]
      BY <1>0, <1>3, AwaitTypes DEF Claim, Steps, Address
    <2>2. vlc' \in Player /\ active' = "spotify" /\ UNCHANGED <<spotify, channel, url, event, card>>
      BY <1>0, <1>3, RestIsProgress DEF Claim
    <2> QED BY <1>0, <2>1, <2>2
  <1>4. CASE ClaimStarted
    <2>1. co' \in [Coroutine -> Progress]
      BY <1>0, <1>4, AwaitTypes DEF ClaimStarted, Steps, Address
    <2>2. UNCHANGED <<active, channel, url, vlc, event>> /\ spotify' \in {spotify, "playing"}
      BY <1>4 DEF ClaimStarted, radioVars
    <2>3. card' \in [type : {"none", "radio", "spotify"}, playing : BOOLEAN]
      BY <1>4, CardTypes DEF ClaimStarted
    <2> QED BY <1>0, <2>1, <2>2, <2>3 DEF OnTarget
  <1>5. CASE PollPlaying
    <2>1. co' \in [Coroutine -> Progress]
      BY <1>0, <1>5, AwaitTypes DEF PollPlaying, Steps, Address
    <2> QED BY <1>0, <1>5, <2>1 DEF PollPlaying, radioVars
  <1>6. CASE SpotifyStreamed
    <2>1. card' \in [type : {"none", "radio", "spotify"}, playing : BOOLEAN]
      BY <1>6, CardTypes DEF SpotifyStreamed
    <2> QED BY <1>0, <1>6, <2>1, RestIsProgress DEF SpotifyStreamed, radioVars
  <1>7. CASE Release
    <2> DEFINE sound == resume /\ interrupted /\ heard
    <2>1. active' = "radio" /\ BeginLoad(Poll, "loading", channel, sound)
          /\ UNCHANGED <<spotify, card, channel, event>>
      BY <1>7 DEF Release, LoadDefault
    <2>2. sound \in BOOLEAN
      BY Zenon
    <2> HIDE DEF sound
    <2>3. co' \in [Coroutine -> Progress] /\ vlc' \in Player /\ url' \in Address
      BY <1>0, <2>1, <2>2, BeginLoadTypes DEF Steps, Address
    <2> QED BY <1>0, <2>1, <2>3
  <1> QED BY <1>1, <1>2, <1>3, <1>4, <1>5, <1>6, <1>7 DEF PollStep, PollSucceeds

LEMMA LoadPlayers == ASSUME TypeOK, NEW x \in Coroutine, LoadStep(x) PROVE Players'
  <1>0. Players /\ Flags /\ co[x].sound \in BOOLEAN
    BY TypeParts DEF Players, Progress
  <1> USE DEF Players
  <1>1. CASE DefaultLoaded(x)
    <2>1. co' \in [Coroutine -> Progress]
      BY <1>0, <1>1, AwaitTypes DEF DefaultLoaded, Steps, Address
    <2>2. url' \in Address /\ vlc' \in Player
      BY <1>1, LoadedTypes DEF DefaultLoaded
    <2>3. card' \in [type : {"none", "radio", "spotify"}, playing : BOOLEAN]
      BY <1>1, CardTypes DEF DefaultLoaded
    <2> QED BY <1>0, <1>1, <2>1, <2>2, <2>3 DEF DefaultLoaded
  <1>2. CASE Announced(x)
    <2>1. card' \in [type : {"none", "radio", "spotify"}, playing : BOOLEAN]
      BY <1>2, CardTypes DEF Announced
    <2>2. UNCHANGED <<spotify, active, channel>>
      BY <1>2 DEF Announced
    <2>3. CASE co[x].sound
      <3> DEFINE tail == TRUE
      <3>1. PlayRadio(x, tail) /\ tail \in BOOLEAN
        BY <1>2, <2>3 DEF Announced
      <3> HIDE DEF tail
      <3> QED BY <1>0, <2>1, <2>2, <3>1, PlayTypes
    <2>4. CASE ~co[x].sound
      BY <1>0, <1>2, <2>1, <2>2, <2>4, RestIsProgress DEF Announced, Finish
    <2> QED BY <2>3, <2>4
  <1>3. CASE Tuned(x)
    <2>1. url' \in Address /\ vlc' \in Player
      BY <1>3, LoadedTypes, SoundingTypes DEF Tuned
    <2>2. event' \in BOOLEAN
      BY <1>3, Zenon DEF Tuned
    <2>3. co' \in [Coroutine -> Progress]
      <3>1. Await(x, "tail", None, FALSE) \/ Finish(x)
        BY <1>3 DEF Tuned
      <3>2. CASE Await(x, "tail", None, FALSE)
        BY <3>2, AwaitTypes DEF Steps, Address
      <3>3. CASE Finish(x)
        BY <1>0, <3>3, RestIsProgress DEF Finish
      <3> QED BY <3>1, <3>2, <3>3
    <2> QED BY <1>0, <1>3, <2>1, <2>2, <2>3 DEF Tuned
  <1>4. CASE TailSent(x)
    <2>1. card' \in [type : {"none", "radio", "spotify"}, playing : BOOLEAN]
      BY <1>4, CardTypes DEF TailSent
    <2> QED BY <1>0, <1>4, <2>1, RestIsProgress DEF TailSent, Finish, radioVars
  <1> QED BY <1>1, <1>2, <1>3, <1>4 DEF LoadStep

LEMMA TaskPlayers ==
    ASSUME TypeOK, NEW x \in Task,
           \/ Run(x) \/ PausePlay(x) \/ Skip(x) \/ StreamEnds(x) \/ Reload(x)
           \/ StopForScan(x) \/ ResumeAfterScan(x)
    PROVE  Players'
  <1>0. Players /\ Flags /\ x \in Coroutine /\ channel \in Address /\ None \in Address
    BY TypeParts DEF Players, Coroutine, Address
  <1> USE DEF Players
  <1>1. CASE Run(x)
    <2>1. active' = "radio" /\ BeginLoad(x, "loading", channel, autoplay)
          /\ UNCHANGED <<spotify, card, channel, event>>
      BY <1>1 DEF Run, LoadDefault
    <2>2. co' \in [Coroutine -> Progress] /\ vlc' \in Player /\ url' \in Address
      BY <1>0, <2>1, BeginLoadTypes DEF Steps, Flags
    <2> QED BY <1>0, <2>1, <2>2
  <1>2. CASE PausePlay(x)
    <2>1. UNCHANGED <<spotify, active, card, channel>>
      BY <1>2 DEF PausePlay
    <2>2. CASE vlc.playing
      <3>1. vlc' = [vlc EXCEPT !.playing = FALSE] /\ event' = TRUE /\ UNCHANGED <<url, co>>
        BY <1>2, <2>2 DEF PausePlay
      <3> QED BY <1>0, <2>1, <3>1 DEF Player
    <2>3. CASE ~vlc.playing
      <3> DEFINE tail == FALSE
      <3>1. PlayRadio(x, tail) /\ tail \in BOOLEAN
        BY <1>2, <2>3 DEF PausePlay
      <3> HIDE DEF tail
      <3> QED BY <1>0, <2>1, <3>1, PlayTypes
    <2> QED BY <2>2, <2>3
  <1>3. CASE Skip(x)
    <2>1. PICK next \in Station : channel' = next /\ BeginLoad(x, "tuning", next, FALSE)
      BY <1>3 DEF Skip
    <2>2. co' \in [Coroutine -> Progress] /\ vlc' \in Player /\ url' \in Address
      BY <1>0, <2>1, BeginLoadTypes DEF Steps, Address
    <2> QED BY <1>0, <1>3, <2>1, <2>2 DEF Skip
  <1>4. CASE StreamEnds(x)
    <2>1. co' \in [Coroutine -> Progress]
      BY <1>0, <1>4, AwaitTypes DEF StreamEnds, Steps
    <2> QED BY <1>0, <1>4, <2>1 DEF StreamEnds, Player
  <1>5. CASE Reload(x)
    <2>1. co' \in [Coroutine -> Progress] /\ vlc' \in Player /\ url' \in Address
      BY <1>0, <1>5, BeginLoadTypes DEF Reload, Steps
    <2> QED BY <1>0, <1>5, <2>1 DEF Reload
  <1>6. CASE StopForScan(x)
    <2>1. co' \in [Coroutine -> Progress]
      BY <1>0, <1>6, AwaitTypes DEF StopForScan, Steps
    <2> QED BY <1>0, <1>6, <2>1, RestIsProgress DEF StopForScan
  <1>7. CASE ResumeAfterScan(x)
    <2>1. UNCHANGED <<spotify, active, card, channel>>
      BY <1>7 DEF ResumeAfterScan
    <2>2. CASE active = "spotify"
      BY <1>0, <1>7, <2>1, <2>2 DEF ResumeAfterScan
    <2>3. CASE active # "spotify"
      <3> DEFINE tail == TRUE
      <3>1. PlayRadio(x, tail) /\ tail \in BOOLEAN
        BY <1>7, <2>3 DEF ResumeAfterScan
      <3> HIDE DEF tail
      <3> QED BY <1>0, <2>1, <3>1, PlayTypes
    <2> QED BY <2>2, <2>3
  <1> QED BY <1>1, <1>2, <1>3, <1>4, <1>5, <1>6, <1>7

LEMMA InitTypes == Init => TypeOK
  <1> SUFFICES ASSUME Init PROVE TypeOK
    OBVIOUS
  <1>1. Flags
    BY DEF Init, Flags
  <1>2. co \in [Coroutine -> Progress]
    BY RestIsProgress DEF Init
  <1>3. Players
    BY <1>2, RestIsProgress DEF Init, Players, OnTarget, Address
  <1> QED BY <1>1, <1>3, TypeParts

\* The radio only ever plays a configured station and has one to return to,
\* whatever the poll, the commands and the scans do in between
\* (RadioPlayer.__channel, MediaManager.__active_player).
THEOREM TypeCorrect == Spec => []TypeOK
  <1>1. TypeOK /\ [Next]_vars => Players'
    <2> SUFFICES ASSUME TypeOK, [Next]_vars PROVE Players'
      OBVIOUS
    <2>0. Players
      BY TypeParts
    <2>1. CASE VlcEvent
      <3>1. card' \in [type : {"none", "radio", "spotify"}, playing : BOOLEAN]
        BY <2>1, CardTypes DEF VlcEvent
      <3> QED BY <2>0, <2>1, <3>1 DEF VlcEvent, Players
    <2>2. CASE RefreshAuth \/ SpotifyMoves \/ UNCHANGED vars
      BY <2>0, <2>2 DEF RefreshAuth, SpotifyMoves, vars, radioVars, Players
    <2> QED BY <2>1, <2>2, PollPlayers, LoadPlayers, TaskPlayers DEF Next
  <1>2. Spec => [](Flags /\ Players)
    <2>1. Init => Flags /\ Players
      BY InitTypes, TypeParts
    <2>2. Flags /\ Players /\ [Next]_vars => Flags' /\ Players'
      BY <1>1, StepFlags, TypeParts
    <2> QED BY <2>1, <2>2, PTL DEF Spec
  <1> QED BY <1>2, TypeParts, PTL
=============================================================================
