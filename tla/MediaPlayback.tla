--------------------------- MODULE MediaPlayback ---------------------------
(***************************************************************************)
(* Who is heard: MediaManager, RadioPlayer and SpotifyPlayer               *)
(* (backend/src/media_service).  Spotify plays outside the backend; a poll *)
(* observes it, claims playback when it is on the target device and        *)
(* releases it when it leaves.  The radio is a VLC player in the process,  *)
(* loaded by fetching the stream's address from the station's API.         *)
(*                                                                         *)
(* A coroutine is one asyncio task: the poll (one at a time, under         *)
(* _state_lock) or a transport command, a VLC restart, the end of a device *)
(* scan or the start of the service.  Its step says what it is waiting for:*)
(*   idle        nothing                                                   *)
(*   queued      its first run on the loop (a restart VLC's thread asked   *)
(*               for)                                                      *)
(*   asking      Spotify's current_playback                                *)
(*   starting    Spotify's start_playback, in a claim                      *)
(*   streaming   broadcasts of Spotify's state                             *)
(*   loading     the station's address, in load_default_media_player       *)
(*   announcing  broadcasts of the radio's state, after that               *)
(*   tuning      the station's address, to play it at once                 *)
(*   tail        broadcasts of the radio's state, once it plays            *)
(*                                                                         *)
(* Left out: names, covers, positions, and the Spotify transport commands, *)
(* which change nothing here but ask for a poll.                           *)
(***************************************************************************)
EXTENDS Naturals

CONSTANTS
    Task,     \* slots for coroutines other than the poll
    Station,  \* the configured radio stations
    None      \* no station

Poll == "poll"
Coroutine == Task \cup {Poll}

ASSUME ConstantsAssumption == None \notin Station /\ Poll \notin Task /\ Station # {}

VARIABLES
    spotify,      \* the world: "off", "elsewhere", or on the target, "paused" or "playing"
    active,       \* MediaManager.__active_player: "none", "radio" or "spotify"
    claimed,      \* SpotifyPlayer._claimed
    heard,        \* SpotifyPlayer._is_playing, while on the target
    latched,      \* SpotifyPlayer._auth_error is set
    interrupted,  \* MediaManager.__radio_interrupted
    silenced,     \* a device scan stopped a playing radio and owes it back
    channel,      \* RadioPlayer.__channel
    url,          \* RadioPlayer.__stream_url, as the station it plays
    vlc,          \* the VLC player: its media and whether it sounds
    event,        \* a VLC play or pause event is on its way to the loop
    co,           \* the coroutines
    card,         \* what the dashboards were last told
    autoplay,     \* media.autoplayRadio
    resume        \* media.resumeRadioAfterSpotify

radioVars   == <<channel, url, vlc, event>>
spotifyVars == <<claimed, heard, latched>>
configVars  == <<autoplay, resume>>
vars == <<spotify, active, interrupted, silenced, card, co, radioVars, spotifyVars, configVars>>

OnTarget == {"paused", "playing"}
FetchSteps == {"loading", "tuning"}

Rest == [step |-> "idle", station |-> None, sound |-> FALSE]

TypeOK ==
    /\ spotify \in {"off", "elsewhere"} \cup OnTarget
    /\ active \in {"none", "radio", "spotify"}
    /\ claimed \in BOOLEAN /\ heard \in BOOLEAN /\ latched \in BOOLEAN
    /\ interrupted \in BOOLEAN /\ silenced \in BOOLEAN /\ event \in BOOLEAN
    /\ autoplay \in BOOLEAN /\ resume \in BOOLEAN
    /\ channel \in Station
    /\ url \in Station \cup {None}
    /\ vlc \in [media : Station \cup {None}, playing : BOOLEAN]
    /\ co \in [Coroutine -> [step : {"idle", "queued", "asking", "starting", "streaming",
                                     "loading", "announcing", "tuning", "tail"},
                             station : Station \cup {None}, sound : BOOLEAN]]
    /\ card \in [type : {"none", "radio", "spotify"}, playing : BOOLEAN]

(***************************************************************************)
(* The radio                                                               *)
(***************************************************************************)

Silence == [media |-> None, playing |-> FALSE]

\* Suspend coroutine x at a step; station is the one being fetched, sound what
\* is to become of it.
Await(x, step, station, sound) ==
    co' = [co EXCEPT ![x] = [step |-> step, station |-> station, sound |-> sound]]

\* RadioPlayer.load_player up to its fetch: VLC is emptied and the address of
\* the channel as it is now (tuned) is asked for.
BeginLoad(x, step, tuned, sound) ==
    /\ vlc' = Silence
    /\ url' = None
    /\ Await(x, step, tuned, sound)

\* VLC's play(): silence without a media, sound and an event with one.
Sounding(player) == [player EXCEPT !.playing = player.media # None]

\* The rest of load_player, given the address the player ends up with: the
\* fetched one, none in the answer, or (a failed fetch) whatever is there.
\* Setting a media stops the one that plays.
Loaded(address) == IF address = None THEN vlc ELSE [media |-> address, playing |-> FALSE]

Answers(x) == {co[x].station, None, url}

\* RadioPlayer.play: as it is when VLC has a media, else a load.  __play_radio
\* streams the radio's state after it (tail).
PlayRadio(x, tail) ==
    IF vlc.media # None
    THEN /\ vlc' = Sounding(vlc)
         /\ event' = TRUE
         /\ IF tail THEN Await(x, "tail", None, FALSE) ELSE UNCHANGED co
         /\ UNCHANGED url
    ELSE /\ BeginLoad(x, "tuning", channel, tail)
         /\ UNCHANGED event

\* load_default_media_player up to its fetch.  (Stopping Spotify's player is
\* BaseMediaPlayer.stop, which does nothing.)
LoadDefault(x, sound) ==
    /\ active' = "radio"
    /\ BeginLoad(x, "loading", channel, sound)

(***************************************************************************)
(* Steps every coroutine that loads the radio goes through                 *)
(***************************************************************************)

\* Mutant of Finish: the poll forgets to let go of the claim.
FinishClaimed(x) ==
    co' = [co EXCEPT ![x] = Rest] /\ UNCHANGED claimed

\* A coroutine ends; the poll's release ends with the claim given up.
Finish(x) ==
    /\ co' = [co EXCEPT ![x] = Rest]
    /\ claimed' = IF x = Poll THEN FALSE ELSE claimed

\* Mutant of DefaultLoaded: the clients are not told who plays.
DefaultLoadedUntold(x) ==
    /\ co[x].step = "loading"
    /\ \E address \in Answers(x) : url' = address /\ vlc' = Loaded(address)
    /\ Await(x, "announcing", None, co[x].sound)
    /\ UNCHANGED <<spotify, active, interrupted, silenced, card, channel, event, spotifyVars, configVars>>

\* load_default_media_player after its fetch: the media type goes out.
DefaultLoaded(x) ==
    /\ co[x].step = "loading"
    /\ \E address \in Answers(x) : url' = address /\ vlc' = Loaded(address)
    /\ card' = [card EXCEPT !.type = active]
    /\ Await(x, "announcing", None, co[x].sound)
    /\ UNCHANGED <<spotify, active, interrupted, silenced, channel, event, spotifyVars, configVars>>

\* stream_everything of the player that is active now ends with the play state;
\* then the radio is started or the coroutine is done.
RadioShown == IF active = "radio" THEN [card EXCEPT !.playing = vlc.playing] ELSE card

Announced(x) ==
    /\ co[x].step = "announcing"
    /\ card' = RadioShown
    /\ IF co[x].sound
       THEN PlayRadio(x, TRUE) /\ UNCHANGED claimed
       ELSE Finish(x) /\ UNCHANGED <<url, vlc, event>>
    /\ UNCHANGED <<spotify, active, interrupted, silenced, channel, heard, latched, configVars>>

\* The fetch of play(), skip_*() or __reload_and_play() is answered: the stream
\* is loaded and played, whoever holds playback by now.  Only __play_radio
\* (sound) streams afterwards.
Tuned(x) ==
    /\ co[x].step = "tuning"
    /\ \E address \in Answers(x) :
        /\ url' = address
        /\ vlc' = Sounding(Loaded(address))
    /\ event' = (event \/ vlc'.playing)
    /\ IF co[x].sound THEN Await(x, "tail", None, FALSE) /\ UNCHANGED claimed ELSE Finish(x)
    /\ UNCHANGED <<spotify, active, interrupted, silenced, card, channel, heard, latched, configVars>>

TailSent(x) ==
    /\ co[x].step = "tail"
    /\ card' = RadioShown
    /\ Finish(x)
    /\ UNCHANGED <<spotify, active, interrupted, silenced, radioVars, heard, latched, configVars>>

(***************************************************************************)
(* The poll of Spotify                                                     *)
(***************************************************************************)

\* _update_state: the timer, a command, a new grant or a new target device ask
\* for a poll; one that runs already stands for all of them.
PollTick ==
    /\ co[Poll] = Rest
    /\ ~latched /\ active # "none"
    /\ Await(Poll, "asking", None, FALSE)
    /\ UNCHANGED <<spotify, active, interrupted, silenced, card, radioVars, spotifyVars, configVars>>

\* A failed call leaves everything as it is; a terminal OAuth error latches.
PollFailed ==
    /\ co[Poll].step = "asking"
    /\ latched' \in BOOLEAN
    /\ co' = [co EXCEPT ![Poll] = Rest]
    /\ UNCHANGED <<spotify, active, interrupted, silenced, card, radioVars, claimed, heard, configVars>>

\* Nothing on the target and nothing claimed.
PollNothing ==
    /\ co[Poll].step = "asking"
    /\ spotify \notin OnTarget /\ ~claimed
    /\ heard' = FALSE
    /\ co' = [co EXCEPT ![Poll] = Rest]
    /\ UNCHANGED <<spotify, active, interrupted, silenced, card, radioVars, claimed, latched, configVars>>

\* On the target and not claimed: claim_media_control up to start_playback.
Claim ==
    /\ co[Poll].step = "asking"
    /\ spotify \in OnTarget /\ ~claimed
    /\ claimed' = TRUE
    /\ heard' = (spotify = "playing")
    /\ IF active = "radio"
       THEN interrupted' = vlc.playing /\ vlc' = Silence
       ELSE UNCHANGED <<interrupted, vlc>>
    /\ active' = "spotify"
    /\ Await(Poll, "starting", None, FALSE)
    /\ UNCHANGED <<spotify, silenced, card, channel, url, event, latched, configVars>>

\* start_playback succeeded, or failed and cooled down: the type goes out.
ClaimStarted ==
    /\ co[Poll].step = "starting"
    /\ \/ spotify \in OnTarget /\ spotify' = "playing" /\ UNCHANGED latched
       \/ latched' \in BOOLEAN /\ UNCHANGED spotify
    /\ card' = [card EXCEPT !.type = active]
    /\ Await(Poll, "streaming", None, FALSE)
    /\ UNCHANGED <<active, interrupted, silenced, radioVars, claimed, heard, configVars>>

\* Still on the target: its state is streamed.
PollPlaying ==
    /\ co[Poll].step = "asking"
    /\ spotify \in OnTarget /\ claimed
    /\ heard' = (spotify = "playing")
    /\ Await(Poll, "streaming", None, FALSE)
    /\ UNCHANGED <<spotify, active, interrupted, silenced, card, radioVars, claimed, latched, configVars>>

SpotifyStreamed ==
    /\ co[Poll].step = "streaming"
    /\ card' = IF active = "spotify" THEN [card EXCEPT !.playing = heard] ELSE card
    /\ co' = [co EXCEPT ![Poll] = Rest]
    /\ UNCHANGED <<spotify, active, interrupted, silenced, radioVars, spotifyVars, configVars>>

\* Mutant of Release: only silence everywhere gives playback up.
ReleaseOnSilence ==
    /\ co[Poll].step = "asking" /\ spotify = "off" /\ claimed
    /\ heard' = FALSE /\ interrupted' = FALSE
    /\ LoadDefault(Poll, resume /\ interrupted /\ heard)
    /\ UNCHANGED <<spotify, silenced, card, channel, event, claimed, latched, configVars>>

\* Off the target and claimed: release_playback.  The radio is to be resumed
\* when it is configured, Spotify had interrupted it and was playing itself.
Release ==
    /\ co[Poll].step = "asking"
    /\ spotify \notin OnTarget /\ claimed
    /\ heard' = FALSE
    /\ interrupted' = FALSE
    /\ LoadDefault(Poll, resume /\ interrupted /\ heard)
    /\ UNCHANGED <<spotify, silenced, card, channel, event, claimed, latched, configVars>>

\* A new grant was written: polling resumes.
RefreshAuth ==
    /\ latched
    /\ latched' = FALSE
    /\ UNCHANGED <<spotify, active, interrupted, silenced, card, co, radioVars, claimed, heard, configVars>>

(***************************************************************************)
(* Everybody else                                                          *)
(***************************************************************************)

\* MediaManager.run.
Run(x) ==
    /\ active = "none" /\ co[x] = Rest
    /\ LoadDefault(x, autoplay)
    /\ UNCHANGED <<spotify, interrupted, silenced, card, channel, event, spotifyVars, configVars>>

\* pause_play on the radio: a pause at once, or a play.
PausePlay(x) ==
    /\ active = "radio" /\ co[x] = Rest
    /\ IF vlc.playing
       THEN /\ vlc' = [vlc EXCEPT !.playing = FALSE]
            /\ event' = TRUE
            /\ UNCHANGED <<url, co>>
       ELSE PlayRadio(x, FALSE)
    /\ UNCHANGED <<spotify, active, interrupted, silenced, card, channel, spotifyVars, configVars>>

\* Mutant of Skip: the last station has no next one.
SkipPastEnd(x) ==
    /\ active = "radio" /\ co[x] = Rest
    /\ channel' = None /\ BeginLoad(x, "tuning", None, FALSE)
    /\ UNCHANGED <<spotify, active, interrupted, silenced, card, event, spotifyVars, configVars>>

\* skip_forward and skip_backward on the radio: the next or previous station.
Skip(x) ==
    /\ active = "radio" /\ co[x] = Rest
    /\ \E next \in Station \ {channel} :
        channel' = next /\ BeginLoad(x, "tuning", next, FALSE)
    /\ UNCHANGED <<spotify, active, interrupted, silenced, card, event, spotifyVars, configVars>>

\* VLC's stream ends or breaks: its thread asks the loop for a reload.
StreamEnds(x) ==
    /\ vlc.playing /\ co[x] = Rest
    /\ vlc' = [vlc EXCEPT !.playing = FALSE]
    /\ Await(x, "queued", None, FALSE)
    /\ UNCHANGED <<spotify, active, interrupted, silenced, card, channel, url, event, spotifyVars, configVars>>

\* __reload_and_play up to its fetch.
Reload(x) ==
    /\ co[x].step = "queued"
    /\ BeginLoad(x, "tuning", channel, FALSE)
    /\ UNCHANGED <<spotify, active, interrupted, silenced, card, channel, event, spotifyVars, configVars>>

\* VLC's play or pause event reaches the loop: __stream_play_state.
VlcEvent ==
    /\ event
    /\ event' = FALSE
    /\ card' = RadioShown
    /\ UNCHANGED <<spotify, active, interrupted, silenced, channel, url, vlc, co, spotifyVars, configVars>>

\* stop_other_playback: a device scan silences the radio and re-streams it.
StopForScan(x) ==
    /\ active = "radio" /\ co[x] = Rest /\ ~silenced
    /\ silenced' = vlc.playing
    /\ vlc' = Silence
    /\ Await(x, "tail", None, FALSE)
    /\ UNCHANGED <<spotify, active, interrupted, card, channel, url, event, spotifyVars, configVars>>

\* resume_default_playback: the scan is over and owes the radio back, unless
\* Spotify holds playback.
ResumeAfterScan(x) ==
    /\ silenced /\ co[x] = Rest
    /\ silenced' = FALSE
    /\ IF active = "spotify"
       THEN UNCHANGED <<url, vlc, event, co>>
       ELSE PlayRadio(x, TRUE)
    /\ UNCHANGED <<spotify, active, interrupted, card, channel, spotifyVars, configVars>>

\* The user, or the Connect session's timeout, elsewhere.
SpotifyMoves ==
    /\ spotify' \in ({"off", "elsewhere"} \cup OnTarget) \ {spotify}
    /\ UNCHANGED <<active, interrupted, silenced, card, co, radioVars, spotifyVars, configVars>>

(***************************************************************************)
(* The specification                                                       *)
(***************************************************************************)

Init ==
    /\ spotify \in {"off", "playing"}
    /\ active = "none"
    /\ claimed = FALSE /\ heard = FALSE /\ latched = FALSE
    /\ interrupted = FALSE /\ silenced = FALSE
    /\ channel \in Station /\ url = None /\ vlc = Silence /\ event = FALSE
    /\ co = [x \in Coroutine |-> Rest]
    /\ card = [type |-> "none", playing |-> FALSE]
    /\ autoplay \in BOOLEAN /\ resume \in BOOLEAN

PollSucceeds == PollNothing \/ Claim \/ PollPlaying \/ Release
PollStep == PollTick \/ PollFailed \/ PollSucceeds \/ ClaimStarted \/ SpotifyStreamed
LoadStep(x) == DefaultLoaded(x) \/ Announced(x) \/ Tuned(x) \/ TailSent(x)

Next ==
    \/ PollStep
    \/ \E x \in Coroutine : LoadStep(x)
    \/ \E x \in Task :
        \/ Run(x) \/ PausePlay(x) \/ Skip(x) \/ StreamEnds(x) \/ Reload(x)
        \/ StopForScan(x) \/ ResumeAfterScan(x)
    \/ VlcEvent
    \/ RefreshAuth
    \/ SpotifyMoves

Spec == Init /\ [][Next]_vars

\* The service is started; the timer keeps polling, fetches and calls end (both
\* have timeouts), and a call that is made again and again succeeds at times.
PlaybackFairness ==
    /\ WF_vars(\E x \in Task : Run(x))
    /\ WF_vars(PollTick)
    /\ SF_vars(PollSucceeds)
    /\ WF_vars(ClaimStarted) /\ WF_vars(SpotifyStreamed)
    /\ \A x \in Coroutine : WF_vars(LoadStep(x))

FairSpec == Spec /\ PlaybackFairness

(***************************************************************************)
(* What playback promises                                                  *)
(***************************************************************************)

\* Between polls the Spotify player believes it holds playback exactly when the
\* manager gave it playback: transport commands reach the player that is heard.
ClaimIsPlayback == co[Poll].step \in {"idle", "asking"} => (claimed <=> active = "spotify")

\* Between polls, and once the first load has been announced, the dashboards
\* show the player that is active.
CardShowsWhoPlays ==
    co[Poll].step \in {"idle", "asking"} /\ (\A x \in Task : co[x].step # "loading") =>
        card.type = active

\* Spotify playing on the target for good ends with Spotify active, if its
\* grant works; away from the target for good, with the radio active.
SpotifyTakesOver == <>[](spotify \in OnTarget /\ ~latched) => <>[](active = "spotify")
RadioComesBack == <>[](spotify \notin OnTarget /\ ~latched) => <>[](active = "radio")

\* Playback follows Spotify onto the target device and off it (the poll of
\* _update_state, claim_media_control, release_playback).
PlaybackFollows == SpotifyTakesOver /\ RadioComesBack

(***************************************************************************)
(* What the source says of itself and the code does not do                 *)
(***************************************************************************)

\* resume_default_playback: "Spotify claimed control while the scan ran [...]
\* the radio under it must stay silent".
RadioSilentUnderSpotify == active = "spotify" => ~vlc.playing
=============================================================================
